------------------------ MODULE TrafficMonitorProofs ------------------------
EXTENDS TrafficMonitor, TLAPS, FiniteSetTheorems, WellFoundedInduction

-----------------------------------------------------------------------------
(* Induction over the natural numbers, in terms of a set.                  *)
LEMMA NatSetInduction ==
    ASSUME NEW T \in SUBSET Nat, 0 \in T, \A n \in T : n + 1 \in T
    PROVE  T = Nat
<1>1. SUFFICES ASSUME Nat \ T # {} PROVE FALSE
    OBVIOUS
<1>2. PICK x \in Nat \ T : \A y \in Nat \ T : <<y, x>> \notin OpToRel(<, Nat)
    BY <1>1, NatLessThanWellFounded, WFMin
<1>3. \A y \in Nat \ T : ~(y < x)
    BY <1>2, Zenon DEF OpToRel
<1>4. x \in Nat /\ x \notin T /\ x # 0
    BY <1>2
<1>5. x - 1 \in Nat /\ x - 1 < x /\ (x - 1) + 1 = x
    BY <1>4
<1>6. x - 1 \in T
    BY <1>3, <1>5
<1> QED
    BY <1>4, <1>5, <1>6

(* What SumOver computes: the values are added in the order of Pick.       *)
Pick(s) == CHOOSE x \in s : TRUE
Sums(f, D, g) == g = [s \in SUBSET D |-> IF s = {} THEN 0 ELSE f[Pick(s)] + g[s \ {Pick(s)}]]
SumFn(f, D) == CHOOSE g : Sums(f, D, g)

\* SumOver is the recursive function over the finite subsets of its domain.
LEMMA SumOverIs ==
    ASSUME NEW f, NEW S
    PROVE  SumOver(f, S) = SumFn(f, DOMAIN f \cap S)[DOMAIN f \cap S]
    BY DEF SumOver, FoldFunctionOnSet, MapThenFoldSet, SumFn, Sums, Pick

\* The chosen element is an element, and without it the set has one less.
LEMMA PickIn ==
    ASSUME NEW D, IsFiniteSet(D), NEW s \in SUBSET D, s # {}
    PROVE  /\ Pick(s) \in s /\ s \ {Pick(s)} \in SUBSET D
           /\ IsFiniteSet(s) /\ Cardinality(s) \in Nat
           /\ Cardinality(s \ {Pick(s)}) \in Nat
           /\ Cardinality(s) = Cardinality(s \ {Pick(s)}) + 1
<1>1. Pick(s) \in s
    BY DEF Pick
<1>2. IsFiniteSet(s) /\ Cardinality(s) \in Nat
    BY FS_Subset, FS_CardinalityType
<1>3. IsFiniteSet(s \ {Pick(s)}) /\ Cardinality(s \ {Pick(s)}) = Cardinality(s) - 1
    BY <1>1, <1>2, FS_RemoveElement
<1>4. Cardinality(s \ {Pick(s)}) \in Nat
    BY <1>3, FS_CardinalityType
<1> QED
    BY <1>1, <1>2, <1>3, <1>4

(* Such a function exists, built up by the size of its arguments.          *)
LEMMA SumsExist ==
    ASSUME NEW f, NEW D, IsFiniteSet(D)
    PROVE  \E g : Sums(f, D, g)
<1> DEFINE Sub(n) == {s \in SUBSET D : Cardinality(s) <= n}
           Good(n, g) == g = [s \in Sub(n) |-> IF s = {} THEN 0 ELSE f[Pick(s)] + g[s \ {Pick(s)}]]
           T == {n \in Nat : \E g : Good(n, g)}
<1>1. 0 \in T
    <2> DEFINE g == [s \in Sub(0) |-> 0]
    <2>1. \A s \in Sub(0) : s = {}
        BY FS_Subset, FS_EmptySet, FS_CardinalityType
    <2>2. Good(0, g)
        BY <2>1
    <2> QED
        BY <2>2
<1>2. ASSUME NEW n \in T PROVE n + 1 \in T
    <2>1. PICK g : Good(n, g)
        OBVIOUS
    <2> DEFINE h == [s \in Sub(n + 1) |-> IF s = {} THEN 0 ELSE f[Pick(s)] + g[s \ {Pick(s)}]]
    <2>2. \A s \in Sub(n) : s \in Sub(n + 1) /\ h[s] = g[s]
        <3> TAKE s \in Sub(n)
        <3>1. s \in Sub(n + 1)
            BY FS_Subset, FS_CardinalityType
        <3>2. g[s] = IF s = {} THEN 0 ELSE f[Pick(s)] + g[s \ {Pick(s)}]
            BY <2>1
        <3>3. h[s] = IF s = {} THEN 0 ELSE f[Pick(s)] + g[s \ {Pick(s)}]
            BY <3>1
        <3> QED
            BY <3>1, <3>2, <3>3
    <2>3. ASSUME NEW s \in Sub(n + 1), s # {} PROVE s \ {Pick(s)} \in Sub(n)
        BY <2>3, PickIn
    <2>4. Good(n + 1, h)
        BY <2>2, <2>3
    <2>5. n + 1 \in Nat
        BY <1>2
    <2> HIDE DEF Good, h
    <2> QED
        BY <2>4, <2>5
<1>3. T = Nat
    <2> HIDE DEF T
    <2>1. T \in SUBSET Nat
        BY DEF T
    <2> QED
        BY <1>1, <1>2, <2>1, NatSetInduction
<1>4. Cardinality(D) \in Nat /\ Sub(Cardinality(D)) = SUBSET D
    BY FS_Subset, FS_CardinalityType
<1>5. PICK g : Good(Cardinality(D), g)
    BY <1>3, <1>4
<1> QED
    BY <1>4, <1>5 DEF Sums

(* How the sum is unfolded.                                                *)
LEMMA SumIsSums ==
    ASSUME NEW f, NEW D, IsFiniteSet(D)
    PROVE  Sums(f, D, SumFn(f, D))
    BY SumsExist DEF SumFn

\* The empty sum.
LEMMA SumUnfold ==
    ASSUME NEW f, NEW D, IsFiniteSet(D)
    PROVE  SumFn(f, D)[{}] = 0
<1> DEFINE G == SumFn(f, D)
<1>1. Sums(f, D, G)
    BY SumIsSums
<1> HIDE DEF G
<1>2. G[{}] = 0
    BY <1>1 DEF Sums
<1> QED
    BY <1>2 DEF G

\* One unfolding of the recursion.
LEMMA SumStep ==
    ASSUME NEW f, NEW D, IsFiniteSet(D), NEW s \in SUBSET D, s # {}
    PROVE  SumFn(f, D)[s] = f[Pick(s)] + SumFn(f, D)[s \ {Pick(s)}]
<1> DEFINE G == SumFn(f, D)
<1>1. Sums(f, D, G)
    BY SumIsSums
<1> HIDE DEF G
<1>2. G[s] = f[Pick(s)] + G[s \ {Pick(s)}]
    BY <1>1 DEF Sums
<1> QED
    BY <1>2 DEF G

(* A sum depends on the values of its own indices only.                    *)
LEMMA SumAgrees ==
    ASSUME NEW f, NEW D, IsFiniteSet(D), NEW g, NEW E, IsFiniteSet(E),
           NEW s \in SUBSET D, s \in SUBSET E, \A x \in s : f[x] = g[x]
    PROVE  SumFn(f, D)[s] = SumFn(g, E)[s]
<1> DEFINE T == {n \in Nat : \A t \in SUBSET s : Cardinality(t) = n => SumFn(f, D)[t] = SumFn(g, E)[t]}
<1>0. \A t \in SUBSET s : t \in SUBSET D /\ t \in SUBSET E /\ IsFiniteSet(t) /\ Cardinality(t) \in Nat
    BY FS_Subset, FS_CardinalityType
<1>1. 0 \in T
    <2>1. \A t \in SUBSET s : Cardinality(t) = 0 => t = {}
        BY <1>0, FS_EmptySet
    <2>2. SumFn(f, D)[{}] = 0 /\ SumFn(g, E)[{}] = 0
        BY SumUnfold
    <2> QED
        BY <2>1, <2>2
<1>2. ASSUME NEW n \in T PROVE n + 1 \in T
    <2>1. ASSUME NEW t \in SUBSET s, Cardinality(t) = n + 1 PROVE SumFn(f, D)[t] = SumFn(g, E)[t]
        <3>1. t # {}
            <4>1. n \in Nat /\ n + 1 # 0
                BY <1>2
            <4>2. Cardinality({}) = 0
                BY FS_EmptySet
            <4> QED
                BY <2>1, <4>1, <4>2
        <3>2. Pick(t) \in t /\ t \ {Pick(t)} \in SUBSET s /\ Cardinality(t \ {Pick(t)}) = n
            BY <1>0, <1>2, <2>1, <3>1, PickIn
        <3>3. SumFn(f, D)[t \ {Pick(t)}] = SumFn(g, E)[t \ {Pick(t)}]
            BY <1>2, <3>2
        <3>4. SumFn(f, D)[t] = f[Pick(t)] + SumFn(f, D)[t \ {Pick(t)}]
            BY <1>0, <3>1, SumStep
        <3>5. SumFn(g, E)[t] = g[Pick(t)] + SumFn(g, E)[t \ {Pick(t)}]
            <4>1. t \in SUBSET E
                OBVIOUS
            <4> HIDE DEF T
            <4> QED
                BY <3>1, <4>1, SumStep
        <3> QED
            BY <3>2, <3>3, <3>4, <3>5
    <2> QED
        BY <1>2, <2>1
<1>3. T = Nat
    <2> HIDE DEF T
    <2>1. T \in SUBSET Nat
        BY DEF T
    <2> QED
        BY <1>1, <1>2, <2>1, NatSetInduction
<1> QED
    BY <1>0, <1>3

(* The sum of f over a finite set s.                                       *)
Sum(f, s) == SumFn(f, s)[s]

\* A sum of integers is an integer.
LEMMA SumInt ==
    ASSUME NEW f, NEW s, IsFiniteSet(s), \A x \in s : f[x] \in Int
    PROVE  Sum(f, s) \in Int
<1> DEFINE T == {n \in Nat : \A t \in SUBSET s : Cardinality(t) = n => SumFn(f, s)[t] \in Int}
<1>0. \A t \in SUBSET s : IsFiniteSet(t) /\ Cardinality(t) \in Nat
    BY FS_Subset, FS_CardinalityType
<1>1. 0 \in T
    <2>1. \A t \in SUBSET s : Cardinality(t) = 0 => t = {}
        BY <1>0, FS_EmptySet
    <2>2. SumFn(f, s)[{}] = 0
        BY SumUnfold
    <2> QED
        BY <2>1, <2>2
<1>2. ASSUME NEW n \in T PROVE n + 1 \in T
    <2>1. ASSUME NEW t \in SUBSET s, Cardinality(t) = n + 1 PROVE SumFn(f, s)[t] \in Int
        <3>1. t # {}
            <4>1. n \in Nat /\ n + 1 # 0
                BY <1>2
            <4>2. Cardinality({}) = 0
                BY FS_EmptySet
            <4> QED
                BY <2>1, <4>1, <4>2
        <3>2. Pick(t) \in t /\ t \ {Pick(t)} \in SUBSET s /\ Cardinality(t \ {Pick(t)}) = n
            BY <1>0, <1>2, <2>1, <3>1, PickIn
        <3>3. SumFn(f, s)[t \ {Pick(t)}] \in Int /\ f[Pick(t)] \in Int
            BY <1>2, <3>2
        <3>4. SumFn(f, s)[t] = f[Pick(t)] + SumFn(f, s)[t \ {Pick(t)}]
            BY <3>1, SumStep
        <3> QED
            BY <3>3, <3>4
    <2> QED
        BY <1>2, <2>1
<1>3. T = Nat
    <2> HIDE DEF T
    <2>1. T \in SUBSET Nat
        BY DEF T
    <2> QED
        BY <1>1, <1>2, <2>1, NatSetInduction
<1> QED
    BY <1>0, <1>3 DEF Sum

(* Unfolding and extending a sum.                                          *)
LEMMA SumEmpty ==
    ASSUME NEW f
    PROVE  Sum(f, {}) = 0
<1>1. IsFiniteSet({})
    BY FS_EmptySet
<1> QED
    BY <1>1, SumUnfold DEF Sum

\* A sum is its chosen term plus the rest.
LEMMA SumPick ==
    ASSUME NEW f, NEW s, IsFiniteSet(s), s # {}
    PROVE  Sum(f, s) = f[Pick(s)] + Sum(f, s \ {Pick(s)})
<1> DEFINE r == s \ {Pick(s)}
<1>1. IsFiniteSet(r)
    BY FS_Subset
<1>2. SumFn(f, s)[r] = SumFn(f, r)[r]
    BY <1>1, SumAgrees
<1>3. SumFn(f, s)[s] = f[Pick(s)] + SumFn(f, s)[r]
    BY SumStep
<1> QED
    BY <1>2, <1>3 DEF Sum

\* Equal terms have equal sums.
LEMMA SumCongruent ==
    ASSUME NEW f, NEW g, NEW s, IsFiniteSet(s), \A x \in s : f[x] = g[x]
    PROVE  Sum(f, s) = Sum(g, s)
    BY SumAgrees DEF Sum

(* The order of Pick does not matter: any element may be taken out first.  *)
LEMMA SumInsert ==
    ASSUME NEW f, NEW u, IsFiniteSet(u), \A x \in u : f[x] \in Int, NEW a \in u
    PROVE  Sum(f, u) = f[a] + Sum(f, u \ {a})
<1> DEFINE T == {n \in Nat : \A t \in SUBSET u : Cardinality(t) = n =>
                    \A b \in t : Sum(f, t) = f[b] + Sum(f, t \ {b})}
<1>0. \A t \in SUBSET u : IsFiniteSet(t) /\ Cardinality(t) \in Nat /\ Sum(f, t) \in Int
    <2> TAKE t \in SUBSET u
    <2>1. IsFiniteSet(t)
        BY FS_Subset
    <2>2. Sum(f, t) \in Int
        BY <2>1, SumInt
    <2> QED
        BY <2>1, <2>2, FS_CardinalityType
<1>1. 0 \in T
    <2>1. \A t \in SUBSET u : Cardinality(t) = 0 => t = {}
        BY <1>0, FS_EmptySet
    <2> QED
        BY <2>1
<1>2. ASSUME NEW n \in T PROVE n + 1 \in T
    <2>0. n \in Nat
        BY <1>2
    <2>1. ASSUME NEW t \in SUBSET u, Cardinality(t) = n + 1, NEW b \in t
          PROVE  Sum(f, t) = f[b] + Sum(f, t \ {b})
        <3> DEFINE p == Pick(t)
                   q == t \ {p}
                   r == t \ {b}
        <3>1. IsFiniteSet(t) /\ t # {}
            BY <1>0
        <3>2. p \in t /\ Cardinality(q) = n
            BY <2>0, <2>1, <3>1, PickIn
        <3>3. Sum(f, t) = f[p] + Sum(f, q)
            BY <3>1, SumPick
        <3>4. CASE p = b
            BY <3>3, <3>4
        <3>5. CASE p # b
            <4>1. b \in q /\ p \in r /\ q \in SUBSET u /\ r \in SUBSET u
                BY <3>2, <3>5
            <4>2. Cardinality(r) = n
                <5>1. Cardinality(r) = Cardinality(t) - 1
                    BY <2>1, <3>1, FS_RemoveElement
                <5> QED
                    BY <2>0, <2>1, <5>1
            <4>3. Sum(f, q) = f[b] + Sum(f, q \ {b})
                BY <1>2, <3>2, <4>1
            <4>4. Sum(f, r) = f[p] + Sum(f, r \ {p})
                BY <1>2, <4>1, <4>2
            <4>5. q \ {b} = r \ {p} /\ q \ {b} \in SUBSET u
                BY <4>1
            <4>6. Sum(f, q \ {b}) \in Int /\ f[b] \in Int /\ f[p] \in Int
                BY <1>0, <4>1, <4>5
            <4> HIDE DEF p, q, r
            <4>7. f[p] + (f[b] + Sum(f, q \ {b})) = f[b] + (f[p] + Sum(f, q \ {b}))
                BY <4>6
            <4> QED
                BY <3>3, <4>3, <4>4, <4>5, <4>7 DEF r
        <3> QED
            BY <3>4, <3>5
    <2> QED
        BY <2>0, <2>1
<1>3. T = Nat
    <2> HIDE DEF T
    <2>1. T \in SUBSET Nat
        BY DEF T
    <2> QED
        BY <1>1, <1>2, <2>1, NatSetInduction
<1> QED
    BY <1>0, <1>3

(* Induction over the subsets of a finite set, one element at a time.      *)
LEMMA SubsetInduction ==
    ASSUME NEW u, IsFiniteSet(u), NEW T \in SUBSET SUBSET u, {} \in T,
           \A t \in T : \A a \in u \ t : t \cup {a} \in T
    PROVE  u \in T
<1> DEFINE N == {n \in Nat : \A t \in SUBSET u : Cardinality(t) = n => t \in T}
<1>0. \A t \in SUBSET u : IsFiniteSet(t) /\ Cardinality(t) \in Nat
    BY FS_Subset, FS_CardinalityType
<1>1. 0 \in N
    <2>1. \A t \in SUBSET u : Cardinality(t) = 0 => t = {}
        BY <1>0, FS_EmptySet
    <2> QED
        BY <2>1
<1>2. ASSUME NEW n \in N PROVE n + 1 \in N
    <2>0. n \in Nat
        BY <1>2
    <2>1. ASSUME NEW t \in SUBSET u, Cardinality(t) = n + 1 PROVE t \in T
        <3>1. t # {}
            <4>1. Cardinality({}) = 0
                BY FS_EmptySet
            <4>2. n + 1 # 0
                BY <2>0
            <4> QED
                BY <2>1, <4>1, <4>2
        <3>2. PICK a : a \in t
            BY <3>1
        <3>3. Cardinality(t \ {a}) = Cardinality(t) - 1
            BY <1>0, <3>2, FS_RemoveElement
        <3>4. Cardinality(t \ {a}) = n
            BY <2>0, <2>1, <3>3
        <3>5. t \ {a} \in T
            BY <1>2, <3>4
        <3>6. a \in u \ (t \ {a}) /\ (t \ {a}) \cup {a} = t
            BY <3>2
        <3> QED
            BY <3>5, <3>6
    <2> QED
        BY <2>0, <2>1
<1>3. N = Nat
    <2> HIDE DEF N
    <2>1. N \in SUBSET Nat
        BY DEF N
    <2> QED
        BY <1>1, <1>2, <2>1, NatSetInduction
<1> QED
    BY <1>0, <1>3

\* The image of a finite set is finite.
LEMMA FiniteImage ==
    ASSUME NEW u, IsFiniteSet(u), NEW g
    PROVE  IsFiniteSet({g[x] : x \in u})
<1> DEFINE T == {t \in SUBSET u : IsFiniteSet({g[x] : x \in t})}
<1>1. {} \in T
    BY FS_EmptySet
<1>2. ASSUME NEW t \in T, NEW a \in u \ t PROVE t \cup {a} \in T
    <2>1. {g[x] : x \in t \cup {a}} = {g[x] : x \in t} \cup {g[a]}
        OBVIOUS
    <2> DEFINE J == {g[x] : x \in t}
    <2>2. IsFiniteSet(J)
        OBVIOUS
    <2> HIDE DEF J
    <2>3. IsFiniteSet(J \cup {g[a]})
        BY <2>2, FS_AddElement
    <2> QED
        BY <2>1, <2>3 DEF J
<1> HIDE DEF T
<1>3. u \in T
    <2>1. T \in SUBSET SUBSET u
        BY DEF T
    <2> QED
        BY <1>1, <1>2, <2>1, SubsetInduction
<1> QED
    BY <1>3 DEF T

\* A sum with one more term.
LEMMA SumAdd ==
    ASSUME NEW f, NEW t, IsFiniteSet(t), NEW a, a \notin t, f[a] \in Int, \A x \in t : f[x] \in Int
    PROVE  /\ IsFiniteSet(t \cup {a})
           /\ Sum(f, t \cup {a}) = f[a] + Sum(f, t)
           /\ Sum(f, t) \in Int
<1>1. IsFiniteSet(t \cup {a})
    BY FS_AddElement
<1>2. (t \cup {a}) \ {a} = t
    OBVIOUS
<1>3. \A x \in t \cup {a} : f[x] \in Int
    OBVIOUS
<1>4. Sum(f, t \cup {a}) = f[a] + Sum(f, (t \cup {a}) \ {a})
    BY <1>1, <1>3, SumInsert
<1>5. Sum(f, t) \in Int
    BY SumInt
<1> QED
    BY <1>1, <1>2, <1>4, <1>5

\* A sum of naturals is a natural.
LEMMA SumNat ==
    ASSUME NEW f, NEW u, IsFiniteSet(u), \A x \in u : f[x] \in Nat
    PROVE  Sum(f, u) \in Nat
<1> DEFINE T == {t \in SUBSET u : Sum(f, t) \in Nat}
<1>1. {} \in T
    BY SumEmpty
<1>2. ASSUME NEW t \in T, NEW a \in u \ t PROVE t \cup {a} \in T
    <2>1. IsFiniteSet(t) /\ a \notin t /\ f[a] \in Int /\ \A x \in t : f[x] \in Int
        BY FS_Subset
    <2>2. Sum(f, t \cup {a}) = f[a] + Sum(f, t)
        BY <2>1, SumAdd
    <2> QED
        BY <2>2
<1> HIDE DEF T
<1>3. u \in T
    <2>1. T \in SUBSET SUBSET u
        BY DEF T
    <2> QED
        BY <1>1, <1>2, <2>1, SubsetInduction
<1> QED
    BY <1>3 DEF T

\* A sum of zeros.
LEMMA SumZero ==
    ASSUME NEW f, NEW u, IsFiniteSet(u), \A x \in u : f[x] = 0
    PROVE  Sum(f, u) = 0
<1> DEFINE T == {t \in SUBSET u : Sum(f, t) = 0}
<1>1. {} \in T
    BY SumEmpty
<1>2. ASSUME NEW t \in T, NEW a \in u \ t PROVE t \cup {a} \in T
    <2>1. IsFiniteSet(t) /\ a \notin t /\ f[a] \in Int /\ \A x \in t : f[x] \in Int
        BY FS_Subset
    <2>2. Sum(f, t \cup {a}) = f[a] + Sum(f, t)
        BY <2>1, SumAdd
    <2> QED
        BY <2>2
<1> HIDE DEF T
<1>3. u \in T
    <2>1. T \in SUBSET SUBSET u
        BY DEF T
    <2> QED
        BY <1>1, <1>2, <2>1, SubsetInduction
<1> QED
    BY <1>3 DEF T

\* A sum over two disjoint sets.
LEMMA SumSplit ==
    ASSUME NEW f, NEW s, IsFiniteSet(s), NEW u, IsFiniteSet(u), s \cap u = {},
           \A x \in s \cup u : f[x] \in Int
    PROVE  Sum(f, s \cup u) = Sum(f, s) + Sum(f, u)
<1> DEFINE T == {t \in SUBSET u : Sum(f, s \cup t) = Sum(f, s) + Sum(f, t)}
<1>0. Sum(f, s) \in Int
    BY SumInt
<1>1. {} \in T
    <2>1. s \cup {} = s
        OBVIOUS
    <2> QED
        BY <1>0, <2>1, SumEmpty
<1>2. ASSUME NEW t \in T, NEW a \in u \ t PROVE t \cup {a} \in T
    <2>1. IsFiniteSet(t) /\ a \notin t /\ f[a] \in Int /\ \A x \in t : f[x] \in Int
        BY FS_Subset
    <2>2. Sum(f, t \cup {a}) = f[a] + Sum(f, t) /\ Sum(f, t) \in Int
        BY <2>1, SumAdd
    <2>3. IsFiniteSet(s \cup t) /\ a \notin s \cup t /\ \A x \in s \cup t : f[x] \in Int
        BY <2>1, FS_Union
    <2>4. Sum(f, (s \cup t) \cup {a}) = f[a] + Sum(f, s \cup t)
        BY <2>1, <2>3, SumAdd
    <2>5. (s \cup t) \cup {a} = s \cup (t \cup {a})
        OBVIOUS
    <2>6. Sum(f, s \cup t) = Sum(f, s) + Sum(f, t)
        OBVIOUS
    <2>7. f[a] + (Sum(f, s) + Sum(f, t)) = Sum(f, s) + (f[a] + Sum(f, t))
        BY <1>0, <2>1, <2>2
    <2> QED
        BY <2>2, <2>4, <2>5, <2>6, <2>7
<1> HIDE DEF T
<1>3. u \in T
    <2>1. T \in SUBSET SUBSET u
        BY DEF T
    <2> QED
        BY <1>1, <1>2, <2>1, SubsetInduction
<1> QED
    BY <1>3 DEF T

\* A sum is that of a part and that of the rest.
LEMMA SumPart ==
    ASSUME NEW f, NEW u, IsFiniteSet(u), \A x \in u : f[x] \in Nat, NEW s \in SUBSET u
    PROVE  Sum(f, u) = Sum(f, s) + Sum(f, u \ s) /\ Sum(f, s) \in Nat /\ Sum(f, u \ s) \in Nat
<1>1. IsFiniteSet(s) /\ IsFiniteSet(u \ s)
    BY FS_Subset
<1>2. Sum(f, s) \in Nat
    BY <1>1, SumNat
<1>3. Sum(f, u \ s) \in Nat
    BY <1>1, SumNat
<1>4. s \cup (u \ s) = u /\ s \cap (u \ s) = {} /\ \A x \in s \cup (u \ s) : f[x] \in Int
    OBVIOUS
<1>5. Sum(f, s \cup (u \ s)) = Sum(f, s) + Sum(f, u \ s)
    BY <1>1, <1>4, SumSplit
<1> QED
    BY <1>2, <1>3, <1>4, <1>5

(* Changing the value of one index.                                        *)
LEMMA SumChange ==
    ASSUME NEW f, NEW g, NEW u, IsFiniteSet(u), NEW a \in u,
           \A x \in u : f[x] \in Int /\ g[x] \in Int,
           \A x \in u \ {a} : f[x] = g[x]
    PROVE  Sum(f, u) = Sum(g, u) + (f[a] - g[a]) /\ Sum(f, u) \in Int /\ Sum(g, u) \in Int
<1>1. Sum(f, u) = f[a] + Sum(f, u \ {a})
    BY SumInsert
<1>2. Sum(g, u) = g[a] + Sum(g, u \ {a})
    BY SumInsert
<1>3. IsFiniteSet(u \ {a})
    BY FS_Subset
<1>4. Sum(f, u \ {a}) = Sum(g, u \ {a})
    BY <1>3, SumCongruent
<1>5. Sum(f, u \ {a}) \in Int
    BY <1>3, SumInt
<1> QED
    BY <1>1, <1>2, <1>4, <1>5

(* Rows moved into bins: what the bins gain is what the rows held.         *)
BinSum(f, O, fl, b) == Sum(f, {t \in O : fl[t] = b})

\* Adding terms to the bins that fl puts them in adds their sum.
LEMMA SumBinsOf ==
    ASSUME NEW f, NEW O, IsFiniteSet(O), \A x \in O : f[x] \in Int,
           NEW B, IsFiniteSet(B), NEW fl \in [O -> B],
           NEW g, \A b \in B : g[b] \in Int
    PROVE  Sum([b \in B |-> g[b] + Sum(f, {t \in O : fl[t] = b})], B) = Sum(g, B) + Sum(f, O)
<1> DEFINE In(o, b) == {t \in o : fl[t] = b}
           Into(o) == [b \in B |-> g[b] + Sum(f, In(o, b))]
           T == {o \in SUBSET O : Sum(Into(o), B) = Sum(g, B) + Sum(f, o)}
<1>0. Sum(g, B) \in Int
    BY SumInt
<1>1. ASSUME NEW o \in SUBSET O PROVE IsFiniteSet(o) /\ Sum(f, o) \in Int
    <2>1. IsFiniteSet(o)
        BY FS_Subset
    <2> QED
        BY <2>1, SumInt
<1>2. ASSUME NEW o \in SUBSET O, NEW b \in B
      PROVE Sum(f, In(o, b)) \in Int /\ Into(o)[b] \in Int /\ Into(o)[b] = g[b] + Sum(f, In(o, b))
    <2>1. In(o, b) \in SUBSET O
        OBVIOUS
    <2>2. Sum(f, In(o, b)) \in Int
        BY <1>1, <2>1
    <2> QED
        BY <2>2
<1>3. {} \in T
    <2>1. \A b \in B : In({}, b) = {}
        OBVIOUS
    <2>2. \A b \in B : Into({})[b] = g[b]
        BY <2>1, SumEmpty
    <2> HIDE DEF Into
    <2>3. Sum(Into({}), B) = Sum(g, B)
        BY <2>2, SumCongruent
    <2> QED
        BY <1>0, <2>3, SumEmpty
<1>4. ASSUME NEW o \in T, NEW a \in O \ o PROVE o \cup {a} \in T
    <2> DEFINE p == o \cup {a}
               z == fl[a]
    <2>0. o \in SUBSET O /\ p \in SUBSET O /\ a \notin o /\ f[a] \in Int /\ z \in B
          /\ \A x \in o : f[x] \in Int
        OBVIOUS
    <2>1. Sum(f, p) = f[a] + Sum(f, o)
        BY <1>1, <2>0, SumAdd
    <2>2. In(p, z) = In(o, z) \cup {a} /\ a \notin In(o, z) /\ In(o, z) \in SUBSET O
        BY <2>0
    <2>3. Sum(f, In(p, z)) = f[a] + Sum(f, In(o, z))
        <3>1. IsFiniteSet(In(o, z)) /\ \A x \in In(o, z) : f[x] \in Int
            BY <1>1, <2>2
        <3> QED
            BY <2>0, <2>2, <3>1, SumAdd
    <2>4. \A b \in B \ {z} : In(p, b) = In(o, b)
        BY <2>0
    <2>5. \A b \in B : Into(p)[b] \in Int /\ Into(o)[b] \in Int
        BY <1>2, <2>0
    <2>6. \A b \in B \ {z} : Into(p)[b] = Into(o)[b]
        BY <2>4
    <2>7. Into(p)[z] - Into(o)[z] = f[a]
        <3>1. /\ Into(p)[z] = g[z] + Sum(f, In(p, z)) /\ Into(o)[z] = g[z] + Sum(f, In(o, z))
              /\ Sum(f, In(o, z)) \in Int /\ g[z] \in Int /\ f[a] \in Int
            BY <1>2, <2>0
        <3> HIDE DEF Into, In, p, z
        <3> QED
            BY <2>3, <3>1
    <2> HIDE DEF Into, p, z
    <2>8. Sum(Into(p), B) = Sum(Into(o), B) + (Into(p)[z] - Into(o)[z]) /\ Sum(Into(o), B) \in Int
        BY <2>0, <2>5, <2>6, SumChange
    <2>9. Sum(Into(o), B) = Sum(g, B) + Sum(f, o)
        OBVIOUS
    <2>10. Sum(f, o) \in Int
        BY <1>1, <2>0
    <2>11. Sum(Into(p), B) = Sum(g, B) + Sum(f, p)
        BY <1>0, <2>0, <2>1, <2>7, <2>8, <2>9, <2>10
    <2> QED
        BY <2>0, <2>11 DEF p
<1> HIDE DEF T
<1>5. O \in T
    <2>1. T \in SUBSET SUBSET O
        BY DEF T
    <2> QED
        BY <1>3, <1>4, <2>1, SubsetInduction
<1> QED
    BY <1>5 DEF T

\* h adds to g, in the bins B, the values of f at O that fl sends there.
Binned(f, O, B, fl, g, h) ==
    /\ IsFiniteSet(O) /\ \A x \in O : f[x] \in Int
    /\ IsFiniteSet(B) /\ fl \in [O -> B]
    /\ \A b \in B : g[b] \in Int /\ h[b] = g[b] + BinSum(f, O, fl, b)

\* The same for a function given by its values.
LEMMA SumBins ==
    ASSUME NEW f, NEW O, NEW B, NEW fl, NEW g, NEW h, Binned(f, O, B, fl, g, h)
    PROVE  Sum(h, B) = Sum(g, B) + Sum(f, O)
<1> USE DEF Binned
<1> DEFINE I == [b \in B |-> g[b] + Sum(f, {t \in O : fl[t] = b})]
<1>1. Sum(I, B) = Sum(g, B) + Sum(f, O)
    BY SumBinsOf
<1>2. \A b \in B : h[b] = I[b]
    BY DEF BinSum
<1> HIDE DEF I
<1>3. Sum(h, B) = Sum(I, B)
    BY <1>2, SumCongruent
<1> QED
    BY <1>1, <1>3

-----------------------------------------------------------------------------
(* The sums of the model.                                                  *)
Total(f) == Sum(f, DOMAIN f)
Rows(f) == IsFiniteSet(DOMAIN f) /\ DOMAIN f \subseteq Nat /\ f \in [DOMAIN f -> Nat]

\* SumOver in terms of Sum.
LEMMA SumOverSum ==
    ASSUME NEW f, NEW S
    PROVE  SumOver(f, S) = Sum(f, DOMAIN f \cap S)
    BY SumOverIs DEF Sum

\* Over all times SumOver is the total of the rows.
LEMMA SumOverTotal ==
    ASSUME NEW f, Rows(f)
    PROVE  SumOver(f, Nat) = Total(f) /\ Total(f) \in Nat
<1>1. DOMAIN f \cap Nat = DOMAIN f
    BY DEF Rows
<1>2. IsFiniteSet(DOMAIN f) /\ \A x \in DOMAIN f : f[x] \in Nat
    BY DEF Rows
<1>3. Sum(f, DOMAIN f) \in Nat
    BY <1>2, SumNat
<1> QED
    BY <1>1, <1>3, SumOverSum DEF Total

\* SumOver of integers is an integer.
LEMMA SumOverInt ==
    ASSUME NEW f, NEW S, IsFiniteSet(DOMAIN f), \A x \in DOMAIN f : f[x] \in Int
    PROVE  SumOver(f, S) \in Int
<1>1. IsFiniteSet(DOMAIN f \cap S) /\ \A x \in DOMAIN f \cap S : f[x] \in Int
    BY FS_Subset
<1>2. Sum(f, DOMAIN f \cap S) \in Int
    BY <1>1, SumInt
<1> QED
    BY <1>2, SumOverSum

(* Writing a row changes the total by the difference it makes.             *)
LEMMA TotalPut ==
    ASSUME NEW f, Rows(f), NEW t \in Nat, NEW v \in Nat,
           NEW old, old = IF t \in DOMAIN f THEN f[t] ELSE 0,
           NEW g, g = Put(f, t, v)
    PROVE  Rows(g) /\ Total(g) = Total(f) + (v - old)
<1>0. f \in [DOMAIN f -> Nat] /\ IsFiniteSet(DOMAIN f) /\ DOMAIN f \subseteq Nat
    BY DEF Rows
<1>1. /\ DOMAIN g = DOMAIN f \cup {t} /\ g[t] = v
      /\ \A x \in DOMAIN f \ {t} : g[x] = f[x]
      /\ \A x \in DOMAIN g : g[x] \in Nat
      /\ g = [x \in DOMAIN g |-> g[x]]
    BY <1>0 DEF Put
<1>2. IsFiniteSet(DOMAIN g)
    BY <1>0, <1>1, FS_AddElement
<1>3. Rows(g)
    BY <1>0, <1>1, <1>2 DEF Rows
<1> DEFINE r == DOMAIN f \ {t}
<1>4. /\ IsFiniteSet(r) /\ t \notin r /\ DOMAIN g = r \cup {t}
      /\ \A x \in r : g[x] \in Int /\ f[x] \in Int /\ g[x] = f[x]
    BY <1>0, <1>1, FS_Subset
<1>5. Total(g) = v + Sum(g, r)
    <2>1. Sum(g, r \cup {t}) = g[t] + Sum(g, r)
        BY <1>1, <1>4, SumAdd
    <2> QED
        BY <1>1, <1>4, <2>1 DEF Total
<1>6. Sum(g, r) = Sum(f, r)
    BY <1>4, SumCongruent
<1>7. Sum(f, r) \in Int
    BY <1>4, SumInt
<1>8. Total(f) = old + Sum(f, r) /\ old \in Nat
    <2>1. CASE t \in DOMAIN f
        <3>1. f[t] \in Int /\ DOMAIN f = r \cup {t} /\ f[t] = old /\ old \in Nat
            BY <1>0, <2>1
        <3>2. Sum(f, r \cup {t}) = f[t] + Sum(f, r)
            BY <1>4, <3>1, SumAdd
        <3> QED
            BY <3>1, <3>2 DEF Total
    <2>2. CASE t \notin DOMAIN f
        <3>1. DOMAIN f = r /\ old = 0
            BY <2>2
        <3> QED
            BY <1>7, <3>1 DEF Total
    <2> QED
        BY <2>1, <2>2
<1> QED
    BY <1>3, <1>5, <1>6, <1>7, <1>8

(* Rows that leave f for the bins of g take their bytes along.             *)
Folds(f, g, O, fl, raw, into) ==
    /\ Rows(f) /\ Rows(g) /\ O \in SUBSET DOMAIN f /\ fl \in [O -> Nat]
    /\ raw = [t \in DOMAIN f \ O |-> f[t]]
    /\ into = [b \in DOMAIN g \cup {fl[t] : t \in O} |->
                  (IF b \in DOMAIN g THEN g[b] ELSE 0) + SumOver(f, {t \in O : fl[t] = b})]

\* Moving rows from one table into the bins of another keeps the total.
LEMMA Folding ==
    ASSUME NEW f, NEW g, NEW O, NEW fl, NEW raw, NEW into, Folds(f, g, O, fl, raw, into)
    PROVE  Rows(raw) /\ Rows(into) /\ Total(raw) + Total(into) = Total(f) + Total(g)
<1>f. /\ Rows(f) /\ Rows(g) /\ O \in SUBSET DOMAIN f /\ fl \in [O -> Nat]
      /\ raw = [t \in DOMAIN f \ O |-> f[t]]
      /\ into = [b \in DOMAIN g \cup {fl[t] : t \in O} |->
                    (IF b \in DOMAIN g THEN g[b] ELSE 0) + SumOver(f, {t \in O : fl[t] = b})]
    BY DEF Folds
<1> USE <1>f
<1> DEFINE B == DOMAIN g \cup {fl[t] : t \in O}
           e == [b \in B |-> IF b \in DOMAIN g THEN g[b] ELSE 0]
           I == [b \in B |-> e[b] + Sum(f, {t \in O : fl[t] = b})]
<1>0. /\ f \in [DOMAIN f -> Nat] /\ IsFiniteSet(DOMAIN f) /\ DOMAIN f \subseteq Nat
      /\ g \in [DOMAIN g -> Nat] /\ IsFiniteSet(DOMAIN g) /\ DOMAIN g \subseteq Nat
    BY DEF Rows
<1>1. IsFiniteSet(O)
    BY <1>0, FS_Subset
<1>2. IsFiniteSet({fl[t] : t \in O})
    BY <1>1, FiniteImage
<1>3. IsFiniteSet(B) /\ B \subseteq Nat /\ fl \in [O -> B]
    <2>1. IsFiniteSet(B)
        BY <1>0, <1>2, FS_Union
    <2> QED
        BY <1>0, <2>1
<1>4. \A b \in B : e[b] \in Nat
    BY <1>0
<1>5. into = I
    <2>1. \A b \in B : DOMAIN f \cap {t \in O : fl[t] = b} = {t \in O : fl[t] = b}
        OBVIOUS
    <2>2. \A b \in B : SumOver(f, {t \in O : fl[t] = b}) = Sum(f, {t \in O : fl[t] = b})
        BY <2>1, SumOverSum
    <2> QED
        BY <2>2
<1>6. \A b \in B : Sum(f, {t \in O : fl[t] = b}) \in Nat
    <2> TAKE b \in B
    <2> DEFINE S == {t \in O : fl[t] = b}
    <2>1. S \subseteq DOMAIN f
        OBVIOUS
    <2>2. IsFiniteSet(S) /\ \A x \in S : f[x] \in Nat
        BY <1>0, <2>1, FS_Subset
    <2> HIDE DEF S
    <2>3. Sum(f, S) \in Nat
        BY <2>2, SumNat
    <2> QED
        BY <2>3 DEF S
<1>7. Rows(into)
    <2>1. DOMAIN I = B /\ \A b \in B : I[b] = e[b] + Sum(f, {t \in O : fl[t] = b})
        OBVIOUS
    <2>2. I = [b \in B |-> I[b]]
        OBVIOUS
    <2> HIDE DEF B, e, I
    <2>3. ASSUME NEW b \in B PROVE I[b] \in Nat
        <3> DEFINE S == Sum(f, {t \in O : fl[t] = b})
        <3>1. S \in Nat /\ e[b] \in Nat /\ I[b] = e[b] + S
            BY <1>4, <1>6, <2>1
        <3> HIDE DEF S
        <3> QED
            BY <3>1
    <2>4. I \in [B -> Nat]
        BY <2>2, <2>3
    <2> QED
        BY <1>3, <1>5, <2>1, <2>4 DEF Rows
<1>8. Sum(I, B) = Sum(e, B) + Sum(f, O)
    <2>1. (\A x \in O : f[x] \in Int) /\ \A b \in B : e[b] \in Int
        BY <1>0, <1>4
    <2>2. \A b \in B : I[b] = e[b] + BinSum(f, O, fl, b)
        BY DEF BinSum
    <2> HIDE DEF B, e, I
    <2> QED
        <3>1. Binned(f, O, B, fl, e, I)
            BY <1>1, <1>3, <2>1, <2>2 DEF Binned
        <3> QED
            BY <3>1, SumBins
<1>9. Sum(e, B) = Total(g)
    <2> DEFINE R == B \ DOMAIN g
    <2>1. IsFiniteSet(R) /\ B = DOMAIN g \cup R /\ DOMAIN g \cap R = {}
        BY <1>3, FS_Subset
    <2>2. /\ \A x \in R : e[x] = 0
          /\ \A x \in DOMAIN g : e[x] = g[x]
          /\ \A x \in DOMAIN g \cup R : e[x] \in Int
        BY <1>4
    <2> HIDE DEF B, e, R
    <2>3. Sum(e, DOMAIN g \cup R) = Sum(e, DOMAIN g) + Sum(e, R)
        BY <1>0, <2>1, <2>2, SumSplit
    <2>4. Sum(e, R) = 0
        BY <2>1, <2>2, SumZero
    <2>5. Sum(e, DOMAIN g) = Sum(g, DOMAIN g)
        BY <1>0, <2>2, SumCongruent
    <2>6. Sum(g, DOMAIN g) \in Int
        <3>1. \A x \in DOMAIN g : g[x] \in Int
            BY <1>0
        <3> QED
            BY <1>0, <3>1, SumInt
    <2> QED
        BY <2>1, <2>3, <2>4, <2>5, <2>6 DEF Total
<1>10. Total(into) = Total(g) + Sum(f, O)
    <2>1. DOMAIN I = B
        OBVIOUS
    <2> HIDE DEF B, I
    <2> QED
        BY <1>5, <1>8, <1>9, <2>1 DEF Total
<1>11. Rows(raw) /\ Total(raw) = Sum(f, DOMAIN f \ O)
    <2> DEFINE k == DOMAIN f \ O
    <2>1. IsFiniteSet(k) /\ DOMAIN raw = k /\ \A x \in k : raw[x] = f[x]
        BY <1>0, FS_Subset
    <2>2. Rows(raw)
        BY <1>0, <2>1 DEF Rows
    <2> HIDE DEF k
    <2>3. Sum(raw, k) = Sum(f, k)
        BY <2>1, SumCongruent
    <2> QED
        BY <2>1, <2>2, <2>3 DEF Total, k
<1>12. /\ Total(f) = Sum(f, O) + Sum(f, DOMAIN f \ O)
       /\ Sum(f, O) \in Nat /\ Sum(f, DOMAIN f \ O) \in Nat
    <2>1. \A x \in DOMAIN f : f[x] \in Nat
        BY <1>0
    <2> DEFINE D == DOMAIN f
    <2>2. IsFiniteSet(D) /\ O \in SUBSET D /\ \A x \in D : f[x] \in Nat
        BY <1>0, <2>1
    <2> HIDE DEF D
    <2>3. Sum(f, D) = Sum(f, O) + Sum(f, D \ O) /\ Sum(f, O) \in Nat /\ Sum(f, D \ O) \in Nat
        BY <2>2, SumPart
    <2> QED
        BY <2>3 DEF Total, D
<1>13. Total(g) \in Nat
    BY SumOverTotal
<1> QED
    BY <1>7, <1>10, <1>11, <1>12, <1>13

\* A finite set of integers has a greatest element.
LEMMA MaxExists ==
    ASSUME NEW u, IsFiniteSet(u), u \subseteq Int, u # {}
    PROVE  \E m \in u : \A x \in u : x <= m
<1> DEFINE T == {t \in SUBSET u : t = {} \/ \E m \in t : \A x \in t : x <= m}
<1>1. {} \in T
    OBVIOUS
<1>2. ASSUME NEW t \in T, NEW a \in u \ t PROVE t \cup {a} \in T
    <2>1. CASE t = {}
        BY <2>1
    <2>2. CASE t # {}
        <3>1. PICK m \in t : \A x \in t : x <= m
            BY <2>2
        <3>2. m \in Int /\ a \in Int /\ \A x \in t : x \in Int
            OBVIOUS
        <3>3. CASE a <= m
            BY <3>1, <3>2, <3>3
        <3>4. CASE m < a
            <4>1. \A x \in t \cup {a} : x <= a
                BY <3>1, <3>2, <3>4
            <4> QED
                BY <4>1
        <3> QED
            BY <3>2, <3>3, <3>4
    <2> QED
        BY <2>1, <2>2
<1> HIDE DEF T
<1>3. u \in T
    <2>1. T \in SUBSET SUBSET u
        BY DEF T
    <2> QED
        BY <1>1, <1>2, <2>1, SubsetInduction
<1> QED
    BY <1>3 DEF T

(* The two folds of the store: raw rows into hours, hours into days.       *)
LEMMA FloorNat ==
    ASSUME NEW t \in Nat
    PROVE  HourOf(t) \in Nat /\ DayOf(t) \in Nat
<1>1. TicksPerHour \in Nat \ {0} /\ DayTicks \in Nat \ {0}
    BY CalendarAssumption DEF DayTicks
<1>2. \A h \in Nat \ {0} : (t \div h) * h \in Nat
    OBVIOUS
<1> QED
    BY <1>1, <1>2 DEF HourOf, DayOf

HourFold(f, g, before) == Folded(f, g, before, HourOf)
DayFold(f, g, before) == Folded(f, g, before, DayOf)

\* Folding samples into hours keeps the total.
LEMMA FoldedHours ==
    ASSUME NEW f, Rows(f), NEW g, Rows(g), NEW before
    PROVE  /\ Rows(HourFold(f, g, before).raw) /\ Rows(HourFold(f, g, before).into)
           /\ Total(HourFold(f, g, before).raw) + Total(HourFold(f, g, before).into)
                  = Total(f) + Total(g)
<1> DEFINE F == HourFold(f, g, before)
           O == {t \in DOMAIN f : t < before}
           fl == [t \in O |-> HourOf(t)]
<1>1. fl \in [O -> Nat]
    BY FloorNat DEF Rows
<1>2. F.raw = [t \in DOMAIN f \ O |-> f[t]]
    BY DEF HourFold, DayFold, Folded
<1>3. F.into = [b \in DOMAIN g \cup {fl[t] : t \in O} |->
                   (IF b \in DOMAIN g THEN g[b] ELSE 0) + SumOver(f, {t \in O : fl[t] = b})]
    <2>1. {HourOf(t) : t \in O} = {fl[t] : t \in O}
        OBVIOUS
    <2>2. \A b : {t \in O : HourOf(t) = b} = {t \in O : fl[t] = b}
        OBVIOUS
    <2>3. F.into = [b \in DOMAIN g \cup {HourOf(t) : t \in O} |->
                   (IF b \in DOMAIN g THEN g[b] ELSE 0) + SumOver(f, {t \in O : HourOf(t) = b})]
        BY DEF HourFold, DayFold, Folded
    <2> HIDE DEF fl, O
    <2> QED
        BY <2>1, <2>2, <2>3
<1>4. O \in SUBSET DOMAIN f
    OBVIOUS
<1> HIDE DEF O, fl, F
<1>5. Folds(f, g, O, fl, F.raw, F.into)
    BY <1>1, <1>2, <1>3, <1>4 DEF Folds
<1>6. Rows(F.raw) /\ Rows(F.into) /\ Total(F.raw) + Total(F.into) = Total(f) + Total(g)
    BY <1>5, Folding
<1> QED
    BY <1>6 DEF F

\* Folding hours into days keeps the total.
LEMMA FoldedDays ==
    ASSUME NEW f, Rows(f), NEW g, Rows(g), NEW before
    PROVE  /\ Rows(DayFold(f, g, before).raw) /\ Rows(DayFold(f, g, before).into)
           /\ Total(DayFold(f, g, before).raw) + Total(DayFold(f, g, before).into)
                  = Total(f) + Total(g)
<1> DEFINE F == DayFold(f, g, before)
           O == {t \in DOMAIN f : t < before}
           fl == [t \in O |-> DayOf(t)]
<1>1. fl \in [O -> Nat]
    BY FloorNat DEF Rows
<1>2. F.raw = [t \in DOMAIN f \ O |-> f[t]]
    BY DEF HourFold, DayFold, Folded
<1>3. F.into = [b \in DOMAIN g \cup {fl[t] : t \in O} |->
                   (IF b \in DOMAIN g THEN g[b] ELSE 0) + SumOver(f, {t \in O : fl[t] = b})]
    <2>1. {DayOf(t) : t \in O} = {fl[t] : t \in O}
        OBVIOUS
    <2>2. \A b : {t \in O : DayOf(t) = b} = {t \in O : fl[t] = b}
        OBVIOUS
    <2>3. F.into = [b \in DOMAIN g \cup {DayOf(t) : t \in O} |->
                   (IF b \in DOMAIN g THEN g[b] ELSE 0) + SumOver(f, {t \in O : DayOf(t) = b})]
        BY DEF HourFold, DayFold, Folded
    <2> HIDE DEF fl, O
    <2> QED
        BY <2>1, <2>2, <2>3
<1>4. O \in SUBSET DOMAIN f
    OBVIOUS
<1> HIDE DEF O, fl, F
<1>5. Folds(f, g, O, fl, F.raw, F.into)
    BY <1>1, <1>2, <1>3, <1>4 DEF Folds
<1>6. Rows(F.raw) /\ Rows(F.into) /\ Total(F.raw) + Total(F.into) = Total(f) + Total(g)
    BY <1>5, Folding
<1> QED
    BY <1>6 DEF F

-----------------------------------------------------------------------------
(***************************************************************************)
(* The inductive invariant.  It is stated with the sums of the model; d is *)
(* a direction of the interface.                                           *)
(***************************************************************************)
Limited == {"in", "out", "total"}

\* The rows of the store have finitely many keys, the times of past writes.
SampleRows == /\ IsFiniteSet(DOMAIN samples) /\ DOMAIN samples \subseteq 0..now
              /\ samples = [t \in DOMAIN samples |-> samples[t]]
              /\ \A t \in DOMAIN samples :
                    /\ samples[t] = [c |-> samples[t].c, d |-> samples[t].d]
                    /\ samples[t].c \in [Directions -> Nat]
                    /\ samples[t].d \in [Directions -> Nat]
HourRows == /\ IsFiniteSet(DOMAIN hourly) /\ DOMAIN hourly \subseteq Nat
            /\ hourly \in [DOMAIN hourly -> [Directions -> Nat]]
SignedRows == /\ IsFiniteSet(DOMAIN adjustments)
              /\ adjustments \in [DOMAIN adjustments -> [Directions -> Int]]
              /\ IsFiniteSet(DOMAIN packages)
              /\ packages \in [DOMAIN packages -> [Limited -> Int]]
HistoryRows(h) == /\ h = [raw |-> h.raw, hour |-> h.hour, day |-> h.day]
                  /\ Rows(h.raw) /\ Rows(h.hour) /\ Rows(h.day)
IPSum(h) == Total(h.raw) + Total(h.hour) + Total(h.day)
Histories(hs) == /\ hs = [a \in Addresses |-> hs[a]]
                 /\ \A a \in Addresses : HistoryRows(hs[a])
AddressRows == Histories(ip)

MonInv ==
    /\ mon = [pc |-> mon.pc, limits |-> mon.limits, prev |-> mon.prev,
              havePrev |-> mon.havePrev, stopped |-> mon.stopped, next |-> mon.next,
              loaded |-> mon.loaded, ipPrev |-> mon.ipPrev, blind |-> mon.blind]
    /\ mon.pc \in {"off", "idle", "decide", "persist", "stop", "start", "clear", "address"}
    /\ mon.next \in {"idle", "address"}
    /\ mon.prev \in [Directions -> Nat]
    /\ mon.havePrev \in BOOLEAN /\ mon.loaded \in BOOLEAN
    /\ mon.ipPrev \in [Addresses -> Nat]

\* Who owns a stop: the marker is set before sing-box is stopped and cleared
\* only when sing-box was started, and nothing samples while sup decides.
OwnInv ==
    /\ stopped \in BOOLEAN /\ lateStop \in BOOLEAN /\ up \in BOOLEAN
    /\ sup \in {"release", "clear", "boot"} => mon.pc = "off"
    /\ mon.pc = "stop" => stopped
    /\ (mon.pc = "clear" \/ sup = "clear") => downBy # "quota" \/ lateStop
    /\ StopsAreOwned

\* Counted(d) has been counted, and what a monitor would count at its next
\* sample, from the counters it holds or from those it would restore, still fits.
Counted(d) == SumOver([t \in DOMAIN samples |-> samples[t].d[d]], Nat)
              + SumOver(Column(hourly, d), Nat)
IsLast(t) == t \in DOMAIN samples /\ \A u \in DOMAIN samples : u <= t
CountInv ==
    /\ counters \in [Directions -> Nat] /\ carried \in [Directions -> Nat]
    /\ \A d \in Directions :
          /\ Counted(d) <= carried[d]
          /\ mon.havePrev => Counted(d) + Delta(mon.prev[d], counters[d]) <= carried[d]
          /\ \A t \in DOMAIN samples : IsLast(t) =>
                Counted(d) + Delta(samples[t].c[d], counters[d]) <= carried[d]

\* The same for the accounting table, which counts from its installation.
AddressInv ==
    /\ nft = NoTable \/ nft \in [Addresses -> Nat]
    /\ sent \in [Addresses -> Nat]
    /\ \A a \in Addresses :
          /\ IPTotal(a) <= sent[a]
          /\ (mon.loaded /\ Installed) =>
                /\ mon.ipPrev[a] <= nft[a]
                /\ IPTotal(a) + (nft[a] - mon.ipPrev[a]) <= sent[a]

IInv == /\ now \in Nat
        /\ SampleRows /\ HourRows /\ SignedRows /\ AddressRows
        /\ MonInv /\ OwnInv /\ CountInv /\ AddressInv

\* A column of integer rows has an integer sum.
LEMMA IntRowSum ==
    ASSUME NEW f, NEW K, IsFiniteSet(DOMAIN f), f \in [DOMAIN f -> [K -> Int]],
           NEW k \in K, NEW S
    PROVE  SumOver(Column(f, k), S) \in Int
<1> DEFINE g == Column(f, k)
<1>1. DOMAIN g = DOMAIN f /\ \A x \in DOMAIN g : g[x] \in Int
    BY DEF Column
<1> HIDE DEF g
<1>2. SumOver(g, S) \in Int
    BY <1>1, SumOverInt
<1> QED
    BY <1>2 DEF g

\* NonNegative yields a natural.
LEMMA NonNegativeNat ==
    ASSUME NEW n \in Int
    PROVE  NonNegative(n) \in Nat
    BY DEF NonNegative

(* What the store reports is a number of bytes, whatever rows it holds.    *)
LEMMA PackageType ==
    ASSUME SignedRows, NEW since
    PROVE  PackageSince(since) \in [Limited -> Nat]
<1>1. ASSUME NEW k \in Limited PROVE NonNegative(SumOver(Column(packages, k), Since(since))) \in Nat
    <2>1. SumOver(Column(packages, k), Since(since)) \in Int
        BY IntRowSum DEF SignedRows
    <2> QED
        BY <2>1, NonNegativeNat
<1> QED
    BY <1>1 DEF PackageSince, Limited

\* The totals since any time are naturals.
LEMMA TotalsType ==
    ASSUME SampleRows, HourRows, SignedRows, NEW since
    PROVE  TotalsSince(since) \in [Directions -> Nat]
<1> DEFINE S(d) == SumOver([t \in DOMAIN samples |-> samples[t].d[d]], Since(since))
           H(d) == SumOver(Column(hourly, d), Since(since))
           A(d) == SumOver(Column(adjustments, d), Since(since))
<1>1. ASSUME NEW d \in Directions PROVE NonNegative(S(d) + H(d) + A(d)) \in Nat
    <2>1. S(d) \in Int
        <3> DEFINE g == [t \in DOMAIN samples |-> samples[t].d[d]]
        <3>1. IsFiniteSet(DOMAIN g) /\ \A x \in DOMAIN g : g[x] \in Int
            BY DEF SampleRows
        <3> HIDE DEF g
        <3>2. SumOver(g, Since(since)) \in Int
            BY <3>1, SumOverInt
        <3> QED
            BY <3>2 DEF g
    <2>2. H(d) \in Int
        <3>1. hourly \in [DOMAIN hourly -> [Directions -> Int]]
            BY DEF HourRows
        <3> QED
            BY <3>1, IntRowSum DEF HourRows
    <2>3. A(d) \in Int
        BY IntRowSum DEF SignedRows
    <2> HIDE DEF S, H, A
    <2> QED
        BY <2>1, <2>2, <2>3, NonNegativeNat
<1>2. TotalsSince(since) = [d \in Directions |-> NonNegative(S(d) + H(d) + A(d))]
    BY DEF TotalsSince
<1> HIDE DEF S, H, A
<1> QED
    BY <1>1, <1>2

\* Adding to a row keeps the rows typed.
LEMMA PlusType ==
    ASSUME NEW f, NEW K, IsFiniteSet(DOMAIN f), f \in [DOMAIN f -> [K -> Int]], NEW t,
           NEW row \in [K -> Int], NEW g, g = Plus(f, t, row)
    PROVE  IsFiniteSet(DOMAIN g) /\ g \in [DOMAIN g -> [K -> Int]]
<1> DEFINE r == IF t \in DOMAIN f THEN [k \in DOMAIN row |-> f[t][k] + row[k]] ELSE row
<1>1. r \in [K -> Int]
    OBVIOUS
<1>2. g = [u \in DOMAIN f \cup {t} |-> IF u = t THEN r ELSE f[u]]
    BY DEF Plus, Put
<1> HIDE DEF r
<1>3. IsFiniteSet(DOMAIN f \cup {t})
    BY FS_AddElement
<1> QED
    BY <1>1, <1>2, <1>3

\* Deleting rows keeps the rest typed.
LEMMA Frees ==
    ASSUME NEW f, NEW K, IsFiniteSet(DOMAIN f), f \in [DOMAIN f -> [K -> Int]], NEW S,
           NEW g, g = [t \in DOMAIN f \cap S |-> f[t]]
    PROVE  IsFiniteSet(DOMAIN g) /\ g \in [DOMAIN g -> [K -> Int]]
<1>1. IsFiniteSet(DOMAIN f \cap S)
    BY FS_Subset
<1> QED
    BY <1>1

(* The limits the dashboard shows and the quota compares with.             *)
LEMMA LimitsType ==
    ASSUME NEW limits \in LimitChoices, NEW k \in DOMAIN limits
    PROVE  DOMAIN limits = Limited /\ limits[k] \in 0..MaxUint /\ MaxUint \in Nat
    BY LimitAssumption DEF Limited, MaxUint

(* Adjustments and packages stay signed integers.                          *)
LEMMA SignedFrame ==
    ASSUME SignedRows, adjustments' = adjustments, packages' = packages
    PROVE  SignedRows'
    BY DEF SignedRows

\* ReplaceTotals leaves typed corrections.
LEMMA ReplaceTyped ==
    ASSUME SampleRows, HourRows, SignedRows, ReplaceTotals
    PROVE  IsFiniteSet(DOMAIN adjustments') /\ adjustments' \in [DOMAIN adjustments' -> [Directions -> Int]]
<1> DEFINE T == TotalsSince(CycleStart(now))
           row == [d \in Directions |-> 0 - T[d]]
<1>1. T \in [Directions -> Nat]
    BY TotalsType
<1> HIDE DEF T
<1>2. row \in [Directions -> Int]
    BY <1>1
<1>3. adjustments' = Plus(adjustments, now, row)
    BY DEF ReplaceTotals, T
<1> HIDE DEF row
<1> QED
    BY <1>2, <1>3, PlusType DEF SignedRows

\* adjustPackage leaves typed packages.
LEMMA PackageTyped ==
    ASSUME SignedRows, NEW target \in [Limited -> Int], adjustPackage(target)
    PROVE  IsFiniteSet(DOMAIN packages') /\ packages' \in [DOMAIN packages' -> [Limited -> Int]]
<1> DEFINE P == PackageSince(CycleStart(now))
           row == [k \in DOMAIN target |-> target[k] - P[k]]
<1>1. P \in [Limited -> Nat]
    BY PackageType
<1>2. packages' = Plus(packages, now, row)
    BY DEF adjustPackage
<1> HIDE DEF P
<1>3. row \in [Limited -> Int]
    BY <1>1
<1> HIDE DEF row
<1> QED
    BY <1>2, <1>3, PlusType DEF SignedRows

\* A replacement of the usage leaves typed rows.
LEMMA ReplaceSigned ==
    ASSUME SampleRows, HourRows, SignedRows, NEW cycle, ReplaceCurrentTrafficUsage(cycle)
    PROVE  SignedRows'
<1>1. NoLimits \in [Limited -> Int]
    BY DEF NoLimits, Limited
<1>2. ReplaceTotals /\ adjustPackage(NoLimits)
    BY DEF ReplaceCurrentTrafficUsage
<1>3. IsFiniteSet(DOMAIN adjustments') /\ adjustments' \in [DOMAIN adjustments' -> [Directions -> Int]]
    BY <1>2, ReplaceTyped
<1>4. IsFiniteSet(DOMAIN packages') /\ packages' \in [DOMAIN packages' -> [Limited -> Int]]
    BY <1>1, <1>2, PackageTyped
<1> QED
    BY <1>3, <1>4 DEF SignedRows

\* A grant leaves typed rows.
LEMMA GrantSigned ==
    ASSUME SignedRows, NEW cycle, NEW pkg \in Grants, GrantCurrentTrafficPackage(cycle, pkg),
           adjustments' = adjustments
    PROVE  SignedRows'
<1> DEFINE P == PackageSince(CycleStart(now))
<1>1. P \in [Limited -> Nat]
    BY PackageType
<1>2. pkg \in [Limited -> 0..MaxUint] /\ MaxUint \in Nat
    BY LimitAssumption DEF Limited, MaxUint
<1>3. Topped(pkg) = [k \in DOMAIN pkg |-> saturatingAdd(P[k], pkg[k])]
    BY DEF Topped
<1> HIDE DEF P
<1>4. \A k \in Limited : saturatingAdd(P[k], pkg[k]) \in Int
    BY <1>1, <1>2 DEF saturatingAdd
<1>5. Topped(pkg) \in [Limited -> Int]
    BY <1>2, <1>3, <1>4
<1>6. adjustPackage(Topped(pkg))
    BY DEF GrantCurrentTrafficPackage
<1>7. IsFiniteSet(DOMAIN packages') /\ packages' \in [DOMAIN packages' -> [Limited -> Int]]
    BY <1>5, <1>6, PackageTyped
<1> QED
    BY <1>7 DEF SignedRows

-----------------------------------------------------------------------------
(* The monitor's record after a step.                                      *)
MonRec(m) == m = [pc |-> m.pc, limits |-> m.limits, prev |-> m.prev, havePrev |-> m.havePrev,
                  stopped |-> m.stopped, next |-> m.next, loaded |-> m.loaded,
                  ipPrev |-> m.ipPrev, blind |-> m.blind]
MonIs(m, pc, next, prev, have, loaded, ipPrev) ==
    /\ MonRec(m) /\ m.pc = pc /\ m.next = next /\ m.prev = prev /\ m.havePrev = have
    /\ m.loaded = loaded /\ m.ipPrev = ipPrev

\* The fields of an unchanged monitor.
LEMMA SameMon ==
    ASSUME NEW m, MonRec(m), NEW x, x = m
    PROVE  MonIs(x, m.pc, m.next, m.prev, m.havePrev, m.loaded, m.ipPrev)
    BY DEF MonIs

\* The fields of a monitor that is off.
LEMMA OffMon ==
    MonIs(Off, "off", "idle", NoBytes, FALSE, FALSE, NoCount)
    BY DEF Off, MonIs, MonRec

\* The fields of a monitor that goes to another step.
LEMMA GotoMon ==
    ASSUME NEW m, MonRec(m), NEW p, NEW x, x = [m EXCEPT !.pc = p]
    PROVE  MonIs(x, p, m.next, m.prev, m.havePrev, m.loaded, m.ipPrev)
    BY DEF MonRec, MonIs

\* The fields of one that will decide.
LEMMA DecideMon ==
    ASSUME NEW m, MonRec(m), NEW x, x = [m EXCEPT !.pc = "decide", !.next = "idle"]
    PROVE  MonIs(x, "decide", "idle", m.prev, m.havePrev, m.loaded, m.ipPrev)
    BY DEF MonRec, MonIs

\* The fields after a stored sample.
LEMMA SampledMon ==
    ASSUME NEW m, MonRec(m), NEW c, NEW x,
           x = [m EXCEPT !.prev = c, !.havePrev = TRUE, !.pc = "decide", !.next = "address"]
    PROVE  MonIs(x, "decide", "address", c, TRUE, m.loaded, m.ipPrev)
    BY DEF MonRec, MonIs

\* The fields after a sample without a delta.
LEMMA UnsampledMon ==
    ASSUME NEW m, MonRec(m), NEW c, NEW x,
           x = [m EXCEPT !.prev = c, !.havePrev = TRUE, !.pc = "address"]
    PROVE  MonIs(x, "address", m.next, c, TRUE, m.loaded, m.ipPrev)
    BY DEF MonRec, MonIs

\* The fields after a change of the marker.
LEMMA MarkedMon ==
    ASSUME NEW m, MonRec(m), NEW s, NEW p, NEW x, x = [m EXCEPT !.stopped = s, !.pc = p]
    PROVE  MonIs(x, p, m.next, m.prev, m.havePrev, m.loaded, m.ipPrev)
    BY DEF MonRec, MonIs

\* The fields after the table was loaded.
LEMMA AddressMon ==
    ASSUME NEW m, MonRec(m), NEW l, NEW i, NEW x,
           x = [m EXCEPT !.pc = "idle", !.loaded = l, !.ipPrev = i]
    PROVE  MonIs(x, "idle", m.next, m.prev, m.havePrev, l, i)
    BY DEF MonRec, MonIs

\* The fields after the table was read.
LEMMA ReadMon ==
    ASSUME NEW m, MonRec(m), NEW i, NEW x, x = [m EXCEPT !.pc = "idle", !.ipPrev = i]
    PROVE  MonIs(x, "idle", m.next, m.prev, m.havePrev, m.loaded, i)
    BY DEF MonRec, MonIs

\* The fields of a new monitor.
LEMMA NewMon ==
    ASSUME NEW r
    PROVE  MonIs(New(r), "idle", "idle", LatestCounters.c, LatestCounters.ok, FALSE, NoCount)
<1>1. Off = [pc |-> "off", limits |-> NoLimits, prev |-> NoBytes, havePrev |-> FALSE,
             stopped |-> FALSE, next |-> "idle", loaded |-> FALSE, ipPrev |-> NoCount,
             blind |-> FALSE]
    BY DEF Off
<1>2. ASSUME NEW o, o = Off, NEW l, NEW s, NEW h, NEW c, NEW b,
             NEW x, x = [o EXCEPT !.pc = "idle", !.limits = l, !.stopped = s, !.havePrev = h,
                                  !.prev = c, !.blind = b]
      PROVE MonIs(x, "idle", "idle", c, h, FALSE, NoCount)
    BY <1>1, <1>2 DEF MonIs, MonRec
<1> QED
    BY <1>2 DEF New, Restored

(* What leaves the traffic counts alone, and what they then keep.          *)
QuietRows ==
    /\ now' \in Nat /\ now <= now'
    /\ samples' = samples /\ hourly' = hourly
    /\ counters' = counters /\ carried' = carried
    /\ mon'.havePrev => mon.havePrev /\ mon'.prev = mon.prev
QuietAddress ==
    /\ nft' \in {nft, NoTable} /\ sent' = sent /\ ip' = ip
    /\ (mon'.loaded /\ nft' # NoTable) => mon.loaded /\ nft' = nft /\ mon'.ipPrev = mon.ipPrev

\* Unchanged rows count the same.
LEMMA RowsSame ==
    ASSUME now \in Nat, now' \in Nat, now <= now', samples' = samples, hourly' = hourly,
           SampleRows, HourRows
    PROVE  /\ SampleRows' /\ HourRows'
           /\ \A d : Counted(d)' = Counted(d)
           /\ \A t : IsLast(t)' <=> IsLast(t)
<1>1. HourRows'
    BY DEF HourRows
<1>2. SampleRows'
    <2>1. DOMAIN samples \subseteq 0..now'
        BY DEF SampleRows
    <2> QED
        BY <2>1, Zenon DEF SampleRows
<1>3. \A d : Counted(d)' = Counted(d)
    BY Zenon DEF Counted, Column
<1>4. \A t : IsLast(t)' <=> IsLast(t)
    BY Zenon DEF IsLast
<1> QED
    BY <1>1, <1>2, <1>3, <1>4

\* A step that counts nothing keeps the traffic rows' invariants.
LEMMA RowsFrame ==
    ASSUME now \in Nat, SampleRows, HourRows, CountInv, QuietRows
    PROVE  now' \in Nat /\ SampleRows' /\ HourRows' /\ CountInv'
<1>1. /\ SampleRows' /\ HourRows'
      /\ \A d : Counted(d)' = Counted(d)
      /\ \A t : IsLast(t)' <=> IsLast(t)
    BY RowsSame DEF QuietRows
<1>2. CountInv'
    BY <1>1 DEF CountInv, QuietRows
<1> QED
    BY <1>1, <1>2 DEF QuietRows

\* A step that counts nothing keeps the address rows' invariants.
LEMMA AddressFrame ==
    ASSUME AddressRows, AddressInv, QuietAddress
    PROVE  AddressRows' /\ AddressInv'
<1>1. AddressRows'
    BY Zenon DEF AddressRows, QuietAddress
<1>2. \A a : IPTotal(a)' = IPTotal(a)
    BY Zenon DEF IPTotal, QuietAddress
<1>3. nft' = NoTable \/ nft' \in [Addresses -> Nat]
    BY DEF AddressInv, QuietAddress
<1>4. ASSUME NEW a \in Addresses, mon'.loaded, nft' # NoTable
      PROVE mon'.ipPrev[a] <= nft'[a] /\ IPTotal(a)' + (nft'[a] - mon'.ipPrev[a]) <= sent'[a]
    BY <1>2, <1>4 DEF AddressInv, QuietAddress, Installed
<1> QED
    BY <1>1, <1>2, <1>3, <1>4 DEF AddressInv, QuietAddress, Installed

-----------------------------------------------------------------------------
\* A monitor with typed fields is well typed.
LEMMA MonKeeps ==
    ASSUME NEW p \in {"off", "idle", "decide", "persist", "stop", "start", "clear", "address"},
           NEW n \in {"idle", "address"}, NEW v \in [Directions -> Nat],
           NEW h \in BOOLEAN, NEW l \in BOOLEAN, NEW i \in [Addresses -> Nat], MonIs(mon', p, n, v, h, l, i)
    PROVE  MonInv'
    BY DEF MonInv, MonIs, MonRec

\* The types of the fields a step hands on.
LEMMA MonFields ==
    ASSUME MonInv
    PROVE  /\ mon.next \in {"idle", "address"} /\ mon.prev \in [Directions -> Nat]
           /\ mon.havePrev \in BOOLEAN /\ mon.loaded \in BOOLEAN
           /\ mon.ipPrev \in [Addresses -> Nat]
    BY DEF MonInv

\* NoBytes counts every direction.
LEMMA NoBytesType == NoBytes \in [Directions -> Nat]
    BY DEF NoBytes

\* NoCount counts every address, and no table counts like it.
LEMMA NoCountType == NoCount \in [Addresses -> Nat] /\ \A a \in Addresses : NoCount[a] = 0
    BY DEF NoCount

\* A step that counts nothing has only the monitor, the owner and the
\* corrections to show.
LEMMA QuietStep ==
    ASSUME IInv, MonInv', OwnInv', SignedRows', QuietRows, QuietAddress
    PROVE  IInv'
<1>1. now' \in Nat /\ SampleRows' /\ HourRows' /\ CountInv'
    BY RowsFrame DEF IInv
<1>2. AddressRows' /\ AddressInv'
    BY AddressFrame DEF IInv
<1> QED
    BY <1>1, <1>2 DEF IInv


\* The operator's corrections, packages and resets keep the invariant.
LEMMA AdjustingStep ==
    ASSUME IInv, Adjusting
    PROVE  IInv'
<1>m. MonRec(mon) /\ MonInv /\ OwnInv /\ SignedRows
      /\ SampleRows /\ HourRows /\ now \in Nat
    BY DEF IInv, MonInv, MonRec, AddressInv
<1>1. CASE ReadUsage
    <2>1. MonIs(mon', mon.pc, mon.next, mon.prev, mon.havePrev, mon.loaded, mon.ipPrev)
        BY <1>1, <1>m, SameMon DEF ReadUsage, kernel, store, control, service, address
    <2>2. MonInv'
        BY <1>m, <2>1, MonKeeps, NoBytesType, NoCountType DEF MonInv
    <2>3. OwnInv'
        BY <1>1, <1>m, <2>1 DEF ReadUsage, kernel, store, control, service, address, OwnInv, StopsAreOwned, MonIs, MonInv
    <2>4. QuietRows /\ QuietAddress
        BY <1>1, <1>m, <2>1 DEF ReadUsage, kernel, store, control, service, address, QuietRows, QuietAddress, MonIs
    <2>5. SignedRows'
        BY <1>1, <1>m, SignedFrame DEF ReadUsage, kernel, store, control, service, address
    <2> QED
        BY <2>2, <2>3, <2>4, <2>5, QuietStep
<1>2. CASE SetCurrentTrafficUsage
    <2>1. MonIs(mon', "decide", "idle", mon.prev, mon.havePrev, mon.loaded, mon.ipPrev)
        BY <1>2, <1>m, DecideMon DEF SetCurrentTrafficUsage, kernel, store, control, service, address
    <2>2. MonInv'
        BY <1>m, <2>1, MonKeeps, NoBytesType, NoCountType DEF MonInv
    <2>3. OwnInv'
        BY <1>2, <1>m, <2>1 DEF SetCurrentTrafficUsage, kernel, store, control, service, address, OwnInv, StopsAreOwned, MonIs, MonInv
    <2>4. QuietRows /\ QuietAddress
        BY <1>2, <1>m, <2>1 DEF SetCurrentTrafficUsage, kernel, store, control, service, address, QuietRows, QuietAddress, MonIs
    <2>5. SignedRows'
        BY <1>2, <1>m, ReplaceSigned DEF SetCurrentTrafficUsage
    <2> QED
        BY <2>2, <2>3, <2>4, <2>5, QuietStep
<1>3. CASE SetUsageHalfway
    <2>1. MonIs(mon', mon.pc, mon.next, mon.prev, mon.havePrev, mon.loaded, mon.ipPrev)
        BY <1>3, <1>m, SameMon DEF SetUsageHalfway, kernel, store, control, service, address
    <2>2. MonInv'
        BY <1>m, <2>1, MonKeeps, NoBytesType, NoCountType DEF MonInv
    <2>3. OwnInv'
        BY <1>3, <1>m, <2>1 DEF SetUsageHalfway, kernel, store, control, service, address, OwnInv, StopsAreOwned, MonIs, MonInv
    <2>4. QuietRows /\ QuietAddress
        BY <1>3, <1>m, <2>1 DEF SetUsageHalfway, kernel, store, control, service, address, QuietRows, QuietAddress, MonIs
    <2>5. SignedRows'
        BY <1>3, <1>m, ReplaceTyped DEF SetUsageHalfway, SignedRows
    <2> QED
        BY <2>2, <2>3, <2>4, <2>5, QuietStep
<1>4. CASE TrafficCycleChanged
    <2>1. MonIs(mon', mon.pc, mon.next, mon.prev, mon.havePrev, mon.loaded, mon.ipPrev)
        BY <1>4, <1>m, SameMon DEF TrafficCycleChanged, kernel, store, control, service, address
    <2>2. MonInv'
        BY <1>m, <2>1, MonKeeps, NoBytesType, NoCountType DEF MonInv
    <2>3. OwnInv'
        BY <1>4, <1>m, <2>1 DEF TrafficCycleChanged, kernel, store, control, service, address, OwnInv, StopsAreOwned, MonIs, MonInv
    <2>4. QuietRows /\ QuietAddress
        BY <1>4, <1>m, <2>1 DEF TrafficCycleChanged, kernel, store, control, service, address, QuietRows, QuietAddress, MonIs
    <2>5. SignedRows'
        BY <1>4, <1>m, SignedFrame DEF TrafficCycleChanged, kernel, store, control, service, address
    <2> QED
        BY <2>2, <2>3, <2>4, <2>5, QuietStep
<1>5. CASE withStoredTrafficUsage
    <2>1. MonIs(mon', mon.pc, mon.next, mon.prev, mon.havePrev, mon.loaded, mon.ipPrev)
        BY <1>5, <1>m, SameMon DEF withStoredTrafficUsage, kernel, store, control, service, address
    <2>2. MonInv'
        BY <1>m, <2>1, MonKeeps, NoBytesType, NoCountType DEF MonInv
    <2>3. OwnInv'
        BY <1>5, <1>m, <2>1 DEF withStoredTrafficUsage, kernel, store, control, service, address, OwnInv, StopsAreOwned, MonIs, MonInv
    <2>4. QuietRows /\ QuietAddress
        BY <1>5, <1>m, <2>1 DEF withStoredTrafficUsage, kernel, store, control, service, address, QuietRows, QuietAddress, MonIs
    <2>5. SignedRows'
        BY <1>5, <1>m, ReplaceSigned, GrantSigned DEF withStoredTrafficUsage
    <2> QED
        BY <2>2, <2>3, <2>4, <2>5, QuietStep
<1>6. CASE setManageCurrentTrafficTotals
    <2>1. MonIs(mon', mon.pc, mon.next, mon.prev, mon.havePrev, mon.loaded, mon.ipPrev)
        BY <1>6, <1>m, SameMon DEF setManageCurrentTrafficTotals, kernel, store, control, service, address
    <2>2. MonInv'
        BY <1>m, <2>1, MonKeeps, NoBytesType, NoCountType DEF MonInv
    <2>3. OwnInv'
        BY <1>6, <1>m, <2>1 DEF setManageCurrentTrafficTotals, kernel, store, control, service, address, OwnInv, StopsAreOwned, MonIs, MonInv
    <2>4. QuietRows /\ QuietAddress
        BY <1>6, <1>m, <2>1 DEF setManageCurrentTrafficTotals, kernel, store, control, service, address, QuietRows, QuietAddress, MonIs
    <2>5. SignedRows'
        BY <1>6, <1>m, ReplaceSigned DEF setManageCurrentTrafficTotals
    <2> QED
        BY <2>2, <2>3, <2>4, <2>5, QuietStep
<1>7. ASSUME NEW pkg \in Grants, GrantTrafficPackage(pkg) PROVE IInv'
    <2>1. MonIs(mon', "decide", "idle", mon.prev, mon.havePrev, mon.loaded, mon.ipPrev)
        BY <1>7, <1>m, DecideMon DEF GrantTrafficPackage, kernel, store, control, service, address
    <2>2. MonInv'
        BY <1>m, <2>1, MonKeeps, NoBytesType, NoCountType DEF MonInv
    <2>3. OwnInv'
        BY <1>7, <1>m, <2>1 DEF GrantTrafficPackage, kernel, store, control, service, address, OwnInv, StopsAreOwned, MonIs, MonInv
    <2>4. QuietRows /\ QuietAddress
        BY <1>7, <1>m, <2>1 DEF GrantTrafficPackage, kernel, store, control, service, address, QuietRows, QuietAddress, MonIs
    <2>5. SignedRows'
        BY <1>7, <1>m, GrantSigned DEF GrantTrafficPackage, store
    <2> QED
        BY <2>2, <2>3, <2>4, <2>5, QuietStep
<1>8. ASSUME NEW pkg \in Grants, AddTrafficPackage(pkg) PROVE IInv'
    <2>1. MonIs(mon', mon.pc, mon.next, mon.prev, mon.havePrev, mon.loaded, mon.ipPrev)
        BY <1>8, <1>m, SameMon DEF AddTrafficPackage, kernel, store, control, service, address
    <2>2. MonInv'
        BY <1>m, <2>1, MonKeeps, NoBytesType, NoCountType DEF MonInv
    <2>3. OwnInv'
        BY <1>8, <1>m, <2>1 DEF AddTrafficPackage, kernel, store, control, service, address, OwnInv, StopsAreOwned, MonIs, MonInv
    <2>4. QuietRows /\ QuietAddress
        BY <1>8, <1>m, <2>1 DEF AddTrafficPackage, kernel, store, control, service, address, QuietRows, QuietAddress, MonIs
    <2>5. SignedRows'
        BY <1>8, <1>m, GrantSigned DEF AddTrafficPackage, store
    <2> QED
        BY <2>2, <2>3, <2>4, <2>5, QuietStep
<1> QED
    BY <1>1, <1>2, <1>3, <1>4, <1>5, <1>6, <1>7, <1>8 DEF Adjusting

(* The steps that move the counts.                                         *)
LEMMA CountedSums ==
    ASSUME SampleRows, HourRows, NEW d \in Directions,
           NEW f, f = [t \in DOMAIN samples |-> samples[t].d[d]], NEW g, g = Column(hourly, d)
    PROVE  Rows(f) /\ Rows(g) /\ Counted(d) = Total(f) + Total(g) /\ Counted(d) \in Nat
<1>1. Rows(f)
    BY DEF Rows, SampleRows
<1>2. Rows(g)
    BY DEF Rows, HourRows, Column
<1>3. SumOver(f, Nat) = Total(f) /\ Total(f) \in Nat
    BY <1>1, SumOverTotal
<1>4. SumOver(g, Nat) = Total(g) /\ Total(g) \in Nat
    BY <1>2, SumOverTotal
<1>5. Counted(d) = SumOver(f, Nat) + SumOver(g, Nat)
    BY DEF Counted
<1> QED
    BY <1>1, <1>2, <1>3, <1>4, <1>5

\* What has been counted is a natural.
LEMMA CountedNat ==
    ASSUME SampleRows, HourRows, NEW d \in Directions
    PROVE  Counted(d) \in Nat
    BY CountedSums

\* sampleOnce keeps the invariant.
LEMMA sampleOnceStep ==
    ASSUME IInv, sampleOnce
    PROVE  IInv'
<1>m. MonRec(mon) /\ MonInv /\ OwnInv /\ SignedRows /\ SampleRows /\ HourRows /\ CountInv
      /\ AddressRows /\ AddressInv /\ now \in Nat /\ now' = now
    BY DEF IInv, MonInv, MonRec, sampleOnce
<1>1. MonIs(mon', "decide", "address", counters, TRUE, mon.loaded, mon.ipPrev)
    BY <1>m, SampledMon DEF sampleOnce
<1>2. MonInv'
    <2>1. counters \in [Directions -> Nat]
        BY <1>m DEF CountInv
    <2>2. /\ mon.next \in {"idle", "address"} /\ mon.prev \in [Directions -> Nat]
          /\ mon.havePrev \in BOOLEAN /\ mon.loaded \in BOOLEAN
          /\ mon.ipPrev \in [Addresses -> Nat]
        BY <1>m, MonFields
    <2> QED
        BY <1>1, <2>1, <2>2 DEF MonInv, MonIs, MonRec
<1>3. OwnInv'
    BY <1>m, <1>1 DEF sampleOnce, OwnInv, StopsAreOwned, MonIs, MonInv, service, control
<1>4. SignedRows'
    BY <1>m, SignedFrame DEF sampleOnce
<1>5. AddressRows' /\ AddressInv'
    <2>1. QuietAddress
        BY <1>m, <1>1 DEF sampleOnce, QuietAddress, MonIs, kernel, address, AddressInv
    <2> QED
        BY <1>m, <2>1, AddressFrame
<1> DEFINE old == IF now \in DOMAIN samples THEN samples[now].d ELSE NoBytes
           new == [d \in Directions |-> old[d] + SampleDelta(counters)[d]]
           row == [c |-> counters, d |-> new]
<1>6. samples' = Put(samples, now, row) /\ hourly' = hourly /\ counters' = counters /\ carried' = carried
    BY DEF sampleOnce, kernel
<1>7. old \in [Directions -> Nat]
    BY <1>m, NoBytesType DEF SampleRows
<1>8. \A d \in Directions : SampleDelta(counters)[d] \in Nat
    BY <1>m DEF SampleDelta, Delta, MonInv, CountInv
<1>9. /\ new \in [Directions -> Nat]
      /\ \A d \in Directions : new[d] = old[d] + SampleDelta(counters)[d]
    BY <1>7, <1>8
<1>10. row.c = counters /\ row.d = new /\ row = [c |-> row.c, d |-> row.d]
    OBVIOUS
<1>o. \A d \in Directions : old[d] = IF now \in DOMAIN samples THEN samples[now].d[d] ELSE 0
    BY DEF NoBytes
<1> HIDE DEF old, new, row
<1>11. /\ DOMAIN samples' = DOMAIN samples \cup {now}
       /\ \A t \in DOMAIN samples' : samples'[t] = IF t = now THEN row ELSE samples[t]
       /\ samples' = [t \in DOMAIN samples' |-> samples'[t]]
    BY <1>6 DEF Put
<1>12. SampleRows'
    <2>1. IsFiniteSet(DOMAIN samples')
        BY <1>m, <1>11, FS_AddElement DEF SampleRows
    <2>2. DOMAIN samples' \subseteq 0..now'
        BY <1>m, <1>11 DEF SampleRows
    <2>3. ASSUME NEW t \in DOMAIN samples'
          PROVE  /\ samples'[t] = [c |-> samples'[t].c, d |-> samples'[t].d]
                 /\ samples'[t].c \in [Directions -> Nat]
                 /\ samples'[t].d \in [Directions -> Nat]
        <3>1. CASE t = now
            BY <1>m, <1>9, <1>10, <1>11, <3>1 DEF CountInv
        <3>2. CASE t # now
            BY <1>m, <1>11, <3>2 DEF SampleRows
        <3> QED
            BY <3>1, <3>2
    <2> QED
        BY <1>11, <2>1, <2>2, <2>3 DEF SampleRows
<1>13. HourRows'
    BY <1>m, <1>6 DEF HourRows
<1>14. ASSUME NEW d \in Directions PROVE Counted(d)' = Counted(d) + SampleDelta(counters)[d]
    <2> DEFINE f == [t \in DOMAIN samples |-> samples[t].d[d]]
               h == [t \in DOMAIN samples' |-> samples'[t].d[d]]
               g == Column(hourly, d)
    <2>1. Rows(f) /\ Rows(g) /\ Counted(d) = Total(f) + Total(g)
        BY <1>m, CountedSums
    <2>2. Counted(d)' = Total(h) + Total(g)
        <3>1. g = Column(hourly', d)
            BY <1>6
        <3>2. Rows(h) /\ Rows(g)
            BY <1>12, <2>1 DEF Rows, SampleRows
        <3>3. SumOver(h, Nat) = Total(h)
            BY <3>2, SumOverTotal
        <3>4. SumOver(g, Nat) = Total(g)
            BY <3>2, SumOverTotal
        <3>5. Counted(d)' = SumOver(h, Nat) + SumOver(Column(hourly', d), Nat)
            BY DEF Counted, Column
        <3> QED
            BY <3>1, <3>3, <3>4, <3>5
    <2>3. h = Put(f, now, new[d])
        BY <1>10, <1>11 DEF Put
    <2>4. old[d] = IF now \in DOMAIN f THEN f[now] ELSE 0
        BY <1>o
    <2>5. new[d] \in Nat /\ old[d] \in Nat /\ new[d] = old[d] + SampleDelta(counters)[d]
          /\ SampleDelta(counters)[d] \in Nat
        BY <1>7, <1>8, <1>9
    <2> HIDE DEF f, g, h
    <2>6. Total(h) = Total(f) + (new[d] - old[d])
        BY <1>m, <2>1, <2>3, <2>4, <2>5, TotalPut
    <2>7. Total(f) \in Nat /\ Total(g) \in Nat
        BY <2>1, SumOverTotal
    <2> QED
        BY <2>1, <2>2, <2>5, <2>6, <2>7
<1>15. CountInv'
    <2>1. ASSUME NEW d \in Directions
          PROVE  /\ Counted(d)' <= carried'[d]
                 /\ Delta(counters[d], counters[d]) = 0
                 /\ Counted(d)' \in Nat
        <3>1. SampleDelta(counters)[d] = IF mon.havePrev THEN Delta(mon.prev[d], counters[d]) ELSE 0
            BY DEF SampleDelta
        <3>2. Counted(d) \in Nat /\ Counted(d) <= carried[d]
              /\ (mon.havePrev => Counted(d) + Delta(mon.prev[d], counters[d]) <= carried[d])
              /\ carried[d] \in Nat /\ counters[d] \in Nat
            BY <1>m, CountedNat DEF CountInv
        <3>3. Counted(d)' <= carried[d] /\ Counted(d)' \in Nat
            BY <1>8, <1>14, <3>1, <3>2
        <3> QED
            BY <1>6, <3>2, <3>3 DEF Delta
    <2>2. \A t \in DOMAIN samples' : IsLast(t)' => t = now
        <3>1. now \in DOMAIN samples' /\ DOMAIN samples' \subseteq 0..now
            BY <1>m, <1>11, <1>12 DEF SampleRows
        <3>2. \A t \in DOMAIN samples' : IsLast(t)' => now <= t
            BY <3>1 DEF IsLast
        <3> QED
            BY <1>m, <3>1, <3>2
    <2>3. samples'[now].c = counters
        BY <1>10, <1>11
    <2>4. mon'.prev = counters
        BY <1>1 DEF MonIs
    <2>5. \A d \in Directions : carried'[d] \in Nat /\ Counted(d)' + 0 = Counted(d)'
        BY <1>m, <1>6, <2>1 DEF CountInv
    <2> QED
        BY <1>m, <1>6, <2>1, <2>2, <2>3, <2>4, <2>5 DEF CountInv
<1> QED
    BY <1>m, <1>2, <1>3, <1>4, <1>5, <1>12, <1>13, <1>15 DEF IInv

(* The history an operator or a new cycle may have cleared.               *)
LEMMA HistoryTotal ==
    ASSUME NEW h, HistoryRows(h)
    PROVE  BytesOf(h) = IPSum(h) /\ IPSum(h) \in Nat
<1>1. SumOver(h.raw, Nat) = Total(h.raw) /\ Total(h.raw) \in Nat
    BY SumOverTotal DEF HistoryRows
<1>2. SumOver(h.hour, Nat) = Total(h.hour) /\ Total(h.hour) \in Nat
    BY SumOverTotal DEF HistoryRows
<1>3. SumOver(h.day, Nat) = Total(h.day) /\ Total(h.day) \in Nat
    BY SumOverTotal DEF HistoryRows
<1> QED
    BY <1>1, <1>2, <1>3 DEF BytesOf, IPSum

\* The totals of typed histories are byte counts.
LEMMA AddressTotal ==
    ASSUME AddressRows, NEW a \in Addresses
    PROVE  IPTotal(a) \in Nat /\ HistoryRows(ip[a])
<1>1. HistoryRows(ip[a])
    BY DEF AddressRows, Histories
<1> QED
    BY <1>1, HistoryTotal DEF IPTotal

\* The histories of the next state, address by address.
LEMMA NewHistories ==
    ASSUME NEW hs, Histories(hs), ip' = hs
    PROVE  AddressRows' /\ \A a \in Addresses : IPTotal(a)' = BytesOf(hs[a])
    BY Zenon DEF AddressRows, IPTotal

\* The empty history has no bytes.
LEMMA NoHistoryRows == HistoryRows(NoHistory) /\ BytesOf(NoHistory) = 0
<1>1. Rows(Empty) /\ DOMAIN Empty = {}
    BY FS_EmptySet DEF Empty, Rows
<1>2. Total(Empty) = 0
    BY <1>1, SumEmpty DEF Total
<1> HIDE DEF Empty
<1>3. NoHistory.raw = Empty /\ NoHistory.hour = Empty /\ NoHistory.day = Empty
      /\ NoHistory = [raw |-> NoHistory.raw, hour |-> NoHistory.hour, day |-> NoHistory.day]
    BY DEF NoHistory
<1>4. HistoryRows(NoHistory) /\ IPSum(NoHistory) = 0
    BY <1>1, <1>2, <1>3 DEF HistoryRows, IPSum
<1> QED
    BY <1>4, HistoryTotal

\* Histories that are kept or emptied do not grow.
Cleared == [a \in Addresses |-> NoHistory]
LEMMA KeptHistories ==
    ASSUME AddressRows, NEW hs, hs \in {Cleared, ip}
    PROVE  /\ Histories(hs)
           /\ \A a \in Addresses : BytesOf(hs[a]) \in Nat /\ BytesOf(hs[a]) <= IPTotal(a)
<1>1. \A a \in Addresses : IPTotal(a) \in Nat
    BY AddressTotal
<1>2. CASE hs = ip
    BY <1>1, <1>2 DEF AddressRows, IPTotal
<1>3. CASE hs = Cleared
    <2>1. \A a \in Addresses : hs[a] = NoHistory
        BY <1>3 DEF Cleared
    <2>2. hs = [a \in Addresses |-> hs[a]]
        BY <1>3 DEF Cleared
    <2> QED
        BY <1>1, <2>1, <2>2, NoHistoryRows DEF Histories
<1> QED
    BY <1>2, <1>3

\* What a step that keeps or empties the histories leaves of the invariant.
LEMMA ClearedKeeps ==
    ASSUME AddressRows, AddressInv, MonInv, ip' \in {Cleared, ip}, sent' = sent, nft' = nft,
           (mon'.loaded /\ nft # NoTable) =>
               mon.loaded /\ (mon'.ipPrev = mon.ipPrev \/ mon'.ipPrev = nft)
    PROVE  AddressRows' /\ AddressInv'
<1>1. /\ Histories(ip')
      /\ \A a \in Addresses : BytesOf(ip'[a]) \in Nat /\ BytesOf(ip'[a]) <= IPTotal(a)
    <2> PICK hs : hs = ip'
        OBVIOUS
    <2> QED
        BY KeptHistories
<1>2. AddressRows' /\ \A a \in Addresses : IPTotal(a)' = BytesOf(ip'[a])
    BY <1>1, NewHistories
<1>3. ASSUME NEW a \in Addresses
      PROVE  /\ IPTotal(a)' <= sent[a]
             /\ (mon'.loaded /\ nft # NoTable) =>
                   mon'.ipPrev[a] <= nft[a] /\ IPTotal(a)' + (nft[a] - mon'.ipPrev[a]) <= sent[a]
    <2>1. /\ IPTotal(a) \in Nat /\ sent[a] \in Nat /\ IPTotal(a) <= sent[a]
          /\ IPTotal(a)' \in Nat /\ IPTotal(a)' <= IPTotal(a)
        BY <1>1, <1>2, AddressTotal DEF AddressInv
    <2>2. ASSUME mon'.loaded, nft # NoTable
          PROVE mon'.ipPrev[a] <= nft[a] /\ IPTotal(a)' + (nft[a] - mon'.ipPrev[a]) <= sent[a]
        <3>1. /\ nft[a] \in Nat /\ mon.ipPrev[a] \in Nat /\ mon.ipPrev[a] <= nft[a]
              /\ IPTotal(a) + (nft[a] - mon.ipPrev[a]) <= sent[a]
            BY <2>2 DEF AddressInv, MonInv, Installed
        <3>2. mon'.ipPrev[a] = mon.ipPrev[a] \/ mon'.ipPrev[a] = nft[a]
            BY <2>2
        <3> QED
            BY <2>1, <3>1, <3>2
    <2> QED
        BY <2>1, <2>2
<1> QED
    BY <1>2, <1>3 DEF AddressInv, Installed

\* Adding the bytes of a round to an address's history adds them to its total.
LEMMA AddedBytes ==
    ASSUME NEW h, HistoryRows(h), NEW n \in Nat, now \in Nat
    PROVE  /\ HistoryRows(AddBytes(h, n))
           /\ BytesOf(AddBytes(h, n)) = BytesOf(h) + n /\ BytesOf(h) \in Nat
<1> DEFINE before == IF now \in DOMAIN h.raw THEN h.raw[now] ELSE 0
           raw == Put(h.raw, now, n + before)
<1>0. BytesOf(h) \in Nat /\ BytesOf(h) = IPSum(h)
    BY HistoryTotal
<1>1. CASE n = 0
    BY <1>0, <1>1 DEF AddBytes
<1>2. CASE n # 0
    <2>1. Rows(h.raw) /\ Rows(h.hour) /\ Rows(h.day)
          /\ h = [raw |-> h.raw, hour |-> h.hour, day |-> h.day]
        BY DEF HistoryRows
    <2>2. before \in Nat
        BY <2>1 DEF Rows
    <2>3. Rows(raw) /\ Total(raw) = Total(h.raw) + ((n + before) - before)
        <3>1. n + before \in Nat
            BY <2>2
        <3> QED
            BY <2>1, <3>1, TotalPut
    <2>4. AddBytes(h, n) = [h EXCEPT !.raw = raw]
        BY <1>2 DEF AddBytes
    <2> HIDE DEF raw, before
    <2>5. AddBytes(h, n) = [raw |-> raw, hour |-> h.hour, day |-> h.day]
        BY <2>1, <2>4
    <2>6. HistoryRows(AddBytes(h, n))
        BY <2>1, <2>3, <2>5 DEF HistoryRows
    <2>7. Total(h.raw) \in Nat /\ Total(h.hour) \in Nat /\ Total(h.day) \in Nat
        BY <2>1, SumOverTotal
    <2>8. Total(raw) = Total(h.raw) + n
        BY <2>2, <2>3, <2>7
    <2>9. BytesOf(AddBytes(h, n)) = Total(raw) + Total(h.hour) + Total(h.day)
        BY <2>5, <2>6, HistoryTotal DEF IPSum
    <2>10. BytesOf(h) = Total(h.raw) + Total(h.hour) + Total(h.day)
        BY <1>0 DEF IPSum
    <2> QED
        BY <1>0, <2>6, <2>7, <2>8, <2>9, <2>10
<1> QED
    BY <1>1, <1>2

\* ipSampleOnce keeps the invariant.
LEMMA ipSampleOnceStep ==
    ASSUME IInv, ipSampleOnce
    PROVE  IInv'
<1>m. /\ MonRec(mon) /\ MonInv /\ OwnInv /\ SignedRows /\ SampleRows /\ HourRows /\ CountInv
      /\ AddressRows /\ AddressInv /\ now \in Nat
    BY DEF IInv, MonInv, MonRec
<1> DEFINE kept == ResetIPTrafficForCycle
           present == IF mon.loaded THEN nft ELSE NoCount
           previous == IF mon.loaded THEN mon.ipPrev ELSE NoCount
           grown(a) == counterDelta(previous[a], present[a])
<1>0. /\ mon.loaded => nft # NoTable
      /\ nft' = present /\ sent' = sent
      /\ ip' = [a \in Addresses |-> AddBytes(kept[a], grown(a))]
      /\ mon' = [mon EXCEPT !.pc = "idle", !.loaded = TRUE, !.ipPrev = present]
    BY DEF ipSampleOnce, Installed
<1>a. /\ present \in [Addresses -> Nat]
      /\ \A a \in Addresses : grown(a) \in Nat /\ IPTotal(a) + grown(a) <= sent[a]
    <2>1. \A a \in Addresses : IPTotal(a) \in Nat /\ sent[a] \in Nat
        BY <1>m, AddressTotal DEF AddressInv
    <2>2. CASE mon.loaded
        BY <1>m, <1>0, <2>1, <2>2 DEF counterDelta, AddressInv, MonInv, Installed
    <2>3. CASE ~mon.loaded
        BY <1>m, <2>1, <2>3, NoCountType DEF counterDelta, AddressInv
    <2> QED
        BY <2>2, <2>3
<1>b. /\ Histories(kept)
      /\ \A a \in Addresses : BytesOf(kept[a]) \in Nat /\ BytesOf(kept[a]) <= IPTotal(a)
    <2>1. kept \in {Cleared, ip}
        BY DEF ResetIPTrafficForCycle, Cleared
    <2> HIDE DEF kept
    <2> QED
        BY <1>m, <2>1, KeptHistories
<1> HIDE DEF kept, present, previous, grown
<1>1. MonIs(mon', "idle", mon.next, mon.prev, mon.havePrev, TRUE, present)
    BY <1>m, <1>0, AddressMon
<1>2. MonInv'
    <2>1. /\ mon.next \in {"idle", "address"} /\ mon.prev \in [Directions -> Nat]
          /\ mon.havePrev \in BOOLEAN /\ mon.loaded \in BOOLEAN
          /\ mon.ipPrev \in [Addresses -> Nat]
        BY <1>m, MonFields
    <2> QED
        BY <1>1, <2>1, <1>a, MonKeeps
<1>3. OwnInv'
    BY <1>m, <1>1 DEF ipSampleOnce, OwnInv, StopsAreOwned, MonIs, MonInv, store, control, service
<1>4. SignedRows'
    BY <1>m, SignedFrame DEF ipSampleOnce, store
<1>5. now' \in Nat /\ SampleRows' /\ HourRows' /\ CountInv'
    <2>1. QuietRows
        BY <1>m, <1>1 DEF ipSampleOnce, QuietRows, MonIs, kernel, store
    <2> QED
        BY <1>m, <2>1, RowsFrame
<1>6. AddressRows' /\ AddressInv'
    <2>1. ASSUME NEW a \in Addresses
          PROVE  /\ ip'[a] = AddBytes(kept[a], grown(a))
                 /\ HistoryRows(ip'[a])
                 /\ BytesOf(ip'[a]) = BytesOf(kept[a]) + grown(a)
        <3>1. ip'[a] = AddBytes(kept[a], grown(a)) /\ HistoryRows(kept[a]) /\ grown(a) \in Nat
            BY <1>0, <1>a, <1>b DEF Histories
        <3> QED
            BY <1>m, <3>1, AddedBytes
    <2>2. Histories(ip')
        BY <1>0, <2>1 DEF Histories
    <2>3. AddressRows' /\ \A a \in Addresses : IPTotal(a)' = BytesOf(ip'[a])
        BY <2>2, NewHistories
    <2>4. mon'.ipPrev = nft' /\ nft' \in [Addresses -> Nat]
        BY <1>0, <1>1, <1>a DEF MonIs
    <2>5. ASSUME NEW a \in Addresses
          PROVE  /\ IPTotal(a)' <= sent'[a]
                 /\ mon'.ipPrev[a] <= nft'[a]
                 /\ IPTotal(a)' + (nft'[a] - mon'.ipPrev[a]) <= sent'[a]
        <3>1. /\ IPTotal(a) \in Nat /\ sent[a] \in Nat /\ grown(a) \in Nat
              /\ IPTotal(a) + grown(a) <= sent[a]
            BY <1>m, <1>a, AddressTotal DEF AddressInv
        <3>2. IPTotal(a)' = BytesOf(kept[a]) + grown(a) /\ BytesOf(kept[a]) \in Nat
              /\ BytesOf(kept[a]) <= IPTotal(a)
            BY <1>b, <2>1, <2>3
        <3>3. mon'.ipPrev[a] = nft'[a] /\ nft'[a] \in Nat /\ sent'[a] = sent[a]
            BY <1>0, <2>4
        <3> QED
            BY <3>1, <3>2, <3>3
    <2> QED
        BY <1>m, <1>0, <2>3, <2>4, <2>5 DEF AddressInv
<1> QED
    BY <1>2, <1>3, <1>4, <1>5, <1>6 DEF IInv

\* CollectFails keeps the invariant.
LEMMA CollectFailsStep ==
    ASSUME IInv, CollectFails
    PROVE  IInv'
<1>m. /\ MonRec(mon) /\ MonInv /\ OwnInv /\ SignedRows /\ SampleRows /\ HourRows /\ CountInv
      /\ AddressRows /\ AddressInv /\ now \in Nat
    BY DEF IInv, MonInv, MonRec
<1>1. MonIs(mon', "idle", mon.next, mon.prev, mon.havePrev, FALSE, NoCount)
    BY <1>m, AddressMon DEF CollectFails
<1>2. MonInv'
    <2>1. NoCount \in [Addresses -> Nat]
        BY NoCountType
    <2>2. /\ mon.next \in {"idle", "address"} /\ mon.prev \in [Directions -> Nat]
          /\ mon.havePrev \in BOOLEAN /\ mon.loaded \in BOOLEAN
          /\ mon.ipPrev \in [Addresses -> Nat]
        BY <1>m, MonFields
    <2> QED
        BY <1>1, <2>1, <2>2, MonKeeps
<1>3. OwnInv'
    BY <1>m, <1>1 DEF CollectFails, OwnInv, StopsAreOwned, MonIs, MonInv, kernel, store, control, service, address
<1>4. SignedRows'
    BY <1>m, SignedFrame DEF CollectFails, kernel, store, control, service, address
<1>5. now' \in Nat /\ SampleRows' /\ HourRows' /\ CountInv'
    <2>1. QuietRows
        BY <1>m, <1>1 DEF CollectFails, QuietRows, MonIs, kernel, store
    <2> QED
        BY <1>m, <2>1, RowsFrame
<1>6. AddressRows' /\ AddressInv'
    <2>1. ip' \in {Cleared, ip} /\ sent' = sent /\ nft' = nft
        BY DEF CollectFails, ResetIPTrafficForCycle, kernel, Cleared
    <2>2. (mon'.loaded /\ nft # NoTable) =>
              mon.loaded /\ (mon'.ipPrev = mon.ipPrev \/ mon'.ipPrev = nft)
        BY <1>m, <1>1 DEF CollectFails, MonIs
    <2> QED
        BY <1>m, <2>1, <2>2, ClearedKeeps
<1> QED
    BY <1>2, <1>3, <1>4, <1>5, <1>6 DEF IInv

\* AddIPTrafficFails keeps the invariant.
LEMMA AddIPTrafficFailsStep ==
    ASSUME IInv, AddIPTrafficFails
    PROVE  IInv'
<1>m. /\ MonRec(mon) /\ MonInv /\ OwnInv /\ SignedRows /\ SampleRows /\ HourRows /\ CountInv
      /\ AddressRows /\ AddressInv /\ now \in Nat
    BY DEF IInv, MonInv, MonRec
<1>1. MonIs(mon', "idle", mon.next, mon.prev, mon.havePrev, mon.loaded, nft)
    BY <1>m, ReadMon DEF AddIPTrafficFails
<1>2. MonInv'
    <2>1. nft \in [Addresses -> Nat]
        BY <1>m DEF AddIPTrafficFails, AddressInv, Installed
    <2> QED
        BY <1>m, <1>1, <2>1, MonKeeps DEF MonInv
<1>3. OwnInv'
    BY <1>m, <1>1 DEF AddIPTrafficFails, OwnInv, StopsAreOwned, MonIs, MonInv, kernel, store, control, service, address
<1>4. SignedRows'
    BY <1>m, SignedFrame DEF AddIPTrafficFails, kernel, store, control, service, address
<1>5. now' \in Nat /\ SampleRows' /\ HourRows' /\ CountInv'
    <2>1. QuietRows
        BY <1>m, <1>1 DEF AddIPTrafficFails, QuietRows, MonIs, kernel, store
    <2> QED
        BY <1>m, <2>1, RowsFrame
<1>6. AddressRows' /\ AddressInv'
    <2>1. ip' \in {Cleared, ip} /\ sent' = sent /\ nft' = nft
        BY DEF AddIPTrafficFails, ResetIPTrafficForCycle, kernel, Cleared
    <2>2. (mon'.loaded /\ nft # NoTable) =>
              mon.loaded /\ (mon'.ipPrev = mon.ipPrev \/ mon'.ipPrev = nft)
        BY <1>m, <1>1 DEF AddIPTrafficFails, MonIs
    <2> QED
        BY <1>m, <2>1, <2>2, ClearedKeeps
<1> QED
    BY <1>2, <1>3, <1>4, <1>5, <1>6 DEF IInv

\* ResetHistory keeps the invariant.
LEMMA ResetHistoryStep ==
    ASSUME IInv, ResetHistory
    PROVE  IInv'
<1>m. /\ MonRec(mon) /\ MonInv /\ OwnInv /\ SignedRows /\ SampleRows /\ HourRows /\ CountInv
      /\ AddressRows /\ AddressInv /\ now \in Nat
    BY DEF IInv, MonInv, MonRec
<1>1. MonIs(mon', mon.pc, mon.next, mon.prev, mon.havePrev, mon.loaded, mon.ipPrev)
    BY <1>m, SameMon DEF ResetHistory
<1>2. MonInv'
    BY <1>m, Zenon DEF ResetHistory, MonInv
<1>3. OwnInv'
    BY <1>m, <1>1 DEF ResetHistory, OwnInv, StopsAreOwned, MonIs, MonInv, kernel, store, control, service, address
<1>4. SignedRows'
    BY <1>m, SignedFrame DEF ResetHistory, kernel, store, control, service, address
<1>5. now' \in Nat /\ SampleRows' /\ HourRows' /\ CountInv'
    <2>1. QuietRows
        BY <1>m, <1>1 DEF ResetHistory, QuietRows, MonIs, kernel, store
    <2> QED
        BY <1>m, <2>1, RowsFrame
<1>6. AddressRows' /\ AddressInv'
    <2>1. ip' \in {Cleared, ip} /\ sent' = sent /\ nft' = nft
        BY DEF ResetHistory, kernel, Cleared
    <2>2. (mon'.loaded /\ nft # NoTable) =>
              mon.loaded /\ (mon'.ipPrev = mon.ipPrev \/ mon'.ipPrev = nft)
        BY <1>m, <1>1 DEF ResetHistory, MonIs
    <2> QED
        BY <1>m, <2>1, <2>2, ClearedKeeps
<1> QED
    BY <1>2, <1>3, <1>4, <1>5, <1>6 DEF IInv

(* A monitor that starts restores the last counters that were recorded.    *)
LEMMA LatestIsLast ==
    ASSUME SampleRows
    PROVE  /\ LatestCounters.ok \in BOOLEAN /\ LatestCounters.c \in [Directions -> Nat]
           /\ LatestCounters.ok => \E t \in DOMAIN samples : IsLast(t) /\ LatestCounters.c = samples[t].c
<1>1. CASE DOMAIN samples = {}
    <2>1. LatestCounters = [ok |-> FALSE, c |-> NoBytes]
        BY <1>1 DEF LatestCounters
    <2> QED
        BY <2>1, NoBytesType
<1>2. CASE DOMAIN samples # {}
    <2> DEFINE last == CHOOSE t \in DOMAIN samples : \A u \in DOMAIN samples : u <= t
    <2>1. \E t \in DOMAIN samples : \A u \in DOMAIN samples : u <= t
        <3>1. DOMAIN samples \subseteq Int /\ IsFiniteSet(DOMAIN samples)
            BY DEF SampleRows
        <3> QED
            BY <1>2, <3>1, MaxExists
    <2>2. last \in DOMAIN samples /\ \A u \in DOMAIN samples : u <= last
        BY <2>1
    <2>3. LatestCounters = [ok |-> TRUE, c |-> samples[last].c]
        BY <1>2 DEF LatestCounters
    <2> HIDE DEF last
    <2> QED
        BY <2>2, <2>3 DEF IsLast, SampleRows
<1> QED
    BY <1>1, <1>2

\* A new monitor that restores the last counters counts no byte again.
LEMMA RestoredCounts ==
    ASSUME now \in Nat, SampleRows, HourRows, CountInv, now' = now, samples' = samples,
           hourly' = hourly, counters' = counters, carried' = carried,
           NEW r, mon' = New(r)
    PROVE  SampleRows' /\ HourRows' /\ CountInv'
<1>1. MonIs(mon', "idle", "idle", LatestCounters.c, LatestCounters.ok, FALSE, NoCount)
    BY NewMon
<1>2. /\ SampleRows' /\ HourRows'
      /\ \A d : Counted(d)' = Counted(d)
      /\ \A t : IsLast(t)' <=> IsLast(t)
    BY RowsSame
<1>3. ASSUME mon'.havePrev, NEW d \in Directions
      PROVE Counted(d) + Delta(mon'.prev[d], counters[d]) <= carried[d]
    <2>1. PICK t \in DOMAIN samples : IsLast(t) /\ LatestCounters.c = samples[t].c
        BY <1>1, <1>3, LatestIsLast DEF MonIs
    <2> QED
        BY <1>1, <2>1 DEF CountInv, MonIs
<1>4. CountInv'
    BY <1>2, <1>3 DEF CountInv
<1> QED
    BY <1>2, <1>4

\* StartMonitor keeps the invariant.
LEMMA StartMonitorStep ==
    ASSUME IInv, StartMonitor
    PROVE  IInv'
<1>m. /\ MonRec(mon) /\ MonInv /\ OwnInv /\ SignedRows /\ SampleRows /\ HourRows /\ CountInv
      /\ AddressRows /\ AddressInv /\ now \in Nat
    BY DEF IInv, MonInv, MonRec
<1>1. MonIs(mon', "idle", "idle", LatestCounters.c, LatestCounters.ok, FALSE, NoCount)
    BY NewMon DEF StartMonitor
<1>2. MonInv'
    BY <1>m, <1>1, MonKeeps, LatestIsLast, NoCountType
<1>3. OwnInv'
    BY <1>m, <1>1 DEF StartMonitor, OwnInv, StopsAreOwned, MonIs, MonInv, kernel, store, control, service, address
<1>4. SignedRows'
    BY <1>m, SignedFrame DEF StartMonitor, kernel, store, control, service, address
<1>5. now' \in Nat /\ SampleRows' /\ HourRows' /\ CountInv'
    BY <1>m, RestoredCounts DEF StartMonitor, kernel, store
<1>6. AddressRows' /\ AddressInv'
    <2>1. QuietAddress
        BY <1>m, <1>1 DEF StartMonitor, QuietAddress, MonIs, kernel, address, AddressInv
    <2> QED
        BY <1>m, <2>1, AddressFrame
<1> QED
    BY <1>2, <1>3, <1>4, <1>5, <1>6 DEF IInv

\* SystemdStarts keeps the invariant.
LEMMA SystemdStartsStep ==
    ASSUME IInv, SystemdStarts
    PROVE  IInv'
<1>m. /\ MonRec(mon) /\ MonInv /\ OwnInv /\ SignedRows /\ SampleRows /\ HourRows /\ CountInv
      /\ AddressRows /\ AddressInv /\ now \in Nat
    BY DEF IInv, MonInv, MonRec
<1>1. MonIs(mon', "idle", "idle", LatestCounters.c, LatestCounters.ok, FALSE, NoCount)
    BY NewMon DEF SystemdStarts
<1>2. MonInv'
    BY <1>m, <1>1, MonKeeps, LatestIsLast, NoCountType
<1>3. OwnInv'
    BY <1>m, <1>1 DEF SystemdStarts, OwnInv, StopsAreOwned, MonIs, MonInv, kernel, store, control, service, address
<1>4. SignedRows'
    BY <1>m, SignedFrame DEF SystemdStarts, kernel, store, control, service, address
<1>5. now' \in Nat /\ SampleRows' /\ HourRows' /\ CountInv'
    BY <1>m, RestoredCounts DEF SystemdStarts, kernel, store
<1>6. AddressRows' /\ AddressInv'
    <2>1. QuietAddress
        BY <1>m, <1>1 DEF SystemdStarts, QuietAddress, MonIs, kernel, address, AddressInv
    <2> QED
        BY <1>m, <2>1, AddressFrame
<1> QED
    BY <1>2, <1>3, <1>4, <1>5, <1>6 DEF IInv

\* StartsBlind keeps the invariant.
LEMMA StartsBlindStep ==
    ASSUME IInv, StartsBlind
    PROVE  IInv'
<1>m. /\ MonRec(mon) /\ MonInv /\ OwnInv /\ SignedRows /\ SampleRows /\ HourRows /\ CountInv
      /\ AddressRows /\ AddressInv /\ now \in Nat
    BY DEF IInv, MonInv, MonRec
<1>1. MonIs(mon', "idle", "idle", LatestCounters.c, LatestCounters.ok, FALSE, NoCount)
    BY NewMon DEF StartsBlind
<1>2. MonInv'
    BY <1>m, <1>1, MonKeeps, LatestIsLast, NoCountType
<1>3. OwnInv'
    BY <1>m, <1>1 DEF StartsBlind, OwnInv, StopsAreOwned, MonIs, MonInv, kernel, store, control, service, address
<1>4. SignedRows'
    BY <1>m, SignedFrame DEF StartsBlind, kernel, store, control, service, address
<1>5. now' \in Nat /\ SampleRows' /\ HourRows' /\ CountInv'
    BY <1>m, RestoredCounts DEF StartsBlind, kernel, store
<1>6. AddressRows' /\ AddressInv'
    <2>1. QuietAddress
        BY <1>m, <1>1 DEF StartsBlind, QuietAddress, MonIs, kernel, address, AddressInv
    <2> QED
        BY <1>m, <2>1, AddressFrame
<1> QED
    BY <1>2, <1>3, <1>4, <1>5, <1>6 DEF IInv

\* InsertSampleFails keeps the invariant.
LEMMA InsertSampleFailsStep ==
    ASSUME IInv, InsertSampleFails
    PROVE  IInv'
<1>m. /\ MonRec(mon) /\ MonInv /\ OwnInv /\ SignedRows /\ SampleRows /\ HourRows /\ CountInv
      /\ AddressRows /\ AddressInv /\ now \in Nat
    BY DEF IInv, MonInv, MonRec
<1>1. MonIs(mon', "address", mon.next, counters, TRUE, mon.loaded, mon.ipPrev)
    BY <1>m, UnsampledMon DEF InsertSampleFails
<1>2. MonInv'
    <2>1. counters \in [Directions -> Nat]
        BY <1>m DEF CountInv
    <2> QED
        BY <1>m, <1>1, <2>1, MonFields, MonKeeps, NoBytesType, NoCountType
<1>3. OwnInv'
    BY <1>m, <1>1 DEF InsertSampleFails, OwnInv, StopsAreOwned, MonIs, MonInv, kernel, store, control, service, address
<1>4. SignedRows'
    BY <1>m, SignedFrame DEF InsertSampleFails, kernel, store, control, service, address
<1>5. now' \in Nat /\ SampleRows' /\ HourRows' /\ CountInv'
    <2>1. now' = now /\ samples' = samples /\ hourly' = hourly
        BY DEF InsertSampleFails, store
    <2>2. /\ SampleRows' /\ HourRows'
          /\ \A e : Counted(e)' = Counted(e)
          /\ \A t : IsLast(t)' <=> IsLast(t)
        BY <1>m, <2>1, RowsSame
    <2>3. \A e \in Directions : Counted(e) \in Nat /\ carried[e] \in Nat /\ counters[e] \in Nat
        BY <1>m, CountedNat DEF CountInv
    <2>4. \A t \in DOMAIN samples : \A e \in Directions : samples[t].c[e] \in Nat
        BY <1>m DEF SampleRows
    <2>5. counters' = counters /\ carried' = carried /\ mon'.prev = counters
        BY <1>1 DEF InsertSampleFails, kernel, MonIs
    <2>6. \A e \in Directions : Counted(e) + Delta(counters[e], counters[e]) <= carried[e]
        BY <1>m, <2>3 DEF Delta, CountInv
    <2>9. CountInv'
        BY <1>m, <2>1, <2>2, <2>5, <2>6 DEF CountInv
    <2> QED
        BY <1>m, <2>1, <2>2, <2>9
<1>6. AddressRows' /\ AddressInv'
    <2>1. QuietAddress
        BY <1>m, <1>1 DEF InsertSampleFails, QuietAddress, MonIs, kernel, address, AddressInv
    <2> QED
        BY <1>m, <2>1, AddressFrame
<1> QED
    BY <1>2, <1>3, <1>4, <1>5, <1>6 DEF IInv

\* Reboot keeps the invariant.
LEMMA RebootStep ==
    ASSUME IInv, Reboot
    PROVE  IInv'
<1>m. /\ MonRec(mon) /\ MonInv /\ OwnInv /\ SignedRows /\ SampleRows /\ HourRows /\ CountInv
      /\ AddressRows /\ AddressInv /\ now \in Nat
    BY DEF IInv, MonInv, MonRec
<1>1. MonIs(mon', "off", "idle", NoBytes, FALSE, FALSE, NoCount)
    BY <1>m, OffMon DEF Reboot
<1>2. MonInv'
    <2>1. counters \in [Directions -> Nat]
        BY <1>m DEF CountInv
    <2> QED
        BY <1>m, <1>1, <2>1, MonFields, MonKeeps, NoBytesType, NoCountType
<1>3. OwnInv'
    BY <1>m, <1>1 DEF Reboot, OwnInv, StopsAreOwned, MonIs, MonInv, kernel, store, control, service, address
<1>4. SignedRows'
    BY <1>m, SignedFrame DEF Reboot, kernel, store, control, service, address
<1>5. now' \in Nat /\ SampleRows' /\ HourRows' /\ CountInv'
    <2>1. now' = now /\ samples' = samples /\ hourly' = hourly
        BY DEF Reboot, store
    <2>2. /\ SampleRows' /\ HourRows'
          /\ \A e : Counted(e)' = Counted(e)
          /\ \A t : IsLast(t)' <=> IsLast(t)
        BY <1>m, <2>1, RowsSame
    <2>3. \A e \in Directions : Counted(e) \in Nat /\ carried[e] \in Nat /\ counters[e] \in Nat
        BY <1>m, CountedNat DEF CountInv
    <2>4. \A t \in DOMAIN samples : \A e \in Directions : samples[t].c[e] \in Nat
        BY <1>m DEF SampleRows
    <2>5. counters' = NoBytes /\ carried' = carried /\ ~mon'.havePrev
        BY <1>1 DEF Reboot, MonIs
    <2>6. \A x \in Nat : Delta(x, 0) = 0
        BY DEF Delta
    <2>7. \A t \in DOMAIN samples : \A e \in Directions :
              Counted(e) + Delta(samples[t].c[e], NoBytes[e]) = Counted(e)
        BY <2>3, <2>4, <2>6 DEF NoBytes
    <2>9. CountInv'
        BY <1>m, <2>1, <2>2, <2>5, <2>7, NoBytesType DEF CountInv
    <2> QED
        BY <1>m, <2>1, <2>2, <2>9
<1>6. AddressRows' /\ AddressInv'
    <2>1. QuietAddress
        BY <1>m, <1>1 DEF Reboot, QuietAddress, MonIs, kernel, address, AddressInv
    <2> QED
        BY <1>m, <2>1, AddressFrame
<1> QED
    BY <1>2, <1>3, <1>4, <1>5, <1>6 DEF IInv

\* Carry keeps the invariant.
LEMMA CarryStep ==
    ASSUME IInv, NEW d \in Directions, NEW c \in Addresses, Carry(d, c)
    PROVE  IInv'
<1>m. /\ MonRec(mon) /\ MonInv /\ OwnInv /\ SignedRows /\ SampleRows /\ HourRows /\ CountInv
      /\ AddressRows /\ AddressInv /\ now \in Nat
    BY DEF IInv, MonInv, MonRec
<1>1. MonIs(mon', mon.pc, mon.next, mon.prev, mon.havePrev, mon.loaded, mon.ipPrev)
    BY <1>m, SameMon DEF Carry
<1>2. MonInv'
    BY <1>m, Zenon DEF Carry, MonInv
<1>3. OwnInv'
    BY <1>m, <1>1 DEF Carry, OwnInv, StopsAreOwned, MonIs, MonInv, kernel, store, control, service, address
<1>4. SignedRows'
    BY <1>m, SignedFrame DEF Carry, kernel, store, control, service, address
<1>5. now' \in Nat /\ SampleRows' /\ HourRows' /\ CountInv'
    <2>1. now' = now /\ samples' = samples /\ hourly' = hourly
        BY DEF Carry, store
    <2>2. /\ SampleRows' /\ HourRows'
          /\ \A e : Counted(e)' = Counted(e)
          /\ \A t : IsLast(t)' <=> IsLast(t)
        BY <1>m, <2>1, RowsSame
    <2>3. \A e \in Directions : Counted(e) \in Nat /\ carried[e] \in Nat /\ counters[e] \in Nat
        BY <1>m, CountedNat DEF CountInv
    <2>4. \A t \in DOMAIN samples : \A e \in Directions : samples[t].c[e] \in Nat
        BY <1>m DEF SampleRows
    <2>5. /\ counters' = [counters EXCEPT ![d] = @ + 1]
          /\ carried' = [carried EXCEPT ![d] = @ + 1] /\ mon' = mon
        BY DEF Carry
    <2>6. \A e \in Directions :
              /\ counters'[e] = IF e = d THEN counters[e] + 1 ELSE counters[e]
              /\ carried'[e] = IF e = d THEN carried[e] + 1 ELSE carried[e]
        BY <1>m, <2>5 DEF CountInv
    <2>7. ASSUME NEW e \in Directions, NEW x \in Nat, Counted(e) + Delta(x, counters[e]) <= carried[e]
          PROVE Counted(e) + Delta(x, counters'[e]) <= carried'[e]
        <3>1. Counted(e) \in Nat /\ carried[e] \in Nat /\ counters[e] \in Nat
            BY <2>3
        <3>2. CASE e = d
            BY <2>6, <2>7, <3>1, <3>2 DEF Delta
        <3>3. CASE e # d
            BY <2>6, <2>7, <3>1, <3>3
        <3> QED
            BY <3>2, <3>3
    <2>8. counters' \in [Directions -> Nat] /\ carried' \in [Directions -> Nat]
        BY <1>m, <2>5 DEF CountInv
    <2>9. CountInv'
        <3>1. ASSUME NEW e \in Directions PROVE Counted(e)' <= carried'[e]
            BY <1>m, <2>2, <2>3, <2>6 DEF CountInv
        <3>2. ASSUME NEW e \in Directions, mon'.havePrev
              PROVE Counted(e)' + Delta(mon'.prev[e], counters'[e]) <= carried'[e]
            BY <1>m, <2>2, <2>5, <2>7, <3>2 DEF CountInv, MonInv
        <3>3. ASSUME NEW e \in Directions, NEW t \in DOMAIN samples', IsLast(t)'
              PROVE Counted(e)' + Delta(samples'[t].c[e], counters'[e]) <= carried'[e]
            BY <1>m, <2>1, <2>2, <2>4, <2>7, <3>3 DEF CountInv
        <3> QED
            BY <2>8, <3>1, <3>2, <3>3 DEF CountInv
    <2> QED
        BY <1>m, <2>1, <2>2, <2>9
<1>6. AddressRows' /\ AddressInv'
    <2>1. /\ ip' = ip /\ mon' = mon /\ sent' = [sent EXCEPT ![c] = @ + 1]
          /\ nft' = IF nft # NoTable THEN [nft EXCEPT ![c] = @ + 1] ELSE nft
        BY DEF Carry, address, Installed
    <2>2. AddressRows'
        BY <1>m, <2>1, Zenon DEF AddressRows
    <2>3. \A a : IPTotal(a)' = IPTotal(a)
        BY <2>1, Zenon DEF IPTotal
    <2>4. \A a \in Addresses : IPTotal(a) \in Nat /\ sent[a] \in Nat /\ mon.ipPrev[a] \in Nat
        BY <1>m, AddressTotal DEF AddressInv, MonInv
    <2>5. sent' \in [Addresses -> Nat] /\ \A a \in Addresses : sent'[a] = IF a = c THEN sent[a] + 1 ELSE sent[a]
        BY <1>m, <2>1 DEF AddressInv
    <2>6. CASE nft = NoTable
        BY <1>m, <2>1, <2>2, <2>3, <2>4, <2>5, <2>6 DEF AddressInv, Installed
    <2>7. CASE nft # NoTable
        <3>1. /\ nft \in [Addresses -> Nat] /\ nft' \in [Addresses -> Nat]
              /\ \A a \in Addresses : nft'[a] = IF a = c THEN nft[a] + 1 ELSE nft[a]
            BY <1>m, <2>1, <2>7 DEF AddressInv
        <3>2. ASSUME NEW a \in Addresses
              PROVE  /\ IPTotal(a)' <= sent'[a]
                     /\ mon'.loaded => /\ mon'.ipPrev[a] <= nft'[a]
                                       /\ IPTotal(a)' + (nft'[a] - mon'.ipPrev[a]) <= sent'[a]
            BY <1>m, <2>1, <2>3, <2>4, <2>5, <2>7, <3>1 DEF AddressInv, Installed
        <3> QED
            BY <2>2, <2>5, <3>1, <3>2 DEF AddressInv
    <2> QED
        BY <2>6, <2>7
<1> QED
    BY <1>2, <1>3, <1>4, <1>5, <1>6 DEF IInv

(* Folding the rows and deleting the old ones counts nothing twice.        *)
LEMMA FoldedRows ==
    ASSUME now \in Nat, SampleRows, HourRows, AggregateHourly, NEW d \in Directions
    PROVE  /\ Counted(d)' \in Nat /\ Counted(d)' <= Counted(d)
           /\ Rows([t \in DOMAIN samples' |-> samples'[t].d[d]]) /\ Rows(Column(hourly', d))
<1> DEFINE f(e) == [t \in DOMAIN samples |-> samples[t].d[e]]
           P(e) == Folded(f(e), Column(hourly, e), now - RawRetention, HourOf)
           old == {t \in DOMAIN samples : t < now - RawRetention}
           kept == {t \in DOMAIN samples : t >= now - RawRetention}
           H == {b \in DOMAIN P("in").into : b >= now - HistoryRetention}
           raw == [t \in DOMAIN samples' |-> samples'[t].d[d]]
           col == Column(hourly', d)
<1>1. /\ samples' = [t \in kept |-> samples[t]]
      /\ hourly' = [h \in H |-> [e \in Directions |-> P(e).into[h]]]
    BY DEF AggregateHourly
<1>2. /\ Rows(f(d)) /\ Rows(Column(hourly, d))
      /\ Counted(d) = Total(f(d)) + Total(Column(hourly, d)) /\ Counted(d) \in Nat
    BY CountedSums
<1>3. \A e : DOMAIN P(e).into = DOMAIN hourly \cup {HourOf(t) : t \in old}
    BY DEF Folded, Column
<1>4. P(d).raw = [t \in DOMAIN samples \ old |-> samples[t].d[d]]
    BY DEF Folded
<1>5. /\ Rows(P(d).raw) /\ Rows(P(d).into)
      /\ Total(P(d).raw) + Total(P(d).into) = Total(f(d)) + Total(Column(hourly, d))
    <2>1. P(d) = HourFold(f(d), Column(hourly, d), now - RawRetention)
        BY DEF HourFold
    <2> HIDE DEF f, P
    <2> QED
        BY <1>2, <2>1, FoldedHours
<1>6. DOMAIN samples \ old = kept
    <2>1. \A t \in DOMAIN samples : t \in Int
        BY DEF SampleRows
    <2>2. now - RawRetention \in Int
        BY ClockAssumption
    <2> QED
        BY <2>1, <2>2
<1>7. raw = P(d).raw
    BY <1>1, <1>4, <1>6
<1>8. H \subseteq DOMAIN P(d).into /\ DOMAIN col = H /\ \A h \in H : col[h] = P(d).into[h]
    <2>1. H \subseteq DOMAIN P(d).into
        BY <1>3
    <2> HIDE DEF H, P
    <2> QED
        BY <1>1, <2>1 DEF Column
<1>c. col = [h \in DOMAIN col |-> col[h]]
    BY DEF Column
<1> DEFINE I == P(d).into
<1> HIDE DEF f, P, old, kept, H, raw, col, I
<1>9. /\ IsFiniteSet(DOMAIN I) /\ DOMAIN I \subseteq Nat
      /\ \A h \in DOMAIN I : I[h] \in Nat
      /\ H \in SUBSET DOMAIN I
    BY <1>5, <1>8 DEF Rows, I
<1>10. /\ Sum(I, DOMAIN I) = Sum(I, H) + Sum(I, DOMAIN I \ H)
       /\ Sum(I, H) \in Nat /\ Sum(I, DOMAIN I \ H) \in Nat
    <2> DEFINE D == DOMAIN I
    <2>1. IsFiniteSet(D) /\ H \in SUBSET D /\ \A h \in D : I[h] \in Nat
        BY <1>9
    <2> HIDE DEF D
    <2>2. Sum(I, D) = Sum(I, H) + Sum(I, D \ H) /\ Sum(I, H) \in Nat /\ Sum(I, D \ H) \in Nat
        BY <2>1, SumPart
    <2> QED
        BY <2>2 DEF D
<1>11. IsFiniteSet(H) /\ Total(col) = Sum(I, H)
    <2>1. IsFiniteSet(H)
        BY <1>9, FS_Subset
    <2>2. \A h \in H : col[h] = I[h]
        BY <1>8 DEF I
    <2>3. Sum(col, H) = Sum(I, H)
        BY <2>1, <2>2, SumCongruent
    <2> QED
        BY <1>8, <2>1, <2>3 DEF Total
<1>12. Rows(col)
    BY <1>8, <1>9, <1>11, <1>c DEF Rows, I
<1>13. Rows(raw)
    BY <1>5, <1>7
<1>14. Counted(d)' = Total(raw) + Total(col) /\ Total(raw) \in Nat /\ Total(col) \in Nat
    <2>1. SumOver(raw, Nat) = Total(raw) /\ Total(raw) \in Nat
        BY <1>13, SumOverTotal
    <2>2. SumOver(col, Nat) = Total(col) /\ Total(col) \in Nat
        BY <1>12, SumOverTotal
    <2>3. Counted(d)' = SumOver(raw, Nat) + SumOver(col, Nat)
        BY DEF Counted, Column, raw, col
    <2> QED
        BY <2>1, <2>2, <2>3
<1>15. Total(I) = Sum(I, DOMAIN I)
    BY DEF Total
<1>16. Total(raw) + Total(I) = Counted(d)
    BY <1>2, <1>5, <1>7 DEF I
<1> QED
    BY <1>2, <1>10, <1>11, <1>12, <1>13, <1>14, <1>15, <1>16 DEF raw, col

\* Folding the address rows keeps their total.
LEMMA FoldedHistory ==
    ASSUME NEW h, HistoryRows(h)
    PROVE  /\ HistoryRows(FoldedIP(h))
           /\ BytesOf(FoldedIP(h)) = BytesOf(h) /\ BytesOf(h) \in Nat
<1> DEFINE hours == Folded(h.raw, h.hour, now - RawRetention, HourOf)
           days == Folded(hours.into, h.day, DayOf(now) - DayRetention, DayOf)
<1>1. FoldedIP(h) = [raw |-> hours.raw, hour |-> days.raw, day |-> days.into]
    BY DEF FoldedIP
<1>2. Rows(h.raw) /\ Rows(h.hour) /\ Rows(h.day)
    BY DEF HistoryRows
<1>3. /\ Rows(hours.raw) /\ Rows(hours.into)
      /\ Total(hours.raw) + Total(hours.into) = Total(h.raw) + Total(h.hour)
    <2> DEFINE b == now - RawRetention
               i == h.raw
               y == h.hour
    <2>1. hours = HourFold(i, y, b) /\ Rows(i) /\ Rows(y)
        BY <1>2 DEF HourFold
    <2> HIDE DEF hours, b, i, y
    <2>2. /\ Rows(hours.raw) /\ Rows(hours.into)
          /\ Total(hours.raw) + Total(hours.into) = Total(i) + Total(y)
        BY <2>1, FoldedHours
    <2> QED
        BY <2>2 DEF i, y
<1> HIDE DEF hours
<1>4. /\ Rows(days.raw) /\ Rows(days.into)
      /\ Total(days.raw) + Total(days.into) = Total(hours.into) + Total(h.day)
    <2> DEFINE b == DayOf(now) - DayRetention
               i == hours.into
               y == h.day
    <2>1. days = DayFold(i, y, b) /\ Rows(i) /\ Rows(y)
        BY <1>2, <1>3 DEF DayFold
    <2> HIDE DEF days, b, i, y
    <2>2. /\ Rows(days.raw) /\ Rows(days.into)
          /\ Total(days.raw) + Total(days.into) = Total(i) + Total(y)
        BY <2>1, FoldedDays
    <2> QED
        BY <2>2 DEF i, y
<1> HIDE DEF days
<1>5. FoldedIP(h).raw = hours.raw /\ FoldedIP(h).hour = days.raw /\ FoldedIP(h).day = days.into
    BY <1>1
<1>6. HistoryRows(FoldedIP(h))
    BY <1>1, <1>3, <1>4, <1>5 DEF HistoryRows
<1>7. BytesOf(FoldedIP(h)) = IPSum(FoldedIP(h))
    BY <1>6, HistoryTotal
<1>8. BytesOf(h) = IPSum(h)
    BY HistoryTotal
<1>9. /\ Total(hours.raw) \in Nat /\ Total(hours.into) \in Nat
      /\ Total(days.raw) \in Nat /\ Total(days.into) \in Nat
      /\ Total(h.raw) \in Nat /\ Total(h.hour) \in Nat /\ Total(h.day) \in Nat
    BY <1>2, <1>3, <1>4, SumOverTotal
<1>10. IPSum(FoldedIP(h)) = Total(hours.raw) + Total(days.raw) + Total(days.into)
    BY <1>5 DEF IPSum
<1>11. IPSum(h) = Total(h.raw) + Total(h.hour) + Total(h.day)
    BY DEF IPSum
<1> QED
    BY <1>3, <1>4, <1>6, <1>7, <1>8, <1>9, <1>10, <1>11

\* Maintenance keeps the bytes of the addresses that survive the prune, and a
\* pruned address had no more than any survivor.
Pruned(K) ==
    /\ K \in SUBSET Addresses
    /\ K # Addresses => Cardinality(K) = KeptAddresses
    /\ \A a \in K : IPTotal(a)' = IPTotal(a)
    /\ \A a \in Addresses \ K : IPTotal(a)' = 0 /\ \A b \in K : IPTotal(b) >= IPTotal(a)
LEMMA PrunedHistory ==
    ASSUME AddressRows, PruneIPTraffic(AggregateIP)
    PROVE  AddressRows' /\ \E K : Pruned(K)
<1>1. PICK K \in SUBSET Addresses :
          /\ K # Addresses => Cardinality(K) = KeptAddresses
          /\ \A a \in K, b \in Addresses \ K : BytesOf(AggregateIP[a]) >= BytesOf(AggregateIP[b])
          /\ ip' = [a \in Addresses |-> IF a \in K THEN AggregateIP[a] ELSE NoHistory]
    BY DEF PruneIPTraffic, Survivors, Busiest
<1>2. ASSUME NEW a \in Addresses
      PROVE  /\ HistoryRows(AggregateIP[a])
             /\ BytesOf(AggregateIP[a]) = IPTotal(a) /\ IPTotal(a) \in Nat
    <2>1. AggregateIP[a] = FoldedIP(ip[a]) /\ HistoryRows(ip[a])
        BY DEF AggregateIP, AddressRows, Histories
    <2> QED
        BY <2>1, FoldedHistory DEF IPTotal
<1>3. \A a \in Addresses : ip'[a] = IF a \in K THEN AggregateIP[a] ELSE NoHistory
    BY <1>1
<1>4. Histories(ip')
    BY <1>1, <1>2, <1>3, NoHistoryRows DEF Histories
<1>5. AddressRows' /\ \A a \in Addresses : IPTotal(a)' = BytesOf(ip'[a])
    BY <1>4, NewHistories
<1>6. \A a \in K : IPTotal(a)' = IPTotal(a)
    BY <1>2, <1>3, <1>5
<1>7. \A a \in Addresses \ K : IPTotal(a)' = 0 /\ \A b \in K : IPTotal(b) >= IPTotal(a)
    BY <1>1, <1>2, <1>3, <1>5, NoHistoryRows
<1> QED
    BY <1>1, <1>5, <1>6, <1>7 DEF Pruned

\* maintenance keeps the invariant.
LEMMA maintenanceStep ==
    ASSUME IInv, maintenance
    PROVE  IInv'
<1>m. /\ MonRec(mon) /\ MonInv /\ OwnInv /\ SignedRows /\ SampleRows /\ HourRows /\ CountInv
      /\ AddressRows /\ AddressInv /\ now \in Nat
    BY DEF IInv, MonInv, MonRec
<1>1. /\ mon' = mon /\ now' = now /\ counters' = counters /\ carried' = carried /\ nft' = nft
      /\ AggregateHourly /\ PruneIPTraffic(AggregateIP) /\ sent' = sent
    BY DEF maintenance, kernel
<1>2. MonInv'
    BY <1>m, <1>1, Zenon DEF MonInv
<1>3. OwnInv'
    BY <1>m, <1>1 DEF maintenance, OwnInv, StopsAreOwned, control, service
<1>4. SignedRows'
    <2>1. IsFiniteSet(DOMAIN adjustments') /\ adjustments' \in [DOMAIN adjustments' -> [Directions -> Int]]
        BY <1>m, Frees DEF maintenance, SignedRows
    <2>2. IsFiniteSet(DOMAIN packages') /\ packages' \in [DOMAIN packages' -> [Limited -> Int]]
        BY <1>m, Frees DEF maintenance, SignedRows
    <2> QED
        BY <2>1, <2>2 DEF SignedRows
<1> DEFINE kept == {t \in DOMAIN samples : t >= now - RawRetention}
<1>5. samples' = [t \in kept |-> samples[t]]
    BY <1>1 DEF AggregateHourly
<1>6. SampleRows'
    <2>1. IsFiniteSet(kept)
        BY <1>m, FS_Subset DEF SampleRows
    <2>2. DOMAIN samples' = kept /\ kept \subseteq DOMAIN samples /\ \A t \in kept : samples'[t] = samples[t]
        BY <1>5
    <2>3. samples' = [t \in DOMAIN samples' |-> samples'[t]]
        BY <1>5
    <2> HIDE DEF kept
    <2> QED
        BY <1>m, <1>1, <2>1, <2>2, <2>3 DEF SampleRows
<1>7. \A d \in Directions : Counted(d)' \in Nat /\ Counted(d)' <= Counted(d)
                              /\ Rows(Column(hourly', d))
    BY <1>m, <1>1, FoldedRows
<1>8. HourRows'
    <2>1. Rows(Column(hourly', "in")) /\ Rows(Column(hourly', "out"))
        BY <1>7 DEF Directions
    <2>2. IsFiniteSet(DOMAIN hourly') /\ DOMAIN hourly' \subseteq Nat
          /\ \A h \in DOMAIN hourly' : hourly'[h]["in"] \in Nat /\ hourly'[h]["out"] \in Nat
        BY <2>1 DEF Rows, Column
    <2>4. /\ hourly' = [h \in DOMAIN hourly' |-> hourly'[h]]
          /\ \A h \in DOMAIN hourly' : hourly'[h] = [e \in Directions |-> hourly'[h][e]]
        <3> DEFINE f(e) == [t \in DOMAIN samples |-> samples[t].d[e]]
                   P(e) == Folded(f(e), Column(hourly, e), now - RawRetention, HourOf)
                   K == {b \in DOMAIN P("in").into : b >= now - HistoryRetention}
        <3>1. hourly' = [h \in K |-> [e \in Directions |-> P(e).into[h]]]
            BY <1>1 DEF AggregateHourly
        <3> HIDE DEF P, K
        <3> QED
            BY <3>1
    <2>5. \A h \in DOMAIN hourly' : hourly'[h] \in [Directions -> Nat]
        BY <2>2, <2>4 DEF Directions
    <2> QED
        BY <2>2, <2>4, <2>5 DEF HourRows
<1>9. CountInv'
    <2>1. \A d \in Directions : Counted(d) \in Nat /\ carried[d] \in Nat /\ counters[d] \in Nat
        BY <1>m, CountedNat DEF CountInv
    <2>2. \A t \in DOMAIN samples' : t \in DOMAIN samples /\ samples'[t] = samples[t]
        BY <1>5
    <2>3. \A t \in DOMAIN samples' : IsLast(t)' => IsLast(t)
        <3> SUFFICES ASSUME NEW t \in DOMAIN samples', IsLast(t)', NEW u \in DOMAIN samples PROVE u <= t
            BY <2>2 DEF IsLast
        <3>1. t \in Int /\ u \in Int /\ now - RawRetention \in Int /\ t >= now - RawRetention
            BY <1>m, <1>5, <2>2, ClockAssumption DEF SampleRows
        <3>2. CASE u \in DOMAIN samples'
            BY <3>2 DEF IsLast
        <3>3. CASE u \notin DOMAIN samples'
            BY <1>5, <3>1, <3>3
        <3> QED
            BY <3>2, <3>3
    <2>4. \A x \in Nat : \A d \in Directions : Delta(x, counters[d]) \in Nat
        BY <2>1 DEF Delta
    <2>5. ASSUME NEW d \in Directions PROVE Counted(d)' <= carried'[d]
        BY <1>m, <1>1, <1>7, <2>1 DEF CountInv
    <2>6. ASSUME NEW d \in Directions, mon'.havePrev
          PROVE Counted(d)' + Delta(mon'.prev[d], counters'[d]) <= carried'[d]
        BY <1>m, <1>1, <1>7, <2>1, <2>4, <2>6 DEF CountInv, MonInv
    <2>7. ASSUME NEW d \in Directions, NEW t \in DOMAIN samples', IsLast(t)'
          PROVE Counted(d)' + Delta(samples'[t].c[d], counters'[d]) <= carried'[d]
        <3>1. samples'[t] = samples[t] /\ t \in DOMAIN samples /\ IsLast(t) /\ samples[t].c[d] \in Nat
            BY <1>m, <2>2, <2>3, <2>7 DEF SampleRows
        <3>2. Delta(samples[t].c[d], counters[d]) \in Nat
            BY <2>4, <3>1
        <3>3. Counted(d) + Delta(samples[t].c[d], counters[d]) <= carried[d]
            BY <1>m, <3>1 DEF CountInv
        <3> QED
            BY <1>1, <1>7, <2>1, <3>1, <3>2, <3>3
    <2> QED
        BY <1>m, <1>1, <2>5, <2>6, <2>7 DEF CountInv
<1>10. AddressRows' /\ AddressInv'
    <2>1. AddressRows' /\ \E K : Pruned(K)
        BY <1>m, <1>1, PrunedHistory
    <2>2. \A a \in Addresses : IPTotal(a) \in Nat /\ sent[a] \in Nat
        BY <1>m, AddressTotal DEF AddressInv
    <2>3. \A a \in Addresses : IPTotal(a)' = IPTotal(a) \/ IPTotal(a)' = 0
        BY <2>1 DEF Pruned
    <2>4. ASSUME NEW a \in Addresses, mon.loaded, nft # NoTable
          PROVE mon.ipPrev[a] <= nft[a] /\ IPTotal(a)' + (nft[a] - mon.ipPrev[a]) <= sent[a]
        <3>1. /\ nft[a] \in Nat /\ mon.ipPrev[a] \in Nat /\ mon.ipPrev[a] <= nft[a]
              /\ IPTotal(a) + (nft[a] - mon.ipPrev[a]) <= sent[a]
            BY <1>m, <2>4 DEF AddressInv, MonInv, Installed
        <3> QED
            BY <2>2, <2>3, <3>1
    <2>5. \A a \in Addresses : IPTotal(a)' <= sent[a]
        BY <1>m, <2>2, <2>3 DEF AddressInv
    <2> QED
        BY <1>m, <1>1, <2>1, <2>4, <2>5 DEF AddressInv, Installed
<1> QED
    BY <1>m, <1>1, <1>2, <1>3, <1>4, <1>6, <1>8, <1>9, <1>10 DEF IInv


\* The sampler's steps keep the invariant.
LEMMA SamplingStep ==
    ASSUME IInv, Sampling
    PROVE  IInv'
<1>m. MonRec(mon) /\ MonInv /\ OwnInv /\ SignedRows
      /\ SampleRows /\ HourRows /\ now \in Nat
    BY DEF IInv, MonInv, MonRec, AddressInv
<1>1. CASE sampleOnce
    BY <1>1, sampleOnceStep
<1>2. CASE reconcileQuota
    <2>1. MonIs(mon', mon'.pc, mon.next, mon.prev, mon.havePrev, mon.loaded, mon.ipPrev)
          /\ mon'.pc \in {"persist", "start", mon.next}
        <3>1. PICK p \in {"persist", "start", mon.next} : mon' = [mon EXCEPT !.pc = p]
            BY <1>2 DEF reconcileQuota, Goto
        <3>2. MonIs(mon', p, mon.next, mon.prev, mon.havePrev, mon.loaded, mon.ipPrev)
            BY <1>m, <3>1, GotoMon
        <3> QED
            BY <3>1, <3>2 DEF MonIs
    <2>2. MonInv'
        <3>1. mon'.pc \in {"off", "idle", "decide", "persist", "stop", "start", "clear", "address"}
            BY <1>m, <2>1 DEF MonInv
        <3> QED
            BY <1>m, <2>1, <3>1 DEF MonInv, MonIs, MonRec
    <2>3. OwnInv'
        BY <1>2, <1>m, <2>1 DEF reconcileQuota, Goto, kernel, store, control, service, address, OwnInv, StopsAreOwned, MonIs, MonInv
    <2>4. QuietRows /\ QuietAddress
        BY <1>2, <1>m, <2>1 DEF reconcileQuota, Goto, kernel, store, control, service, address, QuietRows, QuietAddress, MonIs
    <2>5. SignedRows'
        BY <1>2, <1>m, SignedFrame DEF reconcileQuota, Goto, kernel, store, control, service, address
    <2> QED
        BY <2>2, <2>3, <2>4, <2>5, QuietStep
<1>3. CASE PersistStop
    <2>1. MonIs(mon', "stop", mon.next, mon.prev, mon.havePrev, mon.loaded, mon.ipPrev)
        BY <1>3, <1>m, MarkedMon DEF PersistStop, kernel, store, control, service, address
    <2>2. MonInv'
        BY <1>m, <2>1, MonKeeps, NoBytesType, NoCountType DEF MonInv
    <2>3. OwnInv'
        BY <1>3, <1>m, <2>1 DEF PersistStop, kernel, store, control, service, address, OwnInv, StopsAreOwned, MonIs, MonInv
    <2>4. QuietRows /\ QuietAddress
        BY <1>3, <1>m, <2>1 DEF PersistStop, kernel, store, control, service, address, QuietRows, QuietAddress, MonIs
    <2>5. SignedRows'
        BY <1>3, <1>m, SignedFrame DEF PersistStop, kernel, store, control, service, address
    <2> QED
        BY <2>2, <2>3, <2>4, <2>5, QuietStep
<1>4. CASE StopSingBox
    <2>1. MonIs(mon', mon.next, mon.next, mon.prev, mon.havePrev, mon.loaded, mon.ipPrev)
        BY <1>4, <1>m, GotoMon DEF StopSingBox, Goto, kernel, store, control, service, address
    <2>2. MonInv'
        BY <1>m, <2>1, MonKeeps, NoBytesType, NoCountType DEF MonInv
    <2>3. OwnInv'
        BY <1>4, <1>m, <2>1 DEF StopSingBox, Goto, kernel, store, control, service, address, OwnInv, StopsAreOwned, MonIs, MonInv
    <2>4. QuietRows /\ QuietAddress
        BY <1>4, <1>m, <2>1 DEF StopSingBox, Goto, kernel, store, control, service, address, QuietRows, QuietAddress, MonIs
    <2>5. SignedRows'
        BY <1>4, <1>m, SignedFrame DEF StopSingBox, Goto, kernel, store, control, service, address
    <2> QED
        BY <2>2, <2>3, <2>4, <2>5, QuietStep
<1>5. CASE StartSingBox
    <2>1. MonIs(mon', "clear", mon.next, mon.prev, mon.havePrev, mon.loaded, mon.ipPrev)
        BY <1>5, <1>m, GotoMon DEF StartSingBox, Goto, kernel, store, control, service, address
    <2>2. MonInv'
        BY <1>m, <2>1, MonKeeps, NoBytesType, NoCountType DEF MonInv
    <2>3. OwnInv'
        BY <1>5, <1>m, <2>1 DEF StartSingBox, Goto, kernel, store, control, service, address, OwnInv, StopsAreOwned, MonIs, MonInv
    <2>4. QuietRows /\ QuietAddress
        BY <1>5, <1>m, <2>1 DEF StartSingBox, Goto, kernel, store, control, service, address, QuietRows, QuietAddress, MonIs
    <2>5. SignedRows'
        BY <1>5, <1>m, SignedFrame DEF StartSingBox, Goto, kernel, store, control, service, address
    <2> QED
        BY <2>2, <2>3, <2>4, <2>5, QuietStep
<1>6. CASE ClearStop
    <2>1. MonIs(mon', mon.next, mon.next, mon.prev, mon.havePrev, mon.loaded, mon.ipPrev)
        BY <1>6, <1>m, MarkedMon DEF ClearStop, kernel, store, control, service, address
    <2>2. MonInv'
        BY <1>m, <2>1, MonKeeps, NoBytesType, NoCountType DEF MonInv
    <2>3. OwnInv'
        BY <1>6, <1>m, <2>1 DEF ClearStop, kernel, store, control, service, address, OwnInv, StopsAreOwned, MonIs, MonInv
    <2>4. QuietRows /\ QuietAddress
        BY <1>6, <1>m, <2>1 DEF ClearStop, kernel, store, control, service, address, QuietRows, QuietAddress, MonIs
    <2>5. SignedRows'
        BY <1>6, <1>m, SignedFrame DEF ClearStop, kernel, store, control, service, address
    <2> QED
        BY <2>2, <2>3, <2>4, <2>5, QuietStep
<1>7. CASE ipSampleOnce
    BY <1>7, ipSampleOnceStep
<1>8. CASE CollectFails
    BY <1>8, CollectFailsStep
<1>9. CASE AccountingDisabled
    <2>1. MonIs(mon', "idle", mon.next, mon.prev, mon.havePrev, mon.loaded, mon.ipPrev)
        BY <1>9, <1>m, GotoMon DEF AccountingDisabled, Goto, kernel, store, control, service, address
    <2>2. MonInv'
        BY <1>m, <2>1, MonKeeps, NoBytesType, NoCountType DEF MonInv
    <2>3. OwnInv'
        BY <1>9, <1>m, <2>1 DEF AccountingDisabled, Goto, kernel, store, control, service, address, OwnInv, StopsAreOwned, MonIs, MonInv
    <2>4. QuietRows /\ QuietAddress
        BY <1>9, <1>m, <2>1 DEF AccountingDisabled, Goto, kernel, store, control, service, address, QuietRows, QuietAddress, MonIs
    <2>5. SignedRows'
        BY <1>9, <1>m, SignedFrame DEF AccountingDisabled, Goto, kernel, store, control, service, address
    <2> QED
        BY <2>2, <2>3, <2>4, <2>5, QuietStep
<1> QED
    BY <1>1, <1>2, <1>3, <1>4, <1>5, <1>6, <1>7, <1>8, <1>9 DEF Sampling

\* The supervisor's steps keep the invariant.
LEMMA SupervisingStep ==
    ASSUME IInv, Supervising
    PROVE  IInv'
<1>m. MonRec(mon) /\ MonInv /\ OwnInv /\ SignedRows
      /\ SampleRows /\ HourRows /\ now \in Nat
    BY DEF IInv, MonInv, MonRec, AddressInv
<1>1. CASE RetryFires
    <2>1. MonIs(mon', mon.pc, mon.next, mon.prev, mon.havePrev, mon.loaded, mon.ipPrev)
        BY <1>1, <1>m, SameMon DEF RetryFires, kernel, store, control, service, address
    <2>2. MonInv'
        BY <1>m, <2>1, MonKeeps, NoBytesType, NoCountType DEF MonInv
    <2>3. OwnInv'
        BY <1>1, <1>m, <2>1 DEF RetryFires, kernel, store, control, service, address, OwnInv, StopsAreOwned, MonIs, MonInv
    <2>4. QuietRows /\ QuietAddress
        BY <1>1, <1>m, <2>1 DEF RetryFires, kernel, store, control, service, address, QuietRows, QuietAddress, MonIs
    <2>5. SignedRows'
        BY <1>1, <1>m, SignedFrame DEF RetryFires, kernel, store, control, service, address
    <2> QED
        BY <2>2, <2>3, <2>4, <2>5, QuietStep
<1>2. CASE reload
    <2>1. MonIs(mon', "off", "idle", NoBytes, FALSE, FALSE, NoCount)
        BY <1>2, <1>m, OffMon DEF reload, stopRunning, kernel, store, control, service, address
    <2>2. MonInv'
        BY <1>m, <2>1, MonKeeps, NoBytesType, NoCountType DEF MonInv
    <2>3. OwnInv'
        BY <1>2, <1>m, <2>1 DEF reload, stopRunning, kernel, store, control, service, address, OwnInv, StopsAreOwned, MonIs, MonInv
    <2>4. QuietRows /\ QuietAddress
        BY <1>2, <1>m, <2>1 DEF reload, stopRunning, kernel, store, control, service, address, QuietRows, QuietAddress, MonIs
    <2>5. SignedRows'
        BY <1>2, <1>m, SignedFrame DEF reload, stopRunning, kernel, store, control, service, address
    <2> QED
        BY <2>2, <2>3, <2>4, <2>5, QuietStep
<1>3. CASE StartMonitor
    BY <1>3, StartMonitorStep
<1>4. CASE SystemdStarts
    BY <1>4, SystemdStartsStep
<1>5. CASE ReleaseQuotaStop
    <2>1. MonIs(mon', mon.pc, mon.next, mon.prev, mon.havePrev, mon.loaded, mon.ipPrev)
        BY <1>5, <1>m, SameMon DEF ReleaseQuotaStop, kernel, store, control, service, address
    <2>2. MonInv'
        BY <1>m, <2>1, MonKeeps, NoBytesType, NoCountType DEF MonInv
    <2>3. OwnInv'
        BY <1>5, <1>m, <2>1 DEF ReleaseQuotaStop, kernel, store, control, service, address, OwnInv, StopsAreOwned, MonIs, MonInv
    <2>4. QuietRows /\ QuietAddress
        BY <1>5, <1>m, <2>1 DEF ReleaseQuotaStop, kernel, store, control, service, address, QuietRows, QuietAddress, MonIs
    <2>5. SignedRows'
        BY <1>5, <1>m, SignedFrame DEF ReleaseQuotaStop, kernel, store, control, service, address
    <2> QED
        BY <2>2, <2>3, <2>4, <2>5, QuietStep
<1>6. CASE ReleaseClears
    <2>1. MonIs(mon', mon.pc, mon.next, mon.prev, mon.havePrev, mon.loaded, mon.ipPrev)
        BY <1>6, <1>m, SameMon DEF ReleaseClears, kernel, store, control, service, address
    <2>2. MonInv'
        BY <1>m, <2>1, MonKeeps, NoBytesType, NoCountType DEF MonInv
    <2>3. OwnInv'
        BY <1>6, <1>m, <2>1 DEF ReleaseClears, kernel, store, control, service, address, OwnInv, StopsAreOwned, MonIs, MonInv
    <2>4. QuietRows /\ QuietAddress
        BY <1>6, <1>m, <2>1 DEF ReleaseClears, kernel, store, control, service, address, QuietRows, QuietAddress, MonIs
    <2>5. SignedRows'
        BY <1>6, <1>m, SignedFrame DEF ReleaseClears, kernel, store, control, service, address
    <2> QED
        BY <2>2, <2>3, <2>4, <2>5, QuietStep
<1>7. CASE OrphanStops
    <2>1. MonIs(mon', mon.pc, mon.next, mon.prev, mon.havePrev, mon.loaded, mon.ipPrev)
        BY <1>7, <1>m, SameMon DEF OrphanStops, kernel, store, control, service, address
    <2>2. MonInv'
        BY <1>m, <2>1, MonKeeps, NoBytesType, NoCountType DEF MonInv
    <2>3. OwnInv'
        BY <1>7, <1>m, <2>1 DEF OrphanStops, kernel, store, control, service, address, OwnInv, StopsAreOwned, MonIs, MonInv
    <2>4. QuietRows /\ QuietAddress
        BY <1>7, <1>m, <2>1 DEF OrphanStops, kernel, store, control, service, address, QuietRows, QuietAddress, MonIs
    <2>5. SignedRows'
        BY <1>7, <1>m, SignedFrame DEF OrphanStops, kernel, store, control, service, address
    <2> QED
        BY <2>2, <2>3, <2>4, <2>5, QuietStep
<1>8. CASE OrphanStarts
    <2>1. MonIs(mon', mon.pc, mon.next, mon.prev, mon.havePrev, mon.loaded, mon.ipPrev)
        BY <1>8, <1>m, SameMon DEF OrphanStarts, kernel, store, control, service, address
    <2>2. MonInv'
        BY <1>m, <2>1, MonKeeps, NoBytesType, NoCountType DEF MonInv
    <2>3. OwnInv'
        BY <1>8, <1>m, <2>1 DEF OrphanStarts, kernel, store, control, service, address, OwnInv, StopsAreOwned, MonIs, MonInv
    <2>4. QuietRows /\ QuietAddress
        BY <1>8, <1>m, <2>1 DEF OrphanStarts, kernel, store, control, service, address, QuietRows, QuietAddress, MonIs
    <2>5. SignedRows'
        BY <1>8, <1>m, SignedFrame DEF OrphanStarts, kernel, store, control, service, address
    <2> QED
        BY <2>2, <2>3, <2>4, <2>5, QuietStep
<1> QED
    BY <1>1, <1>2, <1>3, <1>4, <1>5, <1>6, <1>7, <1>8 DEF Supervising

\* Failing steps keep the invariant.
LEMMA FailingStep ==
    ASSUME IInv, Failing
    PROVE  IInv'
<1>m. MonRec(mon) /\ MonInv /\ OwnInv /\ SignedRows
      /\ SampleRows /\ HourRows /\ now \in Nat
    BY DEF IInv, MonInv, MonRec, AddressInv
<1>1. CASE InsertSampleFails
    BY <1>1, InsertSampleFailsStep
<1>2. CASE ReconcileFails
    <2>1. MonIs(mon', mon.next, mon.next, mon.prev, mon.havePrev, mon.loaded, mon.ipPrev)
        BY <1>2, <1>m, GotoMon DEF ReconcileFails, Goto, kernel, store, control, service, address
    <2>2. MonInv'
        BY <1>m, <2>1, MonKeeps, NoBytesType, NoCountType DEF MonInv
    <2>3. OwnInv'
        BY <1>2, <1>m, <2>1 DEF ReconcileFails, Goto, kernel, store, control, service, address, OwnInv, StopsAreOwned, MonIs, MonInv
    <2>4. QuietRows /\ QuietAddress
        BY <1>2, <1>m, <2>1 DEF ReconcileFails, Goto, kernel, store, control, service, address, QuietRows, QuietAddress, MonIs
    <2>5. SignedRows'
        BY <1>2, <1>m, SignedFrame DEF ReconcileFails, Goto, kernel, store, control, service, address
    <2> QED
        BY <2>2, <2>3, <2>4, <2>5, QuietStep
<1>3. CASE AddIPTrafficFails
    BY <1>3, AddIPTrafficFailsStep
<1>4. CASE StartMonitorFails
    <2>1. MonIs(mon', mon.pc, mon.next, mon.prev, mon.havePrev, mon.loaded, mon.ipPrev)
        BY <1>4, <1>m, SameMon DEF StartMonitorFails, kernel, store, control, service, address
    <2>2. MonInv'
        BY <1>m, <2>1, MonKeeps, NoBytesType, NoCountType DEF MonInv
    <2>3. OwnInv'
        BY <1>4, <1>m, <2>1 DEF StartMonitorFails, kernel, store, control, service, address, OwnInv, StopsAreOwned, MonIs, MonInv
    <2>4. QuietRows /\ QuietAddress
        BY <1>4, <1>m, <2>1 DEF StartMonitorFails, kernel, store, control, service, address, QuietRows, QuietAddress, MonIs
    <2>5. SignedRows'
        BY <1>4, <1>m, SignedFrame DEF StartMonitorFails, kernel, store, control, service, address
    <2> QED
        BY <2>2, <2>3, <2>4, <2>5, QuietStep
<1>5. CASE ReleaseFails
    <2>1. MonIs(mon', mon.pc, mon.next, mon.prev, mon.havePrev, mon.loaded, mon.ipPrev)
        BY <1>5, <1>m, SameMon DEF ReleaseFails, kernel, store, control, service, address
    <2>2. MonInv'
        BY <1>m, <2>1, MonKeeps, NoBytesType, NoCountType DEF MonInv
    <2>3. OwnInv'
        BY <1>5, <1>m, <2>1 DEF ReleaseFails, kernel, store, control, service, address, OwnInv, StopsAreOwned, MonIs, MonInv
    <2>4. QuietRows /\ QuietAddress
        BY <1>5, <1>m, <2>1 DEF ReleaseFails, kernel, store, control, service, address, QuietRows, QuietAddress, MonIs
    <2>5. SignedRows'
        BY <1>5, <1>m, SignedFrame DEF ReleaseFails, kernel, store, control, service, address
    <2> QED
        BY <2>2, <2>3, <2>4, <2>5, QuietStep
<1>6. CASE Crash
    <2>1. MonIs(mon', "off", "idle", NoBytes, FALSE, FALSE, NoCount)
        BY <1>6, <1>m, OffMon DEF Crash, kernel, store, control, service, address
    <2>2. MonInv'
        BY <1>m, <2>1, MonKeeps, NoBytesType, NoCountType DEF MonInv
    <2>3. OwnInv'
        BY <1>6, <1>m, <2>1 DEF Crash, kernel, store, control, service, address, OwnInv, StopsAreOwned, MonIs, MonInv
    <2>4. QuietRows /\ QuietAddress
        BY <1>6, <1>m, <2>1 DEF Crash, kernel, store, control, service, address, QuietRows, QuietAddress, MonIs
    <2>5. SignedRows'
        BY <1>6, <1>m, SignedFrame DEF Crash, kernel, store, control, service, address
    <2> QED
        BY <2>2, <2>3, <2>4, <2>5, QuietStep
<1>7. CASE Reboot
    BY <1>7, RebootStep
<1>9. CASE StartsBlind
    BY <1>9, StartsBlindStep
<1>8. CASE FlushTable
    <2>1. MonIs(mon', mon.pc, mon.next, mon.prev, mon.havePrev, mon.loaded, mon.ipPrev)
        BY <1>8, <1>m, SameMon DEF FlushTable, kernel, store, control, service, address
    <2>2. MonInv'
        BY <1>m, <2>1, MonKeeps, NoBytesType, NoCountType DEF MonInv
    <2>3. OwnInv'
        BY <1>8, <1>m, <2>1 DEF FlushTable, kernel, store, control, service, address, OwnInv, StopsAreOwned, MonIs, MonInv
    <2>4. QuietRows /\ QuietAddress
        BY <1>8, <1>m, <2>1 DEF FlushTable, kernel, store, control, service, address, QuietRows, QuietAddress, MonIs
    <2>5. SignedRows'
        BY <1>8, <1>m, SignedFrame DEF FlushTable, kernel, store, control, service, address
    <2> QED
        BY <2>2, <2>3, <2>4, <2>5, QuietStep
<1> QED
    BY <1>1, <1>2, <1>3, <1>4, <1>5, <1>6, <1>7, <1>8, <1>9 DEF Failing

\* The steps that configure a monitor keep the invariant.
LEMMA ConfiguringStep ==
    ASSUME IInv, Configuring
    PROVE  IInv'
<1>m. MonRec(mon) /\ MonInv /\ OwnInv /\ SignedRows
      /\ SampleRows /\ HourRows /\ now \in Nat
    BY DEF IInv, MonInv, MonRec, AddressInv
<1>1. ASSUME NEW new, applySpokeMonitor(new) PROVE IInv'
    <2>1. MonIs(mon', mon.pc, mon.next, mon.prev, mon.havePrev, mon.loaded, mon.ipPrev)
        BY <1>1, <1>m, SameMon DEF applySpokeMonitor, kernel, store, control, service, address
    <2>2. MonInv'
        BY <1>m, <2>1, MonKeeps, NoBytesType, NoCountType DEF MonInv
    <2>3. OwnInv'
        BY <1>1, <1>m, <2>1 DEF applySpokeMonitor, kernel, store, control, service, address, OwnInv, StopsAreOwned, MonIs, MonInv
    <2>4. QuietRows /\ QuietAddress
        BY <1>1, <1>m, <2>1 DEF applySpokeMonitor, kernel, store, control, service, address, QuietRows, QuietAddress, MonIs
    <2>5. SignedRows'
        BY <1>1, <1>m, SignedFrame DEF applySpokeMonitor, kernel, store, control, service, address
    <2> QED
        BY <2>2, <2>3, <2>4, <2>5, QuietStep
<1>2. ASSUME NEW l, applyManageMonitorService(l) PROVE IInv'
    <2>1. MonIs(mon', "off", "idle", NoBytes, FALSE, FALSE, NoCount)
        BY <1>2, <1>m, OffMon DEF applyManageMonitorService, kernel, store, control, service, address
    <2>2. MonInv'
        BY <1>m, <2>1, MonKeeps, NoBytesType, NoCountType DEF MonInv
    <2>3. OwnInv'
        BY <1>2, <1>m, <2>1 DEF applyManageMonitorService, kernel, store, control, service, address, OwnInv, StopsAreOwned, MonIs, MonInv
    <2>4. QuietRows /\ QuietAddress
        BY <1>2, <1>m, <2>1 DEF applyManageMonitorService, kernel, store, control, service, address, QuietRows, QuietAddress, MonIs
    <2>5. SignedRows'
        BY <1>2, <1>m, SignedFrame DEF applyManageMonitorService, kernel, store, control, service, address
    <2> QED
        BY <2>2, <2>3, <2>4, <2>5, QuietStep
<1>3. CASE runMonitorServiceAction
    <2>1. MonIs(mon', "off", "idle", NoBytes, FALSE, FALSE, NoCount)
        BY <1>3, <1>m, OffMon DEF runMonitorServiceAction, kernel, store, control, service, address
    <2>2. MonInv'
        BY <1>m, <2>1, MonKeeps, NoBytesType, NoCountType DEF MonInv
    <2>3. OwnInv'
        BY <1>3, <1>m, <2>1 DEF runMonitorServiceAction, kernel, store, control, service, address, OwnInv, StopsAreOwned, MonIs, MonInv
    <2>4. QuietRows /\ QuietAddress
        BY <1>3, <1>m, <2>1 DEF runMonitorServiceAction, kernel, store, control, service, address, QuietRows, QuietAddress, MonIs
    <2>5. SignedRows'
        BY <1>3, <1>m, SignedFrame DEF runMonitorServiceAction, kernel, store, control, service, address
    <2> QED
        BY <2>2, <2>3, <2>4, <2>5, QuietStep
<1>4. CASE ResetHistory
    BY <1>4, ResetHistoryStep
<1> QED
    BY <1>1, <1>2, <1>3, <1>4 DEF Configuring

\* What happens outside of the program keep the invariant.
LEMMA WorldStep ==
    ASSUME IInv, World
    PROVE  IInv'
<1>m. MonRec(mon) /\ MonInv /\ OwnInv /\ SignedRows
      /\ SampleRows /\ HourRows /\ now \in Nat
    BY DEF IInv, MonInv, MonRec, AddressInv
<1>1. CASE Tick
    <2>1. MonIs(mon', mon.pc, mon.next, mon.prev, mon.havePrev, mon.loaded, mon.ipPrev)
        BY <1>1, <1>m, SameMon DEF Tick, kernel, store, control, service, address
    <2>2. MonInv'
        BY <1>m, <2>1, MonKeeps, NoBytesType, NoCountType DEF MonInv
    <2>3. OwnInv'
        BY <1>1, <1>m, <2>1 DEF Tick, kernel, store, control, service, address, OwnInv, StopsAreOwned, MonIs, MonInv
    <2>4. QuietRows /\ QuietAddress
        BY <1>1, <1>m, <2>1 DEF Tick, kernel, store, control, service, address, QuietRows, QuietAddress, MonIs
    <2>5. SignedRows'
        BY <1>1, <1>m, SignedFrame DEF Tick, kernel, store, control, service, address
    <2> QED
        BY <2>2, <2>3, <2>4, <2>5, QuietStep
<1>2. CASE OperatorStops
    <2>1. MonIs(mon', mon.pc, mon.next, mon.prev, mon.havePrev, mon.loaded, mon.ipPrev)
        BY <1>2, <1>m, SameMon DEF OperatorStops, kernel, store, control, service, address
    <2>2. MonInv'
        BY <1>m, <2>1, MonKeeps, NoBytesType, NoCountType DEF MonInv
    <2>3. OwnInv'
        BY <1>2, <1>m, <2>1 DEF OperatorStops, kernel, store, control, service, address, OwnInv, StopsAreOwned, MonIs, MonInv
    <2>4. QuietRows /\ QuietAddress
        BY <1>2, <1>m, <2>1 DEF OperatorStops, kernel, store, control, service, address, QuietRows, QuietAddress, MonIs
    <2>5. SignedRows'
        BY <1>2, <1>m, SignedFrame DEF OperatorStops, kernel, store, control, service, address
    <2> QED
        BY <2>2, <2>3, <2>4, <2>5, QuietStep
<1>3. CASE OperatorStarts
    <2>1. MonIs(mon', mon.pc, mon.next, mon.prev, mon.havePrev, mon.loaded, mon.ipPrev)
        BY <1>3, <1>m, SameMon DEF OperatorStarts, kernel, store, control, service, address
    <2>2. MonInv'
        BY <1>m, <2>1, MonKeeps, NoBytesType, NoCountType DEF MonInv
    <2>3. OwnInv'
        BY <1>3, <1>m, <2>1 DEF OperatorStarts, kernel, store, control, service, address, OwnInv, StopsAreOwned, MonIs, MonInv
    <2>4. QuietRows /\ QuietAddress
        BY <1>3, <1>m, <2>1 DEF OperatorStarts, kernel, store, control, service, address, QuietRows, QuietAddress, MonIs
    <2>5. SignedRows'
        BY <1>3, <1>m, SignedFrame DEF OperatorStarts, kernel, store, control, service, address
    <2> QED
        BY <2>2, <2>3, <2>4, <2>5, QuietStep
<1>4. ASSUME NEW d \in Directions, NEW a \in Addresses, Carry(d, a) PROVE IInv'
    BY <1>4, CarryStep
<1> QED
    BY <1>1, <1>2, <1>3, <1>4 DEF World

-----------------------------------------------------------------------------
\* The invariant holds initially.
LEMMA InitEstablishes ==
    ASSUME Init
    PROVE  IInv
<1>1. Rows(Empty) /\ DOMAIN Empty = {} /\ IsFiniteSet({})
    BY FS_EmptySet DEF Empty, Rows
<1>2. now \in Nat
    BY ClockAssumption DEF Init
<1>3. /\ samples = Empty /\ hourly = Empty /\ adjustments = Empty /\ packages = Empty
      /\ Empty = [t \in {} |-> 0]
    BY DEF Init, Empty
<1>4. SampleRows /\ HourRows /\ SignedRows
    BY <1>1, <1>2, <1>3 DEF SampleRows, HourRows, SignedRows
<1>5. MonIs(mon, "off", "idle", NoBytes, FALSE, FALSE, NoCount)
    BY OffMon DEF Init
<1>6. MonInv
    <2>1. /\ MonRec(mon) /\ mon.pc = "off" /\ mon.next = "idle" /\ mon.prev = NoBytes
          /\ mon.havePrev = FALSE /\ mon.loaded = FALSE /\ mon.ipPrev = NoCount
        BY <1>5 DEF MonIs
    <2>2. mon.prev \in [Directions -> Nat] /\ mon.ipPrev \in [Addresses -> Nat]
        BY <2>1, NoBytesType, NoCountType
    <2> QED
        BY <2>1, <2>2, Zenon DEF MonRec, MonInv
<1>7. OwnInv
    BY <1>5 DEF Init, OwnInv, StopsAreOwned, MonIs
<1>8. AddressRows /\ \A a \in Addresses : IPTotal(a) = 0
    <2>1. ip = Cleared /\ \A a \in Addresses : ip[a] = NoHistory
        BY DEF Init, Cleared
    <2>2. AddressRows
        <3>1. ip = [a \in Addresses |-> ip[a]]
            BY <2>1 DEF Cleared
        <3> QED
            BY <2>1, <3>1, NoHistoryRows DEF AddressRows, Histories
    <2> QED
        BY <2>1, <2>2, NoHistoryRows DEF IPTotal
<1>9. \A d \in Directions : Counted(d) = 0
    <2> TAKE d \in Directions
    <2> DEFINE f == [t \in DOMAIN samples |-> samples[t].d[d]]
               g == Column(hourly, d)
    <2>1. DOMAIN f = {} /\ DOMAIN g = {}
        BY <1>1, <1>3 DEF Column
    <2>2. Counted(d) = Total(f) + Total(g)
        BY <1>4, CountedSums
    <2> HIDE DEF f, g
    <2> QED
        BY <2>1, <2>2, SumEmpty DEF Total
<1>10. CountInv
    <2>1. counters = NoBytes /\ carried = NoBytes /\ DOMAIN samples = {} /\ ~mon.havePrev
        BY <1>1, <1>3, <1>5 DEF Init, MonIs
    <2>2. \A d \in Directions : NoBytes[d] = 0
        BY DEF NoBytes
    <2> QED
        BY <1>9, <2>1, <2>2, NoBytesType DEF CountInv
<1>11. AddressInv
    <2>1. sent = NoCount /\ nft = NoTable /\ ~mon.loaded
        BY <1>5 DEF Init, MonIs
    <2> QED
        BY <1>8, <2>1, NoCountType DEF AddressInv
<1> QED
    BY <1>2, <1>4, <1>6, <1>7, <1>8, <1>10, <1>11 DEF IInv

\* A stuttering step keeps the invariant.
LEMMA StutterKeeps ==
    ASSUME IInv, UNCHANGED vars
    PROVE  IInv'
<1>m. /\ MonRec(mon) /\ MonInv /\ OwnInv /\ SignedRows /\ now \in Nat
    BY DEF IInv, MonInv, MonRec, AddressInv
<1>1. MonInv'
    BY <1>m, Zenon DEF MonInv, vars
<1>2. OwnInv'
    BY <1>m DEF OwnInv, StopsAreOwned, vars
<1>3. QuietRows /\ QuietAddress
    BY <1>m DEF QuietRows, QuietAddress, vars
<1>4. SignedRows'
    BY <1>m, SignedFrame DEF vars
<1> QED
    BY <1>1, <1>2, <1>3, <1>4, QuietStep

(* The books of the monitor are kept by every step: what is counted, what  *)
(* the next sample would add, and who owns a stopped sing-box.             *)
THEOREM Invariance == Spec => []IInv
<1>1. Init => IInv
    BY InitEstablishes
<1>2. IInv /\ [Next]_vars => IInv'
    BY AdjustingStep, SamplingStep, SupervisingStep, FailingStep, ConfiguringStep, WorldStep,
       maintenanceStep, StutterKeeps DEF Next
<1> QED
    BY <1>1, <1>2, PTL DEF Spec

(* sampleOnce, LatestCounters, ipSampleOnce, maintenance: no byte the      *)
(* interface carried is counted twice, by the traffic rows or by the       *)
(* per-address rows, across every restart, reboot, failed write and fold.  *)
THEOREM BytesAreCountedOnce == Spec => []NeverOvercounts
<1>1. IInv => NeverOvercounts
    BY DEF IInv, CountInv, AddressInv, NeverOvercounts, Counted
<1> QED
    BY <1>1, Invariance, PTL

(* reconcileQuota, ReleaseQuotaStop, stopRunning: a sing-box that the quota *)
(* took down has the durable marker by which it is started again.           *)
THEOREM QuotaStopsAreOwned == Spec => []StopsAreOwned
<1>1. IInv => StopsAreOwned
    BY DEF IInv, OwnInv
<1> QED
    BY <1>1, Invariance, PTL

(* extendLimit, Remaining, limitExceeded: the dashboard and the quota read *)
(* the same limits, whatever rows the store holds and at the edge of the   *)
(* integers.                                                               *)
LEMMA SummaryFollows ==
    ASSUME SampleRows, HourRows, SignedRows
    PROVE  SummaryAgrees
<1> SUFFICES ASSUME NEW limits \in LimitChoices
             PROVE  LET shown == Summary(limits)
                    IN  /\ OverQuota(limits)
                              <=> \E k \in DOMAIN limits : shown[k].limit > 0 /\ shown[k].left = 0
                        /\ \A k \in DOMAIN limits :
                              /\ shown[k].limit = 0 <=> limits[k] = 0
                              /\ shown[k].limit \in limits[k]..MaxUint
    BY DEF SummaryAgrees
<1> DEFINE pkg == PackageSince(CycleStart(now))
           tot == TotalsSince(CycleStart(now))
           eff == Effective(limits)
           used == UsedOf(tot)
           shown == Summary(limits)
<1>1. DOMAIN limits = Limited /\ (\A k \in Limited : limits[k] \in 0..MaxUint) /\ MaxUint \in Nat
    BY LimitAssumption DEF Limited, MaxUint
<1>2. pkg \in [Limited -> Nat] /\ tot \in [Directions -> Nat]
    BY PackageType, TotalsType
<1>3. \A k \in Limited : eff[k] = extendLimit(limits[k], pkg[k])
    BY <1>1 DEF Effective, WithPackage
<1>4. DOMAIN eff = Limited
    BY <1>1 DEF Effective, WithPackage
<1>5. \A k \in Limited : used[k] \in Nat
    <2> HIDE DEF tot
    <2>1. tot["in"] \in Nat /\ tot["out"] \in Nat
        BY <1>2 DEF Directions
    <2>2. used["in"] \in Nat /\ used["out"] \in Nat /\ used["total"] \in Nat
        BY <2>1 DEF UsedOf
    <2> HIDE DEF used
    <2> QED
        BY <2>2 DEF Limited
<1>6. \A k \in Limited : shown[k].limit = eff[k] /\ shown[k].left = Remaining(eff[k], used[k])
    BY <1>1 DEF Summary
<1>7. OverQuota(limits) <=> \E k \in Limited : limitExceeded(eff[k], used[k])
    BY <1>4 DEF OverQuota, Exceeded
<1> HIDE DEF pkg, tot, eff, used, shown
<1>8. ASSUME NEW k \in Limited
      PROVE  /\ eff[k] \in limits[k]..MaxUint /\ (eff[k] = 0 <=> limits[k] = 0)
             /\ limitExceeded(eff[k], used[k])
                   <=> eff[k] > 0 /\ Remaining(eff[k], used[k]) = 0
    <2>1. limits[k] \in 0..MaxUint /\ pkg[k] \in Nat /\ used[k] \in Nat
        BY <1>1, <1>2, <1>5
    <2>2. eff[k] \in limits[k]..MaxUint /\ (eff[k] = 0 <=> limits[k] = 0)
        BY <1>1, <1>3, <2>1 DEF extendLimit
    <2>3. eff[k] \in Int
        BY <1>1, <2>1, <2>2
    <2> QED
        BY <2>1, <2>2, <2>3 DEF limitExceeded, Remaining
<1> QED
    BY <1>1, <1>6, <1>7, <1>8 DEF shown

(* Summary, extendLimit, Remaining, limitExceeded: the dashboard shows a   *)
(* spent limit exactly when the quota holds sing-box down, and a package   *)
(* neither creates a limit nor lowers one, whatever has been counted.      *)
THEOREM DashboardAndQuotaAgree == Spec => []SummaryAgrees
<1>1. IInv => SummaryAgrees
    BY SummaryFollows DEF IInv
<1> QED
    BY <1>1, Invariance, PTL

-----------------------------------------------------------------------------
(***************************************************************************)
(* The calendar, for months of any lengths that hold the day of the reset. *)
(***************************************************************************)
Months == Len(MonthDays)
MonthTicks(m) == MonthDays[m] * DayTicks
Offset == (ResetDay - 1) * DayTicks + ResetHour * TicksPerHour
Boundary(m) == MonthStart[m] + Offset

\* The numbers of the calendar.
LEMMA CalendarNumbers ==
    /\ Months \in Nat \ {0} /\ TicksPerHour \in Nat \ {0} /\ DayTicks \in Nat \ {0}
    /\ \A m \in 1..Months : MonthDays[m] \in Nat /\ MonthTicks(m) \in Nat /\ Offset < MonthTicks(m)
    /\ Offset \in Nat
<1>1. /\ Months \in Nat \ {0} /\ TicksPerHour \in Nat \ {0} /\ HoursPerDay \in Nat \ {0}
      /\ ResetDay \in Nat /\ ResetHour \in 0..(HoursPerDay - 1)
      /\ \A m \in 1..Months : MonthDays[m] \in Nat /\ ResetDay \in 1..MonthDays[m]
    BY CalendarAssumption DEF Months
<1>2. DayTicks \in Nat \ {0} /\ DayTicks = HoursPerDay * TicksPerHour
    BY <1>1 DEF DayTicks
<1>3. ResetDay - 1 \in Nat
    BY <1>1
<1>4. ResetHour * TicksPerHour \in 0..(DayTicks - 1)
    <2>1. ResetHour \in Nat /\ HoursPerDay - 1 - ResetHour \in Nat
        BY <1>1
    <2>2. \A a, b, t \in Nat : (a + b) * t = a * t + b * t
        OBVIOUS
    <2>3. (ResetHour + (HoursPerDay - ResetHour)) * TicksPerHour
              = ResetHour * TicksPerHour + (HoursPerDay - ResetHour) * TicksPerHour
        BY <1>1, <2>1, <2>2
    <2>4. \A a, b \in Nat \ {0} : a * b \in Nat \ {0}
        OBVIOUS
    <2>5. (HoursPerDay - ResetHour) * TicksPerHour \in Nat \ {0} /\ ResetHour * TicksPerHour \in Nat
        BY <1>1, <2>1, <2>4
    <2> QED
        BY <1>1, <1>2, <2>1, <2>3, <2>5
<1>5. (ResetDay - 1) * DayTicks \in Nat
    BY <1>2, <1>3
<1>6. Offset \in Nat /\ Offset < (ResetDay - 1) * DayTicks + DayTicks
    BY <1>2, <1>4, <1>5 DEF Offset
<1>7. ASSUME NEW m \in 1..Months PROVE MonthDays[m] \in Nat /\ MonthTicks(m) \in Nat /\ Offset < MonthTicks(m)
    <2>1. PICK e \in Nat : MonthDays[m] = (ResetDay - 1) + 1 + e
        <3>1. MonthDays[m] - ResetDay \in Nat
            BY <1>1
        <3> QED
            BY <1>1, <3>1
    <2>2. \A a, b, t \in Nat : (a + 1 + b) * t = a * t + t + b * t /\ b * t \in Nat
        OBVIOUS
    <2>3. MonthTicks(m) = (ResetDay - 1) * DayTicks + DayTicks + e * DayTicks /\ e * DayTicks \in Nat
        BY <1>2, <1>3, <2>1, <2>2 DEF MonthTicks
    <2> QED
        BY <1>1, <1>2, <1>5, <1>6, <2>3
<1> QED
    BY <1>1, <1>2, <1>6, <1>7

\* A function that starts every month where the one before ends.
Starts(n, g) == g = [m \in 1..n |-> IF m = 1 THEN 0 ELSE g[m - 1] + MonthDays[m - 1] * DayTicks]

\* There is one, built up month by month.
LEMMA StartsExist ==
    ASSUME NEW n \in Nat
    PROVE  \E g : Starts(n, g)
<1> DEFINE T == {k \in Nat : \E g : Starts(k, g)}
<1>1. 0 \in T
    <2> DEFINE g == [m \in 1..0 |-> 0]
    <2>1. Starts(0, g)
        BY DEF Starts
    <2> QED
        BY <2>1
<1>2. ASSUME NEW k \in T PROVE k + 1 \in T
    <2>1. PICK g : Starts(k, g)
        OBVIOUS
    <2> DEFINE h == [m \in 1..(k + 1) |-> IF m = 1 THEN 0 ELSE g[m - 1] + MonthDays[m - 1] * DayTicks]
    <2>2. \A m \in 1..k : h[m] = g[m]
        BY <1>2, <2>1 DEF Starts
    <2>3. \A m \in 1..(k + 1) : m # 1 => m - 1 \in 1..k
        BY <1>2
    <2>4. h = [m \in 1..(k + 1) |-> IF m = 1 THEN 0 ELSE h[m - 1] + MonthDays[m - 1] * DayTicks]
        BY <2>2, <2>3
    <2>5. Starts(k + 1, h)
        BY <2>4 DEF Starts
    <2>6. k + 1 \in Nat
        BY <1>2
    <2> HIDE DEF h
    <2> QED
        BY <2>5, <2>6
<1>3. T = Nat
    <2> HIDE DEF T
    <2>1. T \in SUBSET Nat
        BY DEF T
    <2> QED
        BY <1>1, <1>2, <2>1, NatSetInduction
<1> QED
    BY <1>3

\* What the calendar's recursion computes.
LEMMA MonthStartIs == Starts(Months + 1, MonthStart)
<1>1. \E g : Starts(Months + 1, g)
    BY CalendarNumbers, StartsExist
<1>2. MonthStart = CHOOSE g : Starts(Months + 1, g)
    BY DEF MonthStart, Starts, Months
<1> QED
    BY <1>1, <1>2

\* Every month starts on an hour, where the one before ends.
LEMMA MonthFacts ==
    /\ MonthStart[1] = 0
    /\ \A m \in 1..Months : MonthStart[m + 1] = MonthStart[m] + MonthTicks(m)
    /\ \A m \in 1..(Months + 1) :
          MonthStart[m] \in Nat /\ \E q \in Nat : MonthStart[m] = q * TicksPerHour
<1>1. \A m \in 1..(Months + 1) :
          MonthStart[m] = IF m = 1 THEN 0 ELSE MonthStart[m - 1] + MonthDays[m - 1] * DayTicks
    BY MonthStartIs DEF Starts
<1>2. MonthStart[1] = 0
    BY <1>1, CalendarNumbers
<1>3. ASSUME NEW m \in 1..Months PROVE MonthStart[m + 1] = MonthStart[m] + MonthTicks(m)
    <2>1. m + 1 \in 1..(Months + 1) /\ m + 1 # 1 /\ (m + 1) - 1 = m
        BY CalendarNumbers
    <2> QED
        BY <1>1, <2>1 DEF MonthTicks
<1> DEFINE OnHour(m) == MonthStart[m] \in Nat /\ \E q \in Nat : MonthStart[m] = q * TicksPerHour
           T == {k \in Nat : k + 1 \in 1..(Months + 1) => OnHour(k + 1)}
<1>4. 0 \in T
    <2>1. 0 = 0 * TicksPerHour
        BY CalendarNumbers
    <2> QED
        BY <1>2, <2>1
<1>5. ASSUME NEW k \in T PROVE k + 1 \in T
    <2>1. k \in Nat
        BY <1>5
    <2>2. SUFFICES ASSUME (k + 1) + 1 \in 1..(Months + 1) PROVE OnHour((k + 1) + 1)
        BY <2>1
    <2>3. k + 1 \in 1..Months /\ k + 1 \in 1..(Months + 1)
        BY <2>1, <2>2, CalendarNumbers
    <2>4. OnHour(k + 1)
        BY <1>5, <2>3
    <2>5. PICK q \in Nat : MonthStart[k + 1] = q * TicksPerHour
        BY <2>4
    <2> DEFINE d == MonthDays[k + 1]
    <2>6. MonthStart[(k + 1) + 1] = MonthStart[k + 1] + d * (HoursPerDay * TicksPerHour)
        BY <1>3, <2>3 DEF MonthTicks, DayTicks
    <2>7. d \in Nat /\ HoursPerDay \in Nat /\ TicksPerHour \in Nat
        BY <2>3, CalendarNumbers, CalendarAssumption
    <2> HIDE DEF d
    <2>8. \A a, b, h, t \in Nat : a * t + b * (h * t) = (a + b * h) * t /\ a + b * h \in Nat /\ (a + b * h) * t \in Nat
        OBVIOUS
    <2>9. MonthStart[(k + 1) + 1] = (q + d * HoursPerDay) * TicksPerHour /\ q + d * HoursPerDay \in Nat
          /\ (q + d * HoursPerDay) * TicksPerHour \in Nat
        BY <2>5, <2>6, <2>7, <2>8
    <2> QED
        BY <2>9
<1>6. T = Nat
    <2> HIDE DEF T
    <2>1. T \in SUBSET Nat
        BY DEF T
    <2> QED
        BY <1>4, <1>5, <2>1, NatSetInduction
<1>7. ASSUME NEW m \in 1..(Months + 1) PROVE OnHour(m)
    <2>1. m - 1 \in Nat /\ (m - 1) + 1 = m
        BY CalendarNumbers
    <2>2. m - 1 \in T
        BY <1>6, <2>1
    <2> QED
        BY <2>1, <2>2
<1> QED
    BY <1>2, <1>3, <1>7

\* Months do not overlap.
LEMMA MonthsApart ==
    ASSUME NEW m \in 1..Months, NEW n \in 1..(Months + 1), m < n
    PROVE  MonthStart[m + 1] <= MonthStart[n]
<1> DEFINE T == {k \in Nat : m + 1 + k \in 1..(Months + 1) => MonthStart[m + 1] <= MonthStart[m + 1 + k]}
<1>0. Months \in Nat /\ m \in Nat /\ m >= 1 /\ \A k \in 1..(Months + 1) : MonthStart[k] \in Nat
    BY CalendarNumbers, MonthFacts
<1>1. 0 \in T
    BY <1>0
<1>2. ASSUME NEW k \in T PROVE k + 1 \in T
    <2>1. k \in Nat
        BY <1>2
    <2>2. SUFFICES ASSUME m + 1 + (k + 1) \in 1..(Months + 1)
                   PROVE  MonthStart[m + 1] <= MonthStart[m + 1 + (k + 1)]
        BY <2>1
    <2>3. m + 1 + k \in 1..Months /\ m + 1 + k \in 1..(Months + 1) /\ m + 1 \in 1..(Months + 1)
          /\ m + 1 + (k + 1) = (m + 1 + k) + 1
        BY <1>0, <2>1, <2>2
    <2>4. MonthStart[m + 1] <= MonthStart[m + 1 + k]
        BY <1>2, <2>3
    <2>5. MonthStart[(m + 1 + k) + 1] = MonthStart[m + 1 + k] + MonthTicks(m + 1 + k)
        BY <2>3, MonthFacts
    <2>6. MonthTicks(m + 1 + k) \in Nat
        BY <2>3, CalendarNumbers
    <2> QED
        BY <1>0, <2>3, <2>4, <2>5, <2>6
<1>3. T = Nat
    <2> HIDE DEF T
    <2>1. T \in SUBSET Nat
        BY DEF T
    <2> QED
        BY <1>1, <1>2, <2>1, NatSetInduction
<1>4. n - m - 1 \in Nat /\ m + 1 + (n - m - 1) = n
    BY <1>0
<1>5. n - m - 1 \in T
    BY <1>3, <1>4
<1> QED
    BY <1>4, <1>5

\* The month of a time.
InMonth(t, m) == m \in 1..Months /\ MonthStart[m] <= t /\ t < MonthStart[m + 1]

\* A time is in one month at most.
LEMMA MonthOfIs ==
    ASSUME NEW t \in Nat, NEW m, InMonth(t, m)
    PROVE  MonthOf(t) = m
<1>0. Months \in Nat /\ \A k \in 1..(Months + 1) : MonthStart[k] \in Nat
    BY CalendarNumbers, MonthFacts
<1>1. ASSUME NEW n \in 1..Months, MonthStart[n] <= t, t < MonthStart[n + 1] PROVE n = m
    <2>1. m \in 1..Months /\ m + 1 \in 1..(Months + 1) /\ n + 1 \in 1..(Months + 1)
          /\ n \in 1..(Months + 1) /\ m \in 1..(Months + 1)
        BY <1>0 DEF InMonth
    <2>2. ~(m < n)
        <3>1. m < n => MonthStart[m + 1] <= MonthStart[n]
            BY <2>1, MonthsApart
        <3> QED
            BY <1>0, <1>1, <2>1, <3>1 DEF InMonth
    <2>3. ~(n < m)
        <3>1. n < m => MonthStart[n + 1] <= MonthStart[m]
            BY <2>1, MonthsApart
        <3> QED
            BY <1>0, <1>1, <2>1, <3>1 DEF InMonth
    <2> QED
        BY <1>0, <2>1, <2>2, <2>3
<1>2. \E k \in 1..Months : MonthStart[k] <= t /\ t < MonthStart[k + 1]
    BY DEF InMonth
<1> QED
    BY <1>1, <1>2 DEF MonthOf, Months

\* A time before the end of the calendar is in a month.
LEMMA MonthExists ==
    ASSUME NEW t \in Nat, t < MonthStart[Months + 1]
    PROVE  \E m : InMonth(t, m)
<1>0. Months \in Nat \ {0} /\ \A k \in 1..(Months + 1) : MonthStart[k] \in Nat
    BY CalendarNumbers, MonthFacts
<1> DEFINE U == {m \in 1..Months : MonthStart[m] <= t}
<1>1. 1 \in U
    BY <1>0, MonthFacts
<1>2. IsFiniteSet(U) /\ U \subseteq Int
    <2>1. IsFiniteSet(1..Months)
        BY <1>0, FS_Interval
    <2>2. U \in SUBSET (1..Months)
        OBVIOUS
    <2> HIDE DEF U
    <2>3. IsFiniteSet(U)
        BY <2>1, <2>2, FS_Subset
    <2> QED
        BY <2>2, <2>3
<1>3. PICK m \in U : \A x \in U : x <= m
    BY <1>1, <1>2, MaxExists
<1>4. m \in 1..Months /\ MonthStart[m] <= t
    OBVIOUS
<1>5. t < MonthStart[m + 1]
    <2>1. CASE m = Months
        BY <2>1
    <2>2. CASE m # Months
        <3>1. m + 1 \in 1..Months /\ ~(m + 1 <= m)
            BY <1>0, <1>4, <2>2
        <3>2. m + 1 \notin U
            BY <1>3, <3>1
        <3> QED
            BY <1>0, <3>1, <3>2
    <2> QED
        BY <2>1, <2>2
<1> QED
    BY <1>4, <1>5 DEF InMonth

\* Every month has one boundary, on an hour.
LEMMA BoundaryFacts ==
    ASSUME NEW m \in 1..Months
    PROVE  /\ Boundary(m) \in Nat /\ Boundary(m) = Date(m, ResetDay, ResetHour)
           /\ clampDay(m, ResetDay) = ResetDay
           /\ InMonth(Boundary(m), m)
           /\ \E q \in Nat : Boundary(m) = q * TicksPerHour
           /\ m < Months => Boundary(m + 1) = Boundary(m) + MonthTicks(m)
<1>0. /\ Months \in Nat \ {0} /\ MonthStart[m] \in Nat /\ Offset \in Nat /\ DayTicks \in Nat
      /\ MonthTicks(m) \in Nat /\ Offset < MonthTicks(m)
      /\ MonthStart[m + 1] = MonthStart[m] + MonthTicks(m)
    <2>1. m \in 1..(Months + 1)
        BY CalendarNumbers
    <2> QED
        BY <2>1, CalendarNumbers, MonthFacts
<1>1. Boundary(m) \in Nat /\ InMonth(Boundary(m), m)
    BY <1>0 DEF Boundary, InMonth
<1>2. clampDay(m, ResetDay) = ResetDay
    BY CalendarAssumption DEF clampDay, Months
<1>3. Boundary(m) = Date(m, ResetDay, ResetHour)
    <2> DEFINE x == (ResetDay - 1) * DayTicks
               y == ResetHour * TicksPerHour
    <2>1. x \in Int /\ y \in Int
        <3>1. ResetDay - 1 \in Int /\ ResetHour \in Int /\ TicksPerHour \in Int
            BY CalendarAssumption
        <3>2. \A a, b \in Int : a * b \in Int
            OBVIOUS
        <3> QED
            BY <1>0, <3>1, <3>2
    <2>2. Boundary(m) = MonthStart[m] + (x + y) /\ Date(m, ResetDay, ResetHour) = MonthStart[m] + x + y
        BY DEF Boundary, Offset, Date
    <2> HIDE DEF x, y
    <2> QED
        BY <1>0, <2>1, <2>2
<1>4. \E q \in Nat : Boundary(m) = q * TicksPerHour
    <2>1. PICK q \in Nat : MonthStart[m] = q * TicksPerHour
        BY <1>0, MonthFacts
    <2> DEFINE d == ResetDay - 1
    <2>2. d \in Nat /\ HoursPerDay \in Nat /\ TicksPerHour \in Nat /\ ResetHour \in Nat
        BY CalendarAssumption DEF Months
    <2>3. Boundary(m) = q * TicksPerHour + (d * (HoursPerDay * TicksPerHour) + ResetHour * TicksPerHour)
        BY <2>1 DEF Boundary, Offset, DayTicks
    <2> HIDE DEF d
    <2>4. \A a, b, h, r, t \in Nat : /\ a * t + (b * (h * t) + r * t) = (a + b * h + r) * t
                                     /\ a + b * h + r \in Nat
        OBVIOUS
    <2>5. Boundary(m) = (q + d * HoursPerDay + ResetHour) * TicksPerHour /\ q + d * HoursPerDay + ResetHour \in Nat
        BY <2>2, <2>3, <2>4
    <2> QED
        BY <2>5
<1>5. m < Months => Boundary(m + 1) = Boundary(m) + MonthTicks(m)
    BY <1>0 DEF Boundary
<1> QED
    BY <1>1, <1>2, <1>3, <1>4, <1>5

\* Boundaries follow each other.
LEMMA BoundaryOrder ==
    ASSUME NEW m \in 1..Months, NEW n \in 1..Months, m < n
    PROVE  Boundary(m) < Boundary(n)
<1>0. Months \in Nat
    BY CalendarNumbers
<1>1. /\ Boundary(m) \in Nat /\ Boundary(n) \in Nat
      /\ Boundary(m) < MonthStart[m + 1] /\ MonthStart[n] <= Boundary(n)
    BY BoundaryFacts DEF InMonth
<1>2. n \in 1..(Months + 1) /\ m + 1 \in 1..(Months + 1)
    BY <1>0
<1>3. MonthStart[m + 1] <= MonthStart[n]
    BY <1>2, MonthsApart
<1>4. MonthStart[m + 1] \in Nat /\ MonthStart[n] \in Nat
    BY <1>2, MonthFacts
<1> QED
    BY <1>1, <1>3, <1>4

\* The cycle of a time: the one whose boundary it has passed last.
InCycle(t, c) == c \in 1..(Months - 1) /\ Boundary(c) <= t /\ t < Boundary(c + 1)

\* A time is in one cycle at most.
LEMMA OneCycle ==
    ASSUME NEW t \in Nat, NEW c, InCycle(t, c), NEW b, InCycle(t, b)
    PROVE  b = c
<1>0. Months \in Nat /\ c \in 1..(Months - 1) /\ b \in 1..(Months - 1)
    BY CalendarNumbers DEF InCycle
<1>1. /\ c \in 1..Months /\ b \in 1..Months /\ c + 1 \in 1..Months /\ b + 1 \in 1..Months
    BY <1>0
<1>2. /\ Boundary(c) \in Nat /\ Boundary(b) \in Nat /\ Boundary(c + 1) \in Nat /\ Boundary(b + 1) \in Nat
    BY <1>1, BoundaryFacts
<1>3. ASSUME NEW x \in 1..Months, NEW y \in 1..Months, x < y, x + 1 \in 1..Months PROVE Boundary(x + 1) <= Boundary(y)
    <2>1. x + 1 = y \/ x + 1 < y
        BY <1>0, <1>3
    <2>2. Boundary(x + 1) \in Nat /\ Boundary(y) \in Nat
        BY <1>3, BoundaryFacts
    <2>3. CASE x + 1 = y
        BY <2>2, <2>3
    <2>4. CASE x + 1 < y
        <3>1. Boundary(x + 1) < Boundary(y)
            BY <1>3, <2>4, BoundaryOrder
        <3> QED
            BY <2>2, <3>1
    <2> QED
        BY <2>1, <2>3, <2>4
<1>4. ~(b < c)
    <2>1. b < c => Boundary(b + 1) <= Boundary(c)
        BY <1>1, <1>3
    <2> QED
        BY <1>2, <2>1 DEF InCycle
<1>5. ~(c < b)
    <2>1. c < b => Boundary(c + 1) <= Boundary(b)
        BY <1>1, <1>3
    <2> QED
        BY <1>2, <2>1 DEF InCycle
<1> QED
    BY <1>0, <1>4, <1>5

\* A time between the first and the last boundary is in a cycle.
LEMMA CycleExists ==
    ASSUME NEW t \in Nat, Boundary(1) <= t, t < Boundary(Months)
    PROVE  \E c : InCycle(t, c)
<1>0. Months \in Nat \ {0} /\ \A m \in 1..Months : Boundary(m) \in Nat
    BY CalendarNumbers, BoundaryFacts
<1> DEFINE U == {m \in 1..Months : Boundary(m) <= t}
<1>1. 1 \in U
    BY <1>0
<1>2. IsFiniteSet(U) /\ U \subseteq Int
    <2>1. IsFiniteSet(1..Months)
        BY <1>0, FS_Interval
    <2>2. U \in SUBSET (1..Months)
        OBVIOUS
    <2> HIDE DEF U
    <2>3. IsFiniteSet(U)
        BY <2>1, <2>2, FS_Subset
    <2> QED
        BY <2>2, <2>3
<1>3. PICK c \in U : \A x \in U : x <= c
    BY <1>1, <1>2, MaxExists
<1>4. c \in 1..(Months - 1)
    <2>1. c \in 1..Months /\ c # Months
        BY <1>0
    <2> QED
        BY <1>0, <2>1
<1>5. c + 1 \in 1..Months /\ c + 1 \notin U
    <2>1. c + 1 \in 1..Months /\ ~(c + 1 <= c)
        BY <1>0, <1>4
    <2> QED
        BY <1>3, <2>1
<1> QED
    BY <1>0, <1>4, <1>5 DEF InCycle

\* A time of cycle c is before the end of the calendar.
LEMMA CycleInside ==
    ASSUME NEW t \in Nat, NEW c, InCycle(t, c)
    PROVE  t < MonthStart[Months + 1]
<1>0. Months \in Nat /\ c + 1 \in 1..Months /\ Boundary(c + 1) \in Nat
    BY CalendarNumbers, BoundaryFacts DEF InCycle
<1>1. Boundary(c + 1) < MonthStart[(c + 1) + 1]
    BY <1>0, BoundaryFacts DEF InMonth
<1>2. MonthStart[(c + 1) + 1] <= MonthStart[Months + 1]
    <2>1. Months + 1 \in 1..(Months + 1) /\ c + 1 < Months + 1
        BY <1>0
    <2> QED
        BY <1>0, <2>1, MonthsApart
<1>3. MonthStart[(c + 1) + 1] \in Nat /\ MonthStart[Months + 1] \in Nat
    <2>1. Months + 1 \in 1..(Months + 1) /\ (c + 1) + 1 \in 1..(Months + 1)
        BY <1>0
    <2> QED
        BY <2>1, MonthFacts
<1> QED
    BY <1>0, <1>1, <1>2, <1>3 DEF InCycle

(* CycleStart and NextCycleReset find the boundaries around a time, for    *)
(* months of any lengths.                                                  *)
LEMMA CycleStartIs ==
    ASSUME NEW t \in Nat, NEW c, InCycle(t, c)
    PROVE  CycleStart(t) = Boundary(c) /\ NextCycleReset(t) = Boundary(c + 1)
<1>0. Months \in Nat /\ c \in 1..Months /\ c + 1 \in 1..Months /\ Boundary(c) \in Nat
      /\ Boundary(c) <= t /\ t < Boundary(c + 1)
    BY CalendarNumbers, BoundaryFacts DEF InCycle
<1>1. PICK m : InMonth(t, m)
    BY CycleInside, MonthExists
<1>2. m = MonthOf(t) /\ m \in 1..Months /\ MonthStart[m] \in Nat /\ MonthStart[m] <= t /\ t < MonthStart[m + 1]
    <2>1. m \in 1..Months /\ m \in 1..(Months + 1)
        BY <1>0, <1>1 DEF InMonth
    <2> QED
        BY <1>1, <2>1, MonthOfIs, MonthFacts DEF InMonth
<1>3. Date(m, clampDay(m, ResetDay), ResetHour) = Boundary(m) /\ Boundary(m) \in Nat
    BY <1>2, BoundaryFacts
<1>4. NextCycleReset(t) = Boundary(c + 1) \/ CycleStart(t) # Boundary(c)
    <2>1. MonthOf(Boundary(c)) = c
        BY <1>0, BoundaryFacts, MonthOfIs
    <2>2. AddMonths(Boundary(c), 1) = Boundary(c + 1)
        <3>1. MonthStart[c] \in Nat /\ MonthStart[c + 1] \in Nat /\ Offset \in Nat
            <4>1. c \in 1..(Months + 1) /\ c + 1 \in 1..(Months + 1)
                BY <1>0
            <4> QED
                BY <4>1, MonthFacts, CalendarNumbers
        <3>2. AddMonths(Boundary(c), 1) = MonthStart[c + 1] + (Boundary(c) - MonthStart[c])
            BY <2>1 DEF AddMonths
        <3> QED
            BY <3>1, <3>2 DEF Boundary
    <2>3. MonthOf(Boundary(c + 1)) = c + 1
        BY <1>0, BoundaryFacts, MonthOfIs
    <2>4. Date(c + 1, clampDay(c + 1, ResetDay), ResetHour) = Boundary(c + 1)
        BY <1>0, BoundaryFacts
    <2> QED
        BY <2>2, <2>3, <2>4 DEF NextCycleReset
<1>5. CASE Boundary(m) <= t
    <2>1. m # Months
        <3>0. Months \in 1..Months
            BY <1>0
        <3>1. c + 1 < Months => Boundary(c + 1) < Boundary(Months)
            BY <1>0, <3>0, BoundaryOrder
        <3>2. Boundary(c + 1) \in Nat /\ Boundary(Months) \in Nat
            BY <1>0, <3>0, BoundaryFacts
        <3>3. c + 1 = Months \/ c + 1 < Months
            BY <1>0
        <3>4. t < Boundary(Months)
            BY <1>0, <3>1, <3>2, <3>3
        <3> QED
            BY <1>5, <3>2, <3>4
    <2>2. m + 1 \in 1..Months /\ m \in 1..(Months - 1) /\ m + 1 \in 1..(Months + 1)
        BY <1>0, <1>2, <2>1
    <2>3. MonthStart[m + 1] <= Boundary(m + 1) /\ Boundary(m + 1) \in Nat /\ MonthStart[m + 1] \in Nat
        BY <2>2, BoundaryFacts, MonthFacts DEF InMonth
    <2>4. InCycle(t, m)
        BY <1>2, <1>5, <2>2, <2>3 DEF InCycle
    <2>5. m = c
        BY <2>4, OneCycle
    <2>6. CycleStart(t) = Boundary(m)
        BY <1>2, <1>3, <1>5 DEF CycleStart
    <2> QED
        BY <1>4, <2>5, <2>6
<1>6. CASE t < Boundary(m)
    <2>1. m # 1
        <3>1. 1 \in 1..Months /\ (1 = c \/ 1 < c)
            BY <1>0
        <3>2. 1 < c => Boundary(1) < Boundary(c)
            BY <1>0, <3>1, BoundaryOrder
        <3>3. Boundary(1) \in Nat
            BY <3>1, BoundaryFacts
        <3> QED
            BY <1>0, <1>6, <3>1, <3>2, <3>3
    <2> DEFINE p == m - 1
    <2>2. p \in 1..Months /\ p \in 1..(Months - 1) /\ p + 1 = m /\ m + -1 = p /\ p \in 1..(Months + 1)
        BY <1>0, <1>2, <2>1
    <2> HIDE DEF p
    <2>3. /\ MonthStart[p] \in Nat /\ MonthStart[m] = MonthStart[p] + MonthTicks(p)
          /\ MonthTicks(p) \in Nat /\ Offset \in Nat /\ Offset < MonthTicks(p)
        BY <2>2, MonthFacts, CalendarNumbers
    <2> DEFINE back == MonthStart[p] + (t - MonthStart[m])
    <2>4. AddMonths(t, -1) = back
        BY <1>2, <2>2 DEF AddMonths
    <2>5. back \in Nat /\ InMonth(back, p)
        BY <1>2, <1>6, <2>2, <2>3 DEF InMonth, Boundary
    <2>6. MonthOf(AddMonths(t, -1)) = p
        BY <2>4, <2>5, MonthOfIs
    <2>7. Date(p, clampDay(p, ResetDay), ResetHour) = Boundary(p) /\ Boundary(p) \in Nat
          /\ Boundary(p) < MonthStart[p + 1]
        BY <2>2, BoundaryFacts DEF InMonth
    <2>8. InCycle(t, p)
        BY <1>2, <1>6, <2>2, <2>7 DEF InCycle
    <2>9. p = c
        BY <2>8, OneCycle
    <2>10. ~(Boundary(m) <= t)
        BY <1>3, <1>6
    <2>11. CycleStart(t) = Boundary(p)
        BY <1>2, <1>3, <2>6, <2>7, <2>10 DEF CycleStart
    <2> QED
        BY <1>4, <2>9, <2>11
<1> QED
    BY <1>3, <1>5, <1>6

-----------------------------------------------------------------------------
(***************************************************************************)
(* Packages and cycles.  What a cycle's rows add up to is what its         *)
(* operators meant it to have, and a cycle to come has none yet.           *)
(***************************************************************************)
GrantInv ==
    /\ machine \in Machines /\ now \in machine.start..machine.last
    /\ DOMAIN packages \subseteq 0..now
    /\ granted \in [Boundaries -> [Limited -> Nat]]
    /\ \A b \in Boundaries : b > now => granted[b] = NoLimits
    /\ \A k \in Limited :
          SumOver(Column(packages, k), Since(CycleStart(now))) = granted[CycleStart(now)][k]

\* Every host's clock is inside a cycle of the calendar.
LEMMA NowInCycle ==
    ASSUME machine \in Machines, now \in machine.start..machine.last
    PROVE  now \in Nat /\ now <= LastTick /\ LastTick \in Nat /\ \E c : InCycle(now, c)
<1>1. 1 \in 1..Months /\ Months \in 1..Months
    BY CalendarNumbers
<1>2. /\ Boundary(1) = Date(1, ResetDay, ResetHour) /\ Boundary(1) \in Nat
      /\ Boundary(Months) = Date(Months, ResetDay, ResetHour) /\ Boundary(Months) \in Nat
    BY <1>1, BoundaryFacts
<1>3. /\ Boundary(1) <= machine.start /\ machine.start <= machine.last
      /\ machine.last <= LastTick /\ machine.last < Boundary(Months) /\ LastTick \in Nat
    BY <1>2, StretchAssumption DEF Months
<1>4. machine.start \in Nat /\ machine.last \in Nat
    BY ClockAssumption
<1>5. now \in Nat /\ now <= LastTick /\ Boundary(1) <= now /\ now < Boundary(Months)
    BY <1>2, <1>3, <1>4
<1> QED
    BY <1>3, <1>5, CycleExists

\* The configured boundaries are one for each month.
LEMMA BoundariesAre == Boundaries = {Boundary(m) : m \in 1..Months}
    BY BoundaryFacts DEF Boundaries, Months

\* The boundaries around a time.
LEMMA BoundariesAround ==
    ASSUME NEW t \in Nat, NEW c, InCycle(t, c)
    PROVE  /\ Boundary(c) \in Boundaries /\ Boundary(c + 1) \in Boundaries
           /\ Boundary(c) \in Nat /\ Boundary(c + 1) \in Nat /\ Boundaries \subseteq Nat
           /\ Boundary(c) <= t /\ t < Boundary(c + 1)
           /\ \A b \in Boundaries : b <= t => b <= Boundary(c)
           /\ \A b \in Boundaries : b > t => Boundary(c + 1) <= b
<1>0. Months \in Nat /\ c \in 1..(Months - 1) /\ Boundary(c) <= t /\ t < Boundary(c + 1)
    BY CalendarNumbers DEF InCycle
<1>1. c \in 1..Months /\ c + 1 \in 1..Months
    BY <1>0
<1>2. \A m \in 1..Months : Boundary(m) \in Nat
    BY BoundaryFacts
<1>3. ASSUME NEW m \in 1..Months, Boundary(m) <= t PROVE Boundary(m) <= Boundary(c)
    <2>1. CASE m <= c
        <3>1. m = c \/ m < c
            BY <1>0, <2>1
        <3>2. m < c => Boundary(m) < Boundary(c)
            BY <1>1, BoundaryOrder
        <3> QED
            BY <1>1, <1>2, <3>1, <3>2
    <2>2. CASE c < m
        <3>1. m = c + 1 \/ c + 1 < m
            BY <1>0, <2>2
        <3>2. c + 1 < m => Boundary(c + 1) < Boundary(m)
            BY <1>1, BoundaryOrder
        <3> QED
            BY <1>0, <1>1, <1>2, <1>3, <3>1, <3>2
    <2> QED
        BY <1>0, <2>1, <2>2
<1>4. ASSUME NEW m \in 1..Months, Boundary(m) > t PROVE Boundary(c + 1) <= Boundary(m)
    <2>1. CASE m <= c
        <3>1. m = c \/ m < c
            BY <1>0, <2>1
        <3>2. m < c => Boundary(m) < Boundary(c)
            BY <1>1, BoundaryOrder
        <3> QED
            BY <1>0, <1>1, <1>2, <1>4, <3>1, <3>2
    <2>2. CASE c < m
        <3>1. m = c + 1 \/ c + 1 < m
            BY <1>0, <2>2
        <3>2. c + 1 < m => Boundary(c + 1) < Boundary(m)
            BY <1>1, BoundaryOrder
        <3> QED
            BY <1>1, <1>2, <3>1, <3>2
    <2> QED
        BY <1>0, <2>1, <2>2
<1> QED
    BY <1>0, <1>1, <1>2, <1>3, <1>4, BoundariesAre

\* What the property's references pick: the boundaries around the clock.
LEMMA BoundariesChosen ==
    ASSUME NEW t \in Nat, NEW c, InCycle(t, c)
    PROVE  /\ Boundary(c) = CHOOSE b \in {x \in Boundaries : x <= t} :
                                \A d \in {x \in Boundaries : x <= t} : d <= b
           /\ Boundary(c + 1) = CHOOSE b \in Boundaries :
                                    b > t /\ \A d \in Boundaries : d > t => b <= d
<1>1. /\ Boundary(c) \in Boundaries /\ Boundary(c + 1) \in Boundaries
      /\ Boundary(c) \in Nat /\ Boundary(c + 1) \in Nat /\ Boundaries \subseteq Nat
      /\ Boundary(c) <= t /\ t < Boundary(c + 1)
      /\ \A b \in Boundaries : b <= t => b <= Boundary(c)
      /\ \A b \in Boundaries : b > t => Boundary(c + 1) <= b
    BY BoundariesAround
<1> DEFINE past == {x \in Boundaries : x <= t}
           P(b) == \A d \in past : d <= b
           N(b) == b > t /\ \A d \in Boundaries : d > t => b <= d
           low == Boundary(c)
           high == Boundary(c + 1)
<1> HIDE DEF low, high
<1>2. low \in past /\ P(low) /\ \A b \in past : P(b) => b = low
    BY <1>1 DEF low
<1>3. high \in Boundaries /\ N(high) /\ \A b \in Boundaries : N(b) => b = high
    BY <1>1 DEF high
<1> HIDE DEF past, P, N
<1>4. low = CHOOSE b \in past : P(b)
    BY <1>2
<1>5. high = CHOOSE b \in Boundaries : N(b)
    BY <1>3
<1> QED
    BY <1>4, <1>5 DEF past, P, N, low, high

\* Adding to a row adds to the sum of its column.
LEMMA PlusSum ==
    ASSUME NEW f, NEW K, IsFiniteSet(DOMAIN f), f \in [DOMAIN f -> [K -> Int]],
           NEW S, NEW t \in S, NEW row \in [K -> Int], NEW k \in K
    PROVE  SumOver(Column(Plus(f, t, row), k), S) = SumOver(Column(f, k), S) + row[k]
<1> DEFINE g == Plus(f, t, row)
           x == Column(f, k)
           y == Column(g, k)
           r == (DOMAIN f \cap S) \ {t}
<1>1. /\ DOMAIN g = DOMAIN f \cup {t} /\ \A u \in DOMAIN f \ {t} : g[u] = f[u]
      /\ g[t][k] = IF t \in DOMAIN f THEN f[t][k] + row[k] ELSE row[k]
    BY DEF Plus, Put
<1>2. /\ DOMAIN x = DOMAIN f /\ DOMAIN y = DOMAIN f \cup {t} /\ \A u \in DOMAIN f : x[u] \in Int
      /\ \A u \in r : y[u] = x[u]
      /\ y[t] = IF t \in DOMAIN f THEN x[t] + row[k] ELSE row[k]
    BY <1>1 DEF Column
<1>3. row[k] \in Int
    OBVIOUS
<1> HIDE DEF g, x, y
<1>4. IsFiniteSet(r) /\ t \notin r /\ \A u \in r : x[u] \in Int /\ y[u] \in Int
    <2>1. r \in SUBSET DOMAIN f
        OBVIOUS
    <2> QED
        BY <1>2, <2>1, FS_Subset
<1>5. Sum(y, r) = Sum(x, r) /\ Sum(x, r) \in Int
    BY <1>2, <1>4, SumCongruent, SumInt
<1>6. SumOver(y, S) = y[t] + Sum(y, r)
    <2>1. DOMAIN y \cap S = r \cup {t}
        BY <1>2
    <2>2. y[t] \in Int
        BY <1>2, <1>3
    <2> HIDE DEF r
    <2>3. Sum(y, r \cup {t}) = y[t] + Sum(y, r)
        BY <1>4, <2>2, SumAdd
    <2> QED
        BY <2>1, <2>3, SumOverSum
<1>7. CASE t \in DOMAIN f
    <2>1. DOMAIN x \cap S = r \cup {t} /\ x[t] \in Int
        BY <1>2, <1>7
    <2> HIDE DEF r
    <2>2. Sum(x, r \cup {t}) = x[t] + Sum(x, r)
        BY <1>4, <2>1, SumAdd
    <2>3. SumOver(x, S) = x[t] + Sum(x, r)
        BY <2>1, <2>2, SumOverSum
    <2>4. SumOver(y, S) = SumOver(x, S) + row[k]
        BY <1>2, <1>3, <1>5, <1>6, <1>7, <2>1, <2>3
    <2> QED
        BY <2>4 DEF g, x, y
<1>8. CASE t \notin DOMAIN f
    <2>1. DOMAIN x \cap S = r
        BY <1>2, <1>8
    <2> HIDE DEF r
    <2>2. SumOver(x, S) = Sum(x, r)
        BY <2>1, SumOverSum
    <2>3. SumOver(y, S) = SumOver(x, S) + row[k]
        BY <1>2, <1>3, <1>5, <1>6, <1>8, <2>2
    <2> QED
        BY <2>3 DEF g, x, y
<1> QED
    BY <1>7, <1>8

Kept(f, U, g) == g = [t \in DOMAIN f \cap U |-> f[t]]

\* Deleting rows outside a stretch of time leaves the sums over it.
LEMMA KeptSum ==
    ASSUME NEW f, NEW K, IsFiniteSet(DOMAIN f), f \in [DOMAIN f -> [K -> Int]],
           NEW U, NEW S, S \subseteq U, NEW k \in K, NEW g, Kept(f, U, g)
    PROVE  SumOver(Column(g, k), S) = SumOver(Column(f, k), S)
<1> DEFINE x == Column(f, k)
           y == Column(g, k)
           r == DOMAIN f \cap S
<1>1. /\ DOMAIN x \cap S = r /\ DOMAIN y \cap S = r
      /\ \A u \in r : y[u] = x[u] /\ x[u] \in Int
    BY DEF Column, Kept
<1>2. IsFiniteSet(r)
    BY FS_Subset
<1> HIDE DEF x, y, r
<1>3. Sum(y, r) = Sum(x, r)
    BY <1>1, <1>2, SumCongruent
<1>4. SumOver(y, S) = SumOver(x, S)
    BY <1>1, <1>3, SumOverSum
<1> QED
    BY <1>4 DEF x, y

\* What GrantInv says of the clock and the running cycle.
LEMMA RunningCycle ==
    ASSUME GrantInv
    PROVE  \E c : /\ InCycle(now, c) /\ CycleStart(now) = Boundary(c)
                  /\ NextCycleReset(now) = Boundary(c + 1)
                  /\ CycleStart(now) \in Boundaries /\ CycleStart(now) \in Nat
                  /\ CycleStart(now) <= now /\ now \in Since(CycleStart(now))
                  /\ now - HistoryRetention <= CycleStart(now)
                  /\ now \in Nat /\ now <= LastTick /\ LastTick \in Nat
<1>1. now \in Nat /\ now <= LastTick /\ LastTick \in Nat /\ \E c : InCycle(now, c)
    BY NowInCycle DEF GrantInv
<1>2. PICK c : InCycle(now, c)
    BY <1>1
<1>3. CycleStart(now) = Boundary(c) /\ NextCycleReset(now) = Boundary(c + 1)
    BY <1>1, <1>2, CycleStartIs
<1>4. /\ Boundary(c) \in Boundaries /\ Boundary(c) \in Nat /\ Boundary(c + 1) \in Nat
      /\ Boundary(c) <= now /\ now < Boundary(c + 1)
    BY <1>1, <1>2, BoundariesAround
<1>5. now \in Since(Boundary(c))
    BY <1>1, <1>4 DEF Since
<1>6. now - HistoryRetention <= Boundary(c)
    <2>1. c \in 1..Months /\ c < Months
        BY <1>2, CalendarNumbers DEF InCycle
    <2>2. Boundary(c + 1) = Boundary(c) + MonthTicks(c) /\ MonthTicks(c) \in Nat
        BY <2>1, BoundaryFacts, CalendarNumbers
    <2>3. MonthTicks(c) <= HistoryRetention /\ HistoryRetention \in Nat
        BY <2>1, StretchAssumption, ClockAssumption DEF MonthTicks, Months
    <2> QED
        BY <1>1, <1>4, <2>2, <2>3
<1> QED
    BY <1>1, <1>2, <1>3, <1>4, <1>5, <1>6

\* A step that leaves the clock and the packages alone keeps the invariant.
LEMMA GrantFrame ==
    ASSUME GrantInv, machine' = machine, now' = now, packages' = packages, granted' = granted
    PROVE  GrantInv'
<1>1. CycleStart(now)' = CycleStart(now)
    BY DEF CycleStart, AddMonths, MonthOf
<1> QED
    BY <1>1, Zenon DEF GrantInv

\* The package a cycle is set to is what its rows then add up to.
LEMMA Regranted ==
    ASSUME GrantInv, SignedRows, NEW target \in [Limited -> Nat], adjustPackage(target),
           granted' = [granted EXCEPT ![CycleStart(now)] = target],
           machine' = machine, now' = now
    PROVE  GrantInv'
<1> DEFINE s == CycleStart(now)
           P == PackageSince(s)
           row == [k \in DOMAIN target |-> target[k] - P[k]]
<1>1. PICK c : InCycle(now, c) /\ s \in Boundaries /\ s \in Nat /\ s <= now /\ now \in Since(s) /\ now \in Nat
    BY RunningCycle
<1>2. P \in [Limited -> Nat]
    BY PackageType
<1>3. packages' = Plus(packages, now, row)
    BY DEF adjustPackage
<1>4. CycleStart(now)' = s
    BY DEF CycleStart, AddMonths, MonthOf
<1>5. /\ granted \in [Boundaries -> [Limited -> Nat]] /\ DOMAIN packages \subseteq 0..now
      /\ \A b \in Boundaries : b > now => granted[b] = NoLimits
      /\ \A k \in Limited : SumOver(Column(packages, k), Since(s)) = granted[s][k]
    BY DEF GrantInv
<1>6. \A k \in Limited : P[k] = granted[s][k]
    <2> SUFFICES ASSUME NEW k \in Limited PROVE P[k] = granted[s][k]
        OBVIOUS
    <2>1. SumOver(Column(packages, k), Since(s)) \in Nat
        BY <1>1, <1>5
    <2>2. P[k] = NonNegative(SumOver(Column(packages, k), Since(s)))
        BY DEF PackageSince, Limited
    <2> QED
        BY <1>5, <2>1, <2>2 DEF NonNegative
<1> HIDE DEF P
<1>7. row \in [Limited -> Int]
    BY <1>2
<1> HIDE DEF s
<1>8. ASSUME NEW k \in Limited PROVE SumOver(Column(packages', k), Since(s)) = target[k]
    <2>1. row[k] = target[k] - P[k] /\ P[k] \in Nat /\ target[k] \in Nat
        BY <1>2
    <2> HIDE DEF row
    <2>2. SumOver(Column(Plus(packages, now, row), k), Since(s)) = SumOver(Column(packages, k), Since(s)) + row[k]
        BY <1>1, <1>7, PlusSum DEF SignedRows
    <2> QED
        BY <1>3, <1>5, <1>6, <2>1, <2>2
<1>9. granted' \in [Boundaries -> [Limited -> Nat]] /\ granted'[s] = target
      /\ \A b \in Boundaries : b # s => granted'[b] = granted[b]
    BY <1>1, <1>5 DEF s
<1>10. DOMAIN packages' \subseteq 0..now'
    BY <1>1, <1>3, <1>5 DEF Plus, Put
<1>11. \A b \in Boundaries : b > now' => granted'[b] = NoLimits
    BY <1>1, <1>5, <1>9
<1>12. \A k \in Limited : SumOver(Column(packages', k), Since(s)) = granted'[s][k]
    BY <1>8, <1>9
<1>13. machine' \in Machines /\ now' \in machine'.start..machine'.last
    BY DEF GrantInv
<1> QED
    BY <1>4, <1>9, <1>10, <1>11, <1>12, <1>13, Zenon DEF GrantInv

\* Replacing the usage empties the cycle's package.
LEMMA ReplaceGrants ==
    ASSUME GrantInv, SignedRows, NEW cycle, ReplaceCurrentTrafficUsage(cycle),
           machine' = machine, now' = now
    PROVE  GrantInv'
<1>1. NoLimits \in [Limited -> Nat]
    BY DEF NoLimits, Limited
<1> QED
    BY <1>1, Regranted DEF ReplaceCurrentTrafficUsage

\* Granting adds to it.
LEMMA GrantGrants ==
    ASSUME GrantInv, SignedRows, NEW cycle, NEW pkg \in Grants,
           GrantCurrentTrafficPackage(cycle, pkg), machine' = machine, now' = now
    PROVE  GrantInv'
<1> DEFINE P == PackageSince(CycleStart(now))
<1>1. P \in [Limited -> Nat]
    BY PackageType
<1>2. pkg \in [Limited -> 0..MaxUint] /\ MaxUint \in Nat
    BY LimitAssumption DEF Limited, MaxUint
<1>3. Topped(pkg) = [k \in DOMAIN pkg |-> saturatingAdd(P[k], pkg[k])]
    BY DEF Topped
<1> HIDE DEF P
<1>4. \A k \in Limited : saturatingAdd(P[k], pkg[k]) \in Nat
    BY <1>1, <1>2 DEF saturatingAdd
<1>5. Topped(pkg) \in [Limited -> Nat]
    BY <1>2, <1>3, <1>4
<1> QED
    BY <1>5, Regranted DEF GrantCurrentTrafficPackage

\* The clock moves on in its cycle, or into one that has no rows yet.
LEMMA TickGrants ==
    ASSUME GrantInv, SignedRows, Tick
    PROVE  GrantInv'
<1>0. /\ machine' = machine /\ now' = now + 1 /\ packages' = packages /\ granted' = granted
      /\ now < machine.last
    BY DEF Tick, store
<1>g. /\ machine \in Machines /\ now \in machine.start..machine.last
      /\ DOMAIN packages \subseteq 0..now
      /\ granted \in [Boundaries -> [Limited -> Nat]]
      /\ \A b \in Boundaries : b > now => granted[b] = NoLimits
      /\ \A k \in Limited :
            SumOver(Column(packages, k), Since(CycleStart(now))) = granted[CycleStart(now)][k]
    BY DEF GrantInv
<1>1. PICK c : /\ InCycle(now, c) /\ CycleStart(now) = Boundary(c) /\ now \in Nat
               /\ CycleStart(now) \in Nat
    BY RunningCycle
<1>2. machine.start \in Nat /\ machine.last \in Nat
    BY <1>g, ClockAssumption
<1>3. machine' \in Machines /\ now' \in machine'.start..machine'.last /\ now + 1 \in Nat
    BY <1>0, <1>g, <1>1, <1>2
<1>4. PICK e : InCycle(now + 1, e)
    <2>1. now' \in machine.start..machine.last
        BY <1>0, <1>3
    <2>2. /\ Boundary(1) \in Nat /\ Boundary(Months) \in Nat
          /\ Boundary(1) <= machine.start /\ machine.last < Boundary(Months)
        <3>1. 1 \in 1..Months /\ Months \in 1..Months
            BY CalendarNumbers
        <3>2. /\ Boundary(1) = Date(1, ResetDay, ResetHour) /\ Boundary(1) \in Nat
              /\ Boundary(Months) = Date(Months, ResetDay, ResetHour) /\ Boundary(Months) \in Nat
            BY <3>1, BoundaryFacts
        <3> QED
            BY <1>g, <3>2, StretchAssumption DEF Months
    <2>3. Boundary(1) <= now + 1 /\ now + 1 < Boundary(Months)
        BY <1>0, <1>2, <1>3, <2>1, <2>2
    <2> QED
        BY <1>3, <2>3, CycleExists
<1>5. CycleStart(now + 1) = Boundary(e)
    BY <1>3, <1>4, CycleStartIs
<1>6. /\ Boundary(e) \in Boundaries /\ Boundary(e) \in Nat /\ Boundary(e) <= now + 1
      /\ Boundary(e + 1) \in Nat /\ now + 1 < Boundary(e + 1)
    BY <1>3, <1>4, BoundariesAround
<1>7. CycleStart(now)' = Boundary(e)
    <2>1. CycleStart(now)' = CycleStart(now + 1)
        BY <1>0 DEF CycleStart, AddMonths, MonthOf
    <2> QED
        BY <1>5, <2>1
<1>8. DOMAIN packages' \subseteq 0..now'
    BY <1>0, <1>g, <1>1
<1>9. \A b \in Boundaries : b > now' => granted'[b] = NoLimits
    <2>1. Boundaries \subseteq Nat
        BY <1>1, BoundariesAround
    <2> QED
        BY <1>0, <1>g, <1>1, <2>1
<1>10. ASSUME NEW k \in Limited PROVE SumOver(Column(packages, k), Since(Boundary(e))) = granted[Boundary(e)][k]
    <2>1. CASE Boundary(e) <= now
        <3>1. InCycle(now, e)
            BY <1>1, <1>4, <1>6, <2>1 DEF InCycle
        <3>2. e = c
            BY <1>1, <3>1, OneCycle
        <3> QED
            BY <1>g, <1>1, <3>2
    <2>2. CASE Boundary(e) > now
        <3>1. granted[Boundary(e)][k] = 0
            BY <1>g, <1>6, <2>2 DEF NoLimits, Limited
        <3>2. DOMAIN Column(packages, k) \cap Since(Boundary(e)) = {}
            BY <1>g, <1>1, <1>6, <2>2 DEF Column, Since
        <3>3. SumOver(Column(packages, k), Since(Boundary(e))) = 0
            BY <3>2, SumOverSum, SumEmpty
        <3> QED
            BY <3>1, <3>3
    <2> QED
        BY <1>1, <1>6, <2>1, <2>2
<1> QED
    BY <1>0, <1>g, <1>3, <1>7, <1>8, <1>9, <1>10, Zenon DEF GrantInv

\* maintenance deletes package rows of cycles long gone.
LEMMA maintenanceGrants ==
    ASSUME GrantInv, SignedRows, maintenance
    PROVE  GrantInv'
<1> DEFINE s == CycleStart(now)
           U == Since(now - HistoryRetention)
<1>0. /\ machine' = machine /\ now' = now /\ granted' = granted
      /\ packages' = [t \in DOMAIN packages \cap U |-> packages[t]]
    BY DEF maintenance
<1>1. PICK c : InCycle(now, c) /\ s \in Nat /\ now - HistoryRetention <= s /\ now \in Nat /\ LastTick \in Nat
    BY RunningCycle
<1>2. Since(s) \subseteq U
    BY <1>1, ClockAssumption DEF Since
<1>3. s' = s
    BY <1>0 DEF CycleStart, AddMonths, MonthOf
<1>4. ASSUME NEW k \in Limited
      PROVE SumOver(Column(packages', k), Since(s)) = SumOver(Column(packages, k), Since(s))
    <2> DEFINE S == Since(s)
    <2>1. IsFiniteSet(DOMAIN packages) /\ packages \in [DOMAIN packages -> [Limited -> Int]] /\ S \subseteq U
          /\ Kept(packages, U, packages')
        BY <1>0, <1>2 DEF SignedRows, Kept
    <2> HIDE DEF S, U
    <2>2. SumOver(Column(packages', k), S) = SumOver(Column(packages, k), S)
        BY <2>1, KeptSum
    <2> QED
        BY <2>2 DEF S
<1>5. DOMAIN packages' \subseteq 0..now'
    BY <1>0 DEF GrantInv
<1> QED
    BY <1>0, <1>3, <1>4, <1>5, Zenon DEF GrantInv

\* What most steps leave alone: the clock, the packages, and every raw row.
Undisturbed == /\ machine' = machine /\ now' = now /\ packages' = packages /\ granted' = granted
               /\ DOMAIN samples \subseteq DOMAIN samples'

\* The sampler's steps only add raw rows.
LEMMA SamplingUndisturbed ==
    ASSUME Sampling
    PROVE  Undisturbed
<1>1. CASE sampleOnce
    BY <1>1 DEF sampleOnce, Put, Undisturbed
<1>2. CASE reconcileQuota \/ PersistStop \/ StopSingBox \/ StartSingBox \/ ClearStop
    BY <1>2 DEF reconcileQuota, PersistStop, StopSingBox, StartSingBox, ClearStop, Undisturbed, store
<1>3. CASE ipSampleOnce \/ CollectFails \/ AccountingDisabled
    BY <1>3 DEF ipSampleOnce, CollectFails, AccountingDisabled, Undisturbed, store
<1> QED
    BY <1>1, <1>2, <1>3 DEF Sampling

\* Nor do the supervisor and systemd touch them.
LEMMA SupervisingUndisturbed ==
    ASSUME Supervising
    PROVE  Undisturbed
<1>1. CASE RetryFires \/ reload \/ StartMonitor \/ SystemdStarts
    BY <1>1 DEF RetryFires, reload, StartMonitor, SystemdStarts, Undisturbed, store
<1>2. CASE ReleaseQuotaStop \/ ReleaseClears \/ OrphanStops \/ OrphanStarts
    BY <1>2 DEF ReleaseQuotaStop, ReleaseClears, OrphanStops, OrphanStarts, Undisturbed, store
<1> QED
    BY <1>1, <1>2 DEF Supervising

\* Nor does a failure, a crash or a reboot.
LEMMA FailingUndisturbed ==
    ASSUME Failing
    PROVE  Undisturbed
<1>1. CASE InsertSampleFails \/ ReconcileFails \/ AddIPTrafficFails \/ StartMonitorFails
    BY <1>1 DEF InsertSampleFails, ReconcileFails, AddIPTrafficFails, StartMonitorFails, Undisturbed, store
<1>2. CASE StartsBlind \/ ReleaseFails \/ Crash \/ Reboot \/ FlushTable
    BY <1>2 DEF StartsBlind, ReleaseFails, Crash, Reboot, FlushTable, Undisturbed, store
<1> QED
    BY <1>1, <1>2 DEF Failing

\* Nor does a change of the configuration.
LEMMA ConfiguringUndisturbed ==
    ASSUME Configuring
    PROVE  Undisturbed
<1>1. CASE \E m \in BOOLEAN, l \in LimitChoices : applySpokeMonitor([monitor |-> m, limits |-> l])
    BY <1>1 DEF applySpokeMonitor, Undisturbed, store
<1>2. CASE \E l \in LimitChoices : applyManageMonitorService(l)
    BY <1>2 DEF applyManageMonitorService, Undisturbed, store
<1>3. CASE runMonitorServiceAction \/ ResetHistory
    BY <1>3 DEF runMonitorServiceAction, ResetHistory, Undisturbed, store
<1> QED
    BY <1>1, <1>2, <1>3 DEF Configuring

\* An adjustment sets the running cycle's package or leaves it.
LEMMA AdjustingGrants ==
    ASSUME IInv, GrantInv, Adjusting
    PROVE  GrantInv' /\ DOMAIN samples \subseteq DOMAIN samples'
<1>0. SignedRows
    BY DEF IInv
<1>1. CASE ReadUsage \/ SetUsageHalfway \/ TrafficCycleChanged
    <2>1. Undisturbed
        BY <1>1 DEF ReadUsage, SetUsageHalfway, TrafficCycleChanged, Undisturbed, store
    <2> QED
        BY <2>1, GrantFrame DEF Undisturbed
<1>2. CASE SetCurrentTrafficUsage
    BY <1>0, <1>2, ReplaceGrants DEF SetCurrentTrafficUsage
<1>3. CASE withStoredTrafficUsage
    BY <1>0, <1>3, ReplaceGrants, GrantGrants DEF withStoredTrafficUsage
<1>4. CASE setManageCurrentTrafficTotals
    BY <1>0, <1>4, ReplaceGrants DEF setManageCurrentTrafficTotals
<1>5. CASE \E pkg \in Grants : GrantTrafficPackage(pkg) \/ AddTrafficPackage(pkg)
    BY <1>0, <1>5, GrantGrants DEF GrantTrafficPackage, AddTrafficPackage
<1> QED
    BY <1>1, <1>2, <1>3, <1>4, <1>5 DEF Adjusting

\* Initially no cycle has a package.
LEMMA InitGrants ==
    ASSUME Init
    PROVE  GrantInv
<1>0. /\ machine \in Machines /\ now = machine.start /\ packages = Empty
      /\ granted = [c \in Boundaries |-> NoLimits]
    BY DEF Init
<1>1. now \in machine.start..machine.last
    BY <1>0, ClockAssumption, StretchAssumption
<1>2. NoLimits \in [Limited -> Nat] /\ \A k \in Limited : NoLimits[k] = 0
    BY DEF NoLimits, Limited
<1>3. DOMAIN packages = {}
    BY <1>0 DEF Empty
<1>4. PICK c : InCycle(now, c) /\ now \in Nat
    BY <1>0, <1>1, NowInCycle
<1>5. CycleStart(now) \in Boundaries
    BY <1>4, CycleStartIs, BoundariesAround
<1>6. ASSUME NEW k \in Limited
      PROVE SumOver(Column(packages, k), Since(CycleStart(now))) = granted[CycleStart(now)][k]
    <2>1. DOMAIN Column(packages, k) \cap Since(CycleStart(now)) = {}
        BY <1>3 DEF Column
    <2>2. SumOver(Column(packages, k), Since(CycleStart(now))) = 0
        BY <2>1, SumOverSum, SumEmpty
    <2> QED
        BY <1>0, <1>2, <1>5, <2>2
<1> QED
    BY <1>0, <1>1, <1>2, <1>3, <1>6 DEF GrantInv

\* Only maintenance drops raw rows, and every step keeps the grants.
LEMMA GrantStep ==
    ASSUME IInv, GrantInv, [Next]_vars
    PROVE  GrantInv' /\ (maintenance \/ DOMAIN samples \subseteq DOMAIN samples')
<1>0. SignedRows
    BY DEF IInv
<1>1. CASE Adjusting
    BY <1>1, AdjustingGrants
<1>2. CASE Sampling \/ Supervising \/ Failing \/ Configuring
    <2>1. Undisturbed
        BY <1>2, SamplingUndisturbed, SupervisingUndisturbed, FailingUndisturbed, ConfiguringUndisturbed
    <2> QED
        BY <2>1, GrantFrame DEF Undisturbed
<1>3. CASE Tick
    BY <1>0, <1>3, TickGrants DEF Tick, store
<1>4. CASE OperatorStops \/ OperatorStarts \/ \E d \in Directions, a \in Addresses : Carry(d, a)
    <2>1. Undisturbed
        BY <1>4 DEF OperatorStops, OperatorStarts, Carry, Undisturbed, store
    <2> QED
        BY <2>1, GrantFrame DEF Undisturbed
<1>5. CASE maintenance
    BY <1>0, <1>5, maintenanceGrants
<1>6. CASE UNCHANGED vars
    <2>1. Undisturbed
        BY <1>6 DEF vars, Undisturbed
    <2> QED
        BY <2>1, GrantFrame DEF Undisturbed
<1> QED
    BY <1>1, <1>2, <1>3, <1>4, <1>5, <1>6 DEF Next, World

\* The package of the running cycle and the next reset are the right ones.
LEMMA GrantsFollow ==
    ASSUME GrantInv
    PROVE  PackagesStayInTheirCycle
<1> DEFINE s == CycleStart(now)
           past == {b \in Boundaries : b <= now}
           cycle == CHOOSE b \in past : \A c \in past : c <= b
           reset == CHOOSE b \in Boundaries : b > now /\ \A c \in Boundaries : c > now => b <= c
<1>1. PICK c : /\ InCycle(now, c) /\ s = Boundary(c) /\ NextCycleReset(now) = Boundary(c + 1)
               /\ s \in Boundaries /\ now \in Nat
    BY RunningCycle
<1>2. cycle = s /\ reset = NextCycleReset(now)
    BY <1>1, BoundariesChosen
<1>3. /\ granted[s] \in [Limited -> Nat]
      /\ \A k \in Limited : SumOver(Column(packages, k), Since(s)) = granted[s][k]
    BY <1>1 DEF GrantInv
<1>4. \A k \in Limited : NonNegative(SumOver(Column(packages, k), Since(s))) = granted[s][k]
    <2> HIDE DEF s
    <2> QED
        BY <1>3 DEF NonNegative
<1>5. PackageSince(s) = [k \in Limited |-> NonNegative(SumOver(Column(packages, k), Since(s)))]
    BY DEF PackageSince, Limited
<1>6. PackageSince(s) = granted[s]
    <2> HIDE DEF s
    <2> QED
        BY <1>3, <1>4, <1>5
<1> HIDE DEF s, cycle, reset
<1>7. PackageSince(s) = granted[cycle] /\ NextCycleReset(now) = reset
    BY <1>2, <1>6
<1> QED
    BY <1>7 DEF PackagesStayInTheirCycle, s, cycle, reset, past

\* Every grant is in the cycle it was meant for, in every run.
THEOREM GrantsInvariance == Spec => [](IInv /\ GrantInv)
<1>1. Init => IInv /\ GrantInv
    BY InitEstablishes, InitGrants
<1>2. IInv /\ GrantInv /\ IInv' /\ [Next]_vars => GrantInv'
    BY GrantStep
<1>3. Spec => []IInv
    BY Invariance
<1> QED
    BY <1>1, <1>2, <1>3, PTL DEF Spec

(***************************************************************************)
(* A package counts in the cycle its operator saw and in no other, and the *)
(* reset the dashboard announces is the next configured boundary, for      *)
(* months of any lengths that hold the day of the reset.                   *)
(***************************************************************************)
THEOREM PackagesLapse == Spec => []PackagesStayInTheirCycle
<1>1. GrantInv => PackagesStayInTheirCycle
    BY GrantsFollow
<1>2. Spec => [](IInv /\ GrantInv)
    BY GrantsInvariance
<1> QED
    BY <1>1, <1>2, PTL

-----------------------------------------------------------------------------
(***************************************************************************)
(* Folding and the running cycle.  A boundary is on an hour, so a row and  *)
(* the hour it is folded into are in the same cycle.                       *)
(***************************************************************************)
LEMMA HourInCycle ==
    ASSUME NEW t \in Nat, NEW s \in Nat, \E q \in Nat : s = q * TicksPerHour
    PROVE  HourOf(t) \in Nat /\ HourOf(t) <= t /\ (s <= t <=> s <= HourOf(t))
<1> DEFINE h == TicksPerHour
           a == t \div h
<1>1. h \in Nat \ {0}
    BY CalendarNumbers
<1>2. PICK q \in Nat : s = q * h
    OBVIOUS
<1> HIDE DEF h
<1>3. a \in Nat /\ a * h <= t /\ t < a * h + h /\ a * h \in Nat
    <2>1. \A x \in Nat : \A y \in Nat \ {0} :
             /\ x \div y \in Nat /\ (x \div y) * y \in Nat
             /\ (x \div y) * y <= x /\ x < (x \div y) * y + y
        OBVIOUS
    <2> QED
        BY <1>1, <2>1
<1>4. HourOf(t) = a * h
    BY DEF HourOf, h
<1> HIDE DEF a
<1>5. \A x, y, z \in Nat : (x + y) * z = x * z + y * z /\ y * z \in Nat /\ 1 * z = z
    OBVIOUS
<1>6. CASE q <= a
    <2>1. a - q \in Nat /\ a = q + (a - q)
        BY <1>3, <1>6
    <2> DEFINE e == a - q
    <2> HIDE DEF e
    <2>2. e \in Nat /\ a = q + e
        BY <2>1 DEF e
    <2>3. a * h = q * h + e * h /\ e * h \in Nat
        BY <1>1, <1>5, <2>2
    <2>4. s <= a * h
        BY <1>2, <2>3
    <2> QED
        BY <1>2, <1>3, <1>4, <2>4
<1>7. CASE a < q
    <2> DEFINE e == q - a - 1
    <2>1. e \in Nat /\ q = (a + 1) + e
        BY <1>3, <1>7
    <2> HIDE DEF e
    <2>2. q * h = (a + 1) * h + e * h /\ e * h \in Nat /\ (a + 1) * h = a * h + 1 * h /\ 1 * h = h
        BY <1>1, <1>3, <1>5, <2>1
    <2>3. t < s
        BY <1>1, <1>2, <1>3, <2>2
    <2> QED
        BY <1>2, <1>3, <1>4, <2>3
<1> QED
    BY <1>3, <1>6, <1>7

\* The rows of f in S, on their own.
Part(f, S) == [t \in DOMAIN f \cap S |-> f[t]]

\* A sum over S is the total of the rows in S.
LEMMA PartTotal ==
    ASSUME NEW f, NEW S, Rows(f)
    PROVE  Rows(Part(f, S)) /\ SumOver(f, S) = Total(Part(f, S)) /\ SumOver(f, S) \in Nat
<1> DEFINE p == Part(f, S)
           r == DOMAIN f \cap S
<1>1. /\ IsFiniteSet(DOMAIN f) /\ DOMAIN f \subseteq Nat /\ f \in [DOMAIN f -> Nat]
    BY DEF Rows
<1>2. IsFiniteSet(r) /\ r \subseteq Nat
    BY <1>1, FS_Subset
<1>3. p = [t \in r |-> f[t]] /\ DOMAIN p = r /\ \A t \in r : p[t] = f[t] /\ f[t] \in Nat
    BY <1>1 DEF Part
<1> HIDE DEF p, r
<1>4. Rows(p)
    BY <1>2, <1>3 DEF Rows
<1>5. Sum(f, r) = Sum(p, r) /\ Sum(f, r) \in Nat
    BY <1>2, <1>3, SumCongruent, SumNat
<1>6. SumOver(f, S) = Sum(f, r)
    BY SumOverSum DEF r
<1> QED
    BY <1>3, <1>4, <1>5, <1>6 DEF Total, p

\* Folding rows into hours of the same stretch keeps the sum over it.
LEMMA FoldSince ==
    ASSUME NEW f, Rows(f), NEW g, Rows(g), NEW before, NEW S,
           \A t \in DOMAIN f : t \in S <=> HourOf(t) \in S
    PROVE  SumOver(HourFold(f, g, before).raw, S) + SumOver(HourFold(f, g, before).into, S)
               = SumOver(f, S) + SumOver(g, S)
<1> DEFINE F == HourFold(f, g, before)
           O == {t \in DOMAIN f : t < before}
           fp == Part(f, S)
           gp == Part(g, S)
           Op == O \cap S
           fl == [t \in Op |-> HourOf(t)]
           raw == [t \in DOMAIN fp \ Op |-> fp[t]]
           into == [b \in DOMAIN gp \cup {fl[t] : t \in Op} |->
                       (IF b \in DOMAIN gp THEN gp[b] ELSE 0) + SumOver(fp, {t \in Op : fl[t] = b})]
<1>1. Rows(fp) /\ SumOver(f, S) = Total(fp) /\ Rows(gp) /\ SumOver(g, S) = Total(gp)
    BY PartTotal
<1>2. fl \in [Op -> Nat]
    BY FloorNat DEF Rows
<1>3. Op \in SUBSET DOMAIN fp
    BY DEF Part
<1>4. Folds(fp, gp, Op, fl, raw, into)
    <2> HIDE DEF fp, gp, Op, fl
    <2> QED
        BY <1>1, <1>2, <1>3 DEF Folds
<1>5. Rows(raw) /\ Rows(into) /\ Total(raw) + Total(into) = Total(fp) + Total(gp)
    <2> HIDE DEF fp, gp, Op, fl, raw, into
    <2> QED
        BY <1>4, Folding
<1>6. Rows(F.raw) /\ Rows(F.into)
    BY FoldedHours
<1>7. F.raw = [t \in DOMAIN f \ O |-> f[t]]
    BY DEF HourFold, Folded
<1>8. F.into = [b \in DOMAIN g \cup {HourOf(t) : t \in O} |->
                   (IF b \in DOMAIN g THEN g[b] ELSE 0) + SumOver(f, {t \in O : HourOf(t) = b})]
    BY DEF HourFold, Folded
<1>9. Part(F.raw, S) = raw
    <2>1. Part(F.raw, S) = [t \in (DOMAIN f \ O) \cap S |-> f[t]]
        <3> HIDE DEF F, O
        <3> QED
            BY <1>7 DEF Part
    <2>2. DOMAIN fp = DOMAIN f \cap S /\ \A t \in DOMAIN f \cap S : fp[t] = f[t]
        BY DEF Part
    <2>3. (DOMAIN f \ O) \cap S = DOMAIN fp \ Op
        BY <2>2
    <2> HIDE DEF fp, Op, O
    <2> QED
        BY <2>1, <2>2, <2>3
<1>10. Part(F.into, S) = into
    <2>1. DOMAIN gp = DOMAIN g \cap S /\ \A b \in DOMAIN gp : gp[b] = g[b]
        BY DEF Part
    <2>2. (DOMAIN g \cup {HourOf(t) : t \in O}) \cap S = DOMAIN gp \cup {fl[t] : t \in Op}
        BY <2>1
    <2>3. ASSUME NEW b \in S PROVE SumOver(f, {t \in O : HourOf(t) = b}) = SumOver(fp, {t \in Op : fl[t] = b})
        <3> DEFINE X == {t \in O : HourOf(t) = b}
        <3>1. X = {t \in Op : fl[t] = b}
            OBVIOUS
        <3>2. DOMAIN f \cap X = X /\ DOMAIN fp \cap X = X /\ \A t \in X : f[t] = fp[t]
            BY <3>1 DEF Part
        <3>3. IsFiniteSet(X)
            BY FS_Subset DEF Rows
        <3>4. \A t \in X : f[t] \in Int
            BY DEF Rows
        <3> HIDE DEF X, fp
        <3>5. Sum(f, X) = Sum(fp, X)
            BY <3>2, <3>3, <3>4, SumCongruent
        <3>6. SumOver(f, X) = SumOver(fp, X)
            BY <3>2, <3>5, SumOverSum
        <3> QED
            BY <3>1, <3>6 DEF X
    <2>4. Part(F.into, S) = [b \in DOMAIN F.into \cap S |-> F.into[b]]
        BY DEF Part
    <2>5. DOMAIN F.into = DOMAIN g \cup {HourOf(t) : t \in O}
          /\ \A b \in DOMAIN F.into : F.into[b] = (IF b \in DOMAIN g THEN g[b] ELSE 0) + SumOver(f, {t \in O : HourOf(t) = b})
        <3> HIDE DEF F, O
        <3> QED
            BY <1>8
    <2>6. \A b \in DOMAIN F.into \cap S : F.into[b] = (IF b \in DOMAIN gp THEN gp[b] ELSE 0) + SumOver(fp, {t \in Op : fl[t] = b})
        <3> HIDE DEF F, O, Op, fl, fp, gp
        <3> QED
            BY <2>1, <2>3, <2>5
    <2>7. DOMAIN F.into \cap S = DOMAIN gp \cup {fl[t] : t \in Op}
        BY <2>2, <2>5
    <2> HIDE DEF F, O, Op, fl, fp, gp
    <2> QED
        BY <2>4, <2>6, <2>7
<1>11. SumOver(F.raw, S) = Total(raw) /\ SumOver(F.into, S) = Total(into)
    <2> HIDE DEF F, raw, into
    <2> QED
        BY <1>6, <1>9, <1>10, PartTotal
<1> QED
    BY <1>1, <1>5, <1>11

\* AggregateHourly leaves what the rows of the running cycle add up to.
LEMMA FoldedCycle ==
    ASSUME IInv, GrantInv, AggregateHourly, NEW d \in Directions, NEW S,
           S = Since(CycleStart(now))
    PROVE  SumOver([t \in DOMAIN samples' |-> samples'[t].d[d]], S) + SumOver(Column(hourly', d), S)
               = SumOver([t \in DOMAIN samples |-> samples[t].d[d]], S) + SumOver(Column(hourly, d), S)
<1> DEFINE f(e) == [t \in DOMAIN samples |-> samples[t].d[e]]
           P(e) == Folded(f(e), Column(hourly, e), now - RawRetention, HourOf)
           old == {t \in DOMAIN samples : t < now - RawRetention}
           kept == {t \in DOMAIN samples : t >= now - RawRetention}
           H == {b \in DOMAIN P("in").into : b >= now - HistoryRetention}
           raw == [t \in DOMAIN samples' |-> samples'[t].d[d]]
           col == Column(hourly', d)
           s == CycleStart(now)
<1>m. now \in Nat /\ SampleRows /\ HourRows
    BY DEF IInv
<1>1. /\ samples' = [t \in kept |-> samples[t]]
      /\ hourly' = [h \in H |-> [e \in Directions |-> P(e).into[h]]]
    BY DEF AggregateHourly
<1>2. Rows(f(d)) /\ Rows(Column(hourly, d))
    BY <1>m, CountedSums
<1>3. \A e : DOMAIN P(e).into = DOMAIN hourly \cup {HourOf(t) : t \in old}
    BY DEF Folded, Column
<1>4. P(d).raw = [t \in DOMAIN samples \ old |-> samples[t].d[d]]
    BY DEF Folded
<1>c. PICK c : /\ InCycle(now, c) /\ s = Boundary(c) /\ s \in Nat /\ now - HistoryRetention <= s
               /\ now <= LastTick /\ LastTick \in Nat
    BY RunningCycle
<1>h. \E q \in Nat : s = q * TicksPerHour
    <2>1. c \in 1..Months
        BY <1>c, CalendarNumbers DEF InCycle
    <2> QED
        BY <1>c, <2>1, BoundaryFacts
<1>i. \A t \in DOMAIN f(d) : t \in S <=> HourOf(t) \in S
    <2> SUFFICES ASSUME NEW t \in DOMAIN samples PROVE t \in S <=> HourOf(t) \in S
        OBVIOUS
    <2>1. t \in Nat /\ t <= now
        BY <1>m DEF SampleRows
    <2>2. HourOf(t) \in Nat /\ HourOf(t) <= t /\ (s <= t <=> s <= HourOf(t))
        BY <1>c, <1>h, <2>1, HourInCycle
    <2>3. S = s..LastTick
        BY DEF Since
    <2> HIDE DEF s
    <2> QED
        BY <1>m, <1>c, <2>1, <2>2, <2>3
<1>5. /\ Rows(P(d).raw) /\ Rows(P(d).into)
      /\ SumOver(P(d).raw, S) + SumOver(P(d).into, S) = SumOver(f(d), S) + SumOver(Column(hourly, d), S)
    <2> DEFINE x == f(d)
               y == Column(hourly, d)
               b == now - RawRetention
    <2>1. P(d) = HourFold(x, y, b)
        BY DEF HourFold
    <2>2. Rows(x) /\ Rows(y) /\ \A t \in DOMAIN x : t \in S <=> HourOf(t) \in S
        BY <1>2, <1>i
    <2> HIDE DEF f, P, x, y, b
    <2>3. /\ Rows(HourFold(x, y, b).raw) /\ Rows(HourFold(x, y, b).into)
        BY <2>2, FoldedHours
    <2>4. SumOver(HourFold(x, y, b).raw, S) + SumOver(HourFold(x, y, b).into, S) = SumOver(x, S) + SumOver(y, S)
        BY <2>2, FoldSince
    <2>5. /\ Rows(P(d).raw) /\ Rows(P(d).into)
          /\ SumOver(P(d).raw, S) + SumOver(P(d).into, S) = SumOver(x, S) + SumOver(y, S)
        BY <2>1, <2>3, <2>4
    <2> QED
        BY <2>5 DEF x, y
<1>6. DOMAIN samples \ old = kept
    <2>1. \A t \in DOMAIN samples : t \in Int
        BY <1>m DEF SampleRows
    <2>2. now - RawRetention \in Int
        BY <1>m, ClockAssumption
    <2> QED
        BY <2>1, <2>2
<1>7. raw = P(d).raw
    BY <1>1, <1>4, <1>6
<1>8. H \subseteq DOMAIN P(d).into /\ DOMAIN col = H /\ \A h \in H : col[h] = P(d).into[h]
    <2>1. H \subseteq DOMAIN P(d).into
        BY <1>3
    <2> HIDE DEF H, P
    <2> QED
        BY <1>1, <2>1 DEF Column
<1>9. \A b \in DOMAIN P(d).into : b \in S => b \in H
    <2>1. \A b \in S : b >= now - HistoryRetention
        <3>1. HistoryRetention \in Nat /\ S = s..LastTick
            BY ClockAssumption DEF Since
        <3> HIDE DEF s
        <3> QED
            BY <1>m, <1>c, <3>1
    <2> QED
        BY <1>3, <2>1
<1> DEFINE I == P(d).into
<1> HIDE DEF f, P, old, kept, H, raw, col, I, s
<1>10. DOMAIN col \cap S = DOMAIN I \cap S /\ \A b \in DOMAIN I \cap S : col[b] = I[b]
    BY <1>8, <1>9 DEF I
<1>11. SumOver(col, S) = SumOver(I, S)
    <2> DEFINE D == DOMAIN I \cap S
    <2>1. IsFiniteSet(D)
        BY <1>5, FS_Subset DEF Rows, I
    <2> HIDE DEF D
    <2>2. DOMAIN col \cap S = D /\ DOMAIN I \cap S = D /\ \A b \in D : col[b] = I[b]
        BY <1>10 DEF D
    <2>3. Sum(col, D) = Sum(I, D)
        BY <2>1, <2>2, SumCongruent
    <2> QED
        BY <2>2, <2>3, SumOverSum
<1>12. SumOver(raw, S) + SumOver(col, S) = SumOver(f(d), S) + SumOver(Column(hourly, d), S)
    BY <1>5, <1>7, <1>11 DEF I
<1> QED
    BY <1>12 DEF raw, col, f

\* maintenance leaves the usage and the package of the running cycle.
LEMMA FoldedUsage ==
    ASSUME IInv, GrantInv, maintenance
    PROVE  /\ TotalsSince(CycleStart(now))' = TotalsSince(CycleStart(now))
           /\ PackageSince(CycleStart(now))' = PackageSince(CycleStart(now))
           /\ \E K : Pruned(K)
<1> DEFINE s == CycleStart(now)
           S == Since(s)
           U == Since(now - HistoryRetention)
           R(d) == SumOver([t \in DOMAIN samples |-> samples[t].d[d]], S)
           C(d) == SumOver(Column(hourly, d), S)
           A(d) == SumOver(Column(adjustments, d), S)
           Q(k) == SumOver(Column(packages, k), S)
           Rn(d) == SumOver([t \in DOMAIN samples' |-> samples'[t].d[d]], S)
           Cn(d) == SumOver(Column(hourly', d), S)
           An(d) == SumOver(Column(adjustments', d), S)
           Qn(k) == SumOver(Column(packages', k), S)
<1>m. now \in Nat /\ SampleRows /\ HourRows /\ SignedRows /\ AddressRows
    BY DEF IInv
<1>0. /\ now' = now /\ AggregateHourly /\ PruneIPTraffic(AggregateIP)
      /\ Kept(adjustments, U, adjustments') /\ Kept(packages, U, packages')
    BY DEF maintenance, Kept
<1>1. s' = s
    BY <1>0 DEF CycleStart, AddMonths, MonthOf
<1>2. S \subseteq U
    <2>1. PICK c : InCycle(now, c) /\ s \in Nat /\ now - HistoryRetention <= s /\ LastTick \in Nat
        BY RunningCycle
    <2> QED
        BY <1>m, <2>1, ClockAssumption DEF Since
<1>3. ASSUME NEW d \in Directions PROVE Rn(d) + Cn(d) = R(d) + C(d)
    BY <1>0, FoldedCycle
<1>4. ASSUME NEW d \in Directions PROVE An(d) = A(d)
    <2> HIDE DEF S, U
    <2>1. IsFiniteSet(DOMAIN adjustments) /\ adjustments \in [DOMAIN adjustments -> [Directions -> Int]]
        BY <1>m DEF SignedRows
    <2> QED
        BY <1>0, <1>2, <2>1, KeptSum
<1>5. ASSUME NEW k \in Limited PROVE Qn(k) = Q(k)
    <2> HIDE DEF S, U
    <2>1. IsFiniteSet(DOMAIN packages) /\ packages \in [DOMAIN packages -> [Limited -> Int]]
        BY <1>m DEF SignedRows
    <2> QED
        BY <1>0, <1>2, <2>1, KeptSum
<1>6. /\ TotalsSince(s) = [d \in Directions |-> NonNegative(R(d) + C(d) + A(d))]
      /\ PackageSince(s) = [k \in Limited |-> NonNegative(Q(k))]
    BY DEF TotalsSince, PackageSince, Limited
<1>7. /\ TotalsSince(CycleStart(now))' = [d \in Directions |-> NonNegative(Rn(d) + Cn(d) + An(d))]
      /\ PackageSince(CycleStart(now))' = [k \in Limited |-> NonNegative(Qn(k))]
    BY <1>1, Zenon DEF TotalsSince, PackageSince, Limited
<1>8. \E K : Pruned(K)
    BY <1>m, <1>0, PrunedHistory
<1> HIDE DEF R, C, A, Q, Rn, Cn, An, Qn, s
<1>9. [d \in Directions |-> NonNegative(Rn(d) + Cn(d) + An(d))] = [d \in Directions |-> NonNegative(R(d) + C(d) + A(d))]
    BY <1>3, <1>4
<1>10. [k \in Limited |-> NonNegative(Qn(k))] = [k \in Limited |-> NonNegative(Q(k))]
    BY <1>5
<1> QED
    BY <1>6, <1>7, <1>8, <1>9, <1>10 DEF s

\* What a prune leaves, as the property says it.
WholeOrOutweighed(a) ==
    \/ IPTotal(a)' = IPTotal(a)
    \/ /\ IPTotal(a)' = 0
       /\ \E K \in SUBSET (Addresses \ {a}) :
             /\ Cardinality(K) = KeptAddresses
             /\ \A b \in K : IPTotal(b)' = IPTotal(b) /\ IPTotal(b) >= IPTotal(a)

\* Every address is kept whole or is outweighed.
LEMMA PrunedWhole ==
    ASSUME NEW K, Pruned(K), NEW a \in Addresses
    PROVE  WholeOrOutweighed(a)
<1>1. CASE a \in K
    BY <1>1 DEF Pruned, WholeOrOutweighed
<1>2. CASE a \notin K
    <2>1. K \in SUBSET (Addresses \ {a}) /\ Cardinality(K) = KeptAddresses
        BY <1>2 DEF Pruned
    <2>2. IPTotal(a)' = 0 /\ \A b \in K : IPTotal(b)' = IPTotal(b) /\ IPTotal(b) >= IPTotal(a)
        BY <1>2 DEF Pruned
    <2> QED
        BY <2>1, <2>2 DEF WholeOrOutweighed
<1> QED
    BY <1>1, <1>2

(***************************************************************************)
(* AggregateHourly, AggregateIPHourly, AggregateIPDaily, Cleanup,          *)
(* PruneIPTraffic: a maintenance pass takes no byte from the running       *)
(* cycle's usage or its package, and none from an address unless enough    *)
(* others that hold at least as much are kept in its place.                *)
(***************************************************************************)
THEOREM FoldingKeepsUsage == Spec => FoldKeepsUsage
<1> DEFINE Same == /\ TotalsSince(CycleStart(now))' = TotalsSince(CycleStart(now))
                   /\ PackageSince(CycleStart(now))' = PackageSince(CycleStart(now))
                   /\ \A a \in Addresses : WholeOrOutweighed(a)
<1>1. IInv /\ GrantInv /\ [Next]_vars => [maintenance => Same]_vars
    <2> SUFFICES ASSUME IInv, GrantInv, maintenance PROVE Same
        OBVIOUS
    <2>1. PICK K : Pruned(K)
        BY FoldedUsage
    <2> QED
        BY <2>1, FoldedUsage, PrunedWhole
<1>2. Spec => [](IInv /\ GrantInv)
    BY GrantsInvariance
<1>3. Spec => [][maintenance => Same]_vars
    <2> HIDE DEF Same
    <2> QED
        BY <1>1, <1>2, PTL DEF Spec
<1> QED
    BY <1>3 DEF FoldKeepsUsage, WholeOrOutweighed

=============================================================================
