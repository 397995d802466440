----------------------------- MODULE Api_proofs -----------------------------
(***************************************************************************)
(* Proofs about what readers are shown: the verdicts of Anomalies, as      *)
(* invariants of its series, and the pages and the movers of ApiReads.     *)
(* First the medians and the running means a verdict is made of, then what *)
(* ORDER BY, LIMIT and OFFSET select, then the reader's inductive          *)
(* invariants, and last the movers.                                        *)
(***************************************************************************)
EXTENDS ApiReads, Anomalies, FiniteSetTheorems, WellFoundedInduction, TLAPS

\* The least of a set of naturals.
LEMMA LeastOfNaturals ==
    ASSUME NEW S, S \subseteq Nat, S # {}
    PROVE  \E n \in S : \A m \in S : n <= m
<1> DEFINE Less == OpToRel(<, Nat)
<1>1. PICK x \in S : \A y \in S : <<y, x>> \notin Less
  <2>1. IsWellFoundedOn(Less, Nat)
    BY NatLessThanWellFounded, Zenon
  <2> HIDE DEF Less
  <2> QED
    BY <2>1, WFMin
<1>2. ASSUME NEW y \in S PROVE x =< y
  <2>1. <<y, x>> \in Nat \X Nat /\ <<y, x>>[1] = y /\ <<y, x>>[2] = x
    OBVIOUS
  <2>2. ~(y < x)
    BY <1>1, <2>1 DEF OpToRel
  <2> QED
    BY <2>2
<1> QED
  BY <1>2

\* Induction up to n, over a set.
LEMMA UpTo ==
    ASSUME NEW n \in Nat, NEW S, 0 \in S, \A i \in 1..n : i - 1 \in S => i \in S
    PROVE  \A i \in 0..n : i \in S
<1> DEFINE Out == {i \in 0..n : i \notin S}
<1>1. SUFFICES ASSUME Out # {} PROVE FALSE
  OBVIOUS
<1>2. PICK m \in Out : \A y \in Out : m <= y
  <2>1. Out \subseteq Nat
    OBVIOUS
  <2> HIDE DEF Out
  <2> QED
    BY <1>1, <2>1, LeastOfNaturals
<1>3. m \in 1..n /\ m - 1 \in 0..n
  BY <1>2
<1>4. m - 1 \in S
  BY <1>2, <1>3
<1> QED
  BY <1>2, <1>3, <1>4
-----------------------------------------------------------------------------
\* Finite sets of integers have ends.
LEMMA FiniteMax ==
    ASSUME NEW S, IsFiniteSet(S), S \subseteq Int, S # {}
    PROVE  Max(S) \in S /\ \A y \in S : Max(S) >= y
<1> DEFINE Above(x) == {y \in S : y > x}
           T == {Cardinality(Above(x)) : x \in S}
<1>1. ASSUME NEW x \in S PROVE IsFiniteSet(Above(x)) /\ Cardinality(Above(x)) \in Nat
  BY FS_Subset, FS_CardinalityType
<1>2. PICK x \in S : \A y \in S : Cardinality(Above(x)) <= Cardinality(Above(y))
  <2>1. T \subseteq Nat /\ T # {}
    BY <1>1
  <2> HIDE DEF T
  <2>2. PICK n \in T : \A m \in T : n <= m
    BY <2>1, LeastOfNaturals
  <2> USE DEF T
  <2> HIDE DEF Above
  <2> QED
    BY <2>2
<1>3. ASSUME NEW y \in S, y > x PROVE FALSE
  <2>1. Above(y) \subseteq Above(x) /\ y \in Above(x) /\ y \notin Above(y)
    <3>1. x \in Int /\ y \in Int /\ \A z \in S : z \in Int
      OBVIOUS
    <3>2. ASSUME NEW z \in S, z > y PROVE z > x
      BY <1>3, <3>1, <3>2
    <3>3. Above(y) \subseteq Above(x)
      BY <3>2
    <3>4. y \in Above(x)
      BY <1>3
    <3>5. y \notin Above(y)
      BY <3>1
    <3> QED
      BY <3>3, <3>4, <3>5
  <2>2. Cardinality(Above(y)) <= Cardinality(Above(x)) /\ Cardinality(Above(y)) # Cardinality(Above(x))
    <3> HIDE DEF Above
    <3> QED
      BY <1>1, <2>1, FS_Subset
  <2> HIDE DEF Above
  <2> QED
    BY <1>1, <1>2, <2>2
<1>4. \A y \in S : x >= y
  BY <1>3
<1> QED
  BY <1>4 DEF Max

LEMMA FiniteMin ==
    ASSUME NEW S, IsFiniteSet(S), S \subseteq Int, S # {}
    PROVE  Min(S) \in S /\ \A y \in S : Min(S) <= y
<1> DEFINE Under(x) == {y \in S : y < x}
           T == {Cardinality(Under(x)) : x \in S}
<1>1. ASSUME NEW x \in S PROVE IsFiniteSet(Under(x)) /\ Cardinality(Under(x)) \in Nat
  BY FS_Subset, FS_CardinalityType
<1>2. PICK x \in S : \A y \in S : Cardinality(Under(x)) <= Cardinality(Under(y))
  <2>1. T \subseteq Nat /\ T # {}
    BY <1>1
  <2> HIDE DEF T
  <2>2. PICK n \in T : \A m \in T : n <= m
    BY <2>1, LeastOfNaturals
  <2> USE DEF T
  <2> HIDE DEF Under
  <2> QED
    BY <2>2
<1>3. ASSUME NEW y \in S, y < x PROVE FALSE
  <2>1. Under(y) \subseteq Under(x) /\ y \in Under(x) /\ y \notin Under(y)
    <3>1. x \in Int /\ y \in Int /\ \A z \in S : z \in Int
      OBVIOUS
    <3>2. ASSUME NEW z \in S, z < y PROVE z < x
      BY <1>3, <3>1, <3>2
    <3>3. Under(y) \subseteq Under(x)
      BY <3>2
    <3>4. y \in Under(x)
      BY <1>3
    <3>5. y \notin Under(y)
      BY <3>1
    <3> QED
      BY <3>3, <3>4, <3>5
  <2>2. Cardinality(Under(y)) <= Cardinality(Under(x)) /\ Cardinality(Under(y)) # Cardinality(Under(x))
    <3> HIDE DEF Under
    <3> QED
      BY <1>1, <2>1, FS_Subset
  <2> HIDE DEF Under
  <2> QED
    BY <1>1, <1>2, <2>2
<1>4. \A y \in S : x <= y
  BY <1>3
<1> QED
  BY <1>4 DEF Min

LEMMA MaxOfTwo ==
    ASSUME NEW a \in Int, NEW b \in Int
    PROVE  Max({a, b}) = IF a >= b THEN a ELSE b
<1>1. CASE a >= b
  <2>1. \A x \in {a, b} : (\A y \in {a, b} : x >= y) <=> x = a
    BY <1>1
  <2> QED
    BY <1>1, <2>1 DEF Max
<1>2. CASE ~(a >= b)
  <2>1. \A x \in {a, b} : (\A y \in {a, b} : x >= y) <=> x = b
    BY <1>2
  <2> QED
    BY <1>2, <2>1 DEF Max
<1> QED
  BY <1>1, <1>2

LEMMA MinOfTwo ==
    ASSUME NEW a \in Int, NEW b \in Int
    PROVE  Min({a, b}) = IF a <= b THEN a ELSE b
<1>1. CASE a <= b
  <2>1. \A x \in {a, b} : (\A y \in {a, b} : x =< y) <=> x = a
    BY <1>1
  <2> QED
    BY <1>1, <2>1 DEF Min
<1>2. CASE ~(a <= b)
  <2>1. \A x \in {a, b} : (\A y \in {a, b} : x =< y) <=> x = b
    BY <1>2
  <2> QED
    BY <1>2, <2>1 DEF Min
<1> QED
  BY <1>1, <1>2
-----------------------------------------------------------------------------
Below(f, v) == {j \in DOMAIN f : f[j] < v}
AtMost(f, v) == {j \in DOMAIN f : f[j] <= v}

LEMMA RangeIsFinite ==
    ASSUME NEW D, IsFiniteSet(D), NEW f \in [D -> Int]
    PROVE  /\ IsFiniteSet(Range(f)) /\ Range(f) \subseteq Int
           /\ \A v : /\ IsFiniteSet(Below(f, v)) /\ Cardinality(Below(f, v)) \in Nat
                     /\ IsFiniteSet(AtMost(f, v)) /\ Cardinality(AtMost(f, v)) \in Nat
<1>1. f \in Surjection(D, Range(f))
  BY DEF Surjection, Range
<1>2. IsFiniteSet(Range(f)) /\ Range(f) \subseteq Int
  BY <1>1, FS_Surjection DEF Range
<1>3. ASSUME NEW v
      PROVE  /\ IsFiniteSet(Below(f, v)) /\ Cardinality(Below(f, v)) \in Nat
             /\ IsFiniteSet(AtMost(f, v)) /\ Cardinality(AtMost(f, v)) \in Nat
  <2>1. Below(f, v) \subseteq D /\ AtMost(f, v) \subseteq D
    BY DEF Below, AtMost
  <2> QED
    BY <2>1, FS_Subset, FS_CardinalityType
<1> QED
  BY <1>2, <1>3

\* There is an r-th smallest value.
LEMMA RankedIsOne ==
    ASSUME NEW D, IsFiniteSet(D), NEW f \in [D -> Int], NEW r \in 1..Cardinality(D)
    PROVE  /\ Ranked(f, r) \in Range(f)
           /\ Cardinality(Below(f, Ranked(f, r))) < r
           /\ Cardinality(AtMost(f, Ranked(f, r))) >= r
<1> DEFINE V == {v \in Range(f) : Cardinality(AtMost(f, v)) >= r}
<1>1. Cardinality(D) \in Nat /\ r \in Nat /\ r >= 1 /\ r <= Cardinality(D) /\ D # {}
  <2>1. Cardinality(D) \in Nat
    BY FS_CardinalityType
  <2>2. D # {}
    BY <2>1, FS_EmptySet
  <2> QED
    BY <2>1, <2>2
<1>2. IsFiniteSet(V) /\ V \subseteq Int /\ V # {}
  <2>1. IsFiniteSet(V) /\ V \subseteq Int
    BY RangeIsFinite, FS_Subset
  <2>2. Range(f) # {}
    BY <1>1 DEF Range
  <2>3. Max(Range(f)) \in Range(f) /\ \A y \in Range(f) : Max(Range(f)) >= y
    BY <2>2, RangeIsFinite, FiniteMax
  <2>4. AtMost(f, Max(Range(f))) = D
    BY <2>3 DEF AtMost, Range
  <2> QED
    BY <1>1, <2>1, <2>3, <2>4
<1>3. PICK v \in V : \A y \in V : v <= y
  <2> HIDE DEF V
  <2> QED
    BY <1>2, FiniteMin
<1>4. Cardinality(Below(f, v)) < r
  <2>1. CASE Below(f, v) = {}
    BY <1>1, <2>1, FS_EmptySet
  <2>2. CASE Below(f, v) # {}
    <3> DEFINE U == {f[j] : j \in Below(f, v)}
    <3>1. U \subseteq Range(f) /\ U \subseteq Int /\ U # {} /\ \A u \in U : u < v
      BY <2>2 DEF Below, Range
    <3>2. IsFiniteSet(U)
      BY <3>1, RangeIsFinite, FS_Subset
    <3>3. PICK u \in U : \A y \in U : u >= y
      <4> HIDE DEF U
      <4> QED
        BY <3>1, <3>2, FiniteMax
    <3>4. AtMost(f, u) = Below(f, v)
      <4>1. u \in Int /\ v \in Int /\ u < v
        BY <1>2, <3>1, <3>3
      <4>2. \A j \in D : f[j] < v => f[j] <= u
        BY <3>3 DEF Below
      <4>3. \A j \in D : f[j] <= u => f[j] < v
        BY <4>1
      <4> QED
        BY <4>2, <4>3 DEF AtMost, Below
    <3>5. u \notin V /\ u \in Range(f)
      BY <1>2, <1>3, <3>1, <3>3
    <3> QED
      BY <1>1, <3>4, <3>5, RangeIsFinite
  <2> QED
    BY <2>1, <2>2
<1> QED
  BY <1>3, <1>4 DEF Ranked, Below, AtMost

\* What bounds it: enough values on one side.
LEMMA RankedIsBounded ==
    ASSUME NEW D, IsFiniteSet(D), NEW f \in [D -> Int], NEW r \in 1..Cardinality(D),
           NEW b \in Int
    PROVE  /\ Ranked(f, r) \in Int
           /\ Cardinality(AtMost(f, b)) >= r => Ranked(f, r) <= b
           /\ Cardinality(Below(f, b)) < r => Ranked(f, r) >= b
<1> DEFINE v == Ranked(f, r)
<1>1. /\ v \in Int /\ r \in Nat
      /\ Cardinality(Below(f, v)) < r /\ Cardinality(AtMost(f, v)) >= r
  BY RankedIsOne, RangeIsFinite, FS_CardinalityType
<1> HIDE DEF v
<1>2. ASSUME v > b PROVE Cardinality(AtMost(f, b)) < r
  <2>1. AtMost(f, b) \subseteq Below(f, v)
    BY <1>1, <1>2 DEF AtMost, Below
  <2>2. Cardinality(AtMost(f, b)) <= Cardinality(Below(f, v))
    BY <2>1, RangeIsFinite, FS_Subset
  <2> QED
    BY <1>1, <2>2, RangeIsFinite
<1>3. ASSUME v < b PROVE Cardinality(Below(f, b)) >= r
  <2>1. AtMost(f, v) \subseteq Below(f, b)
    BY <1>1, <1>3 DEF AtMost, Below
  <2>2. Cardinality(AtMost(f, v)) <= Cardinality(Below(f, b))
    BY <2>1, RangeIsFinite, FS_Subset
  <2> QED
    BY <1>1, <2>2, RangeIsFinite
<1>4. Cardinality(AtMost(f, b)) \in Nat /\ Cardinality(Below(f, b)) \in Nat
  BY RangeIsFinite
<1>5. /\ v \in Int
      /\ Cardinality(AtMost(f, b)) >= r => v <= b
      /\ Cardinality(Below(f, b)) < r => v >= b
  BY <1>1, <1>2, <1>3, <1>4
<1> QED
  BY <1>5 DEF v

LEMMA MedianIsBounded ==
    ASSUME NEW D, IsFiniteSet(D), D # {}, NEW f \in [D -> Int]
    PROVE  /\ TwiceMedian(f) \in Int
           /\ \A lo \in Int : (\A x \in D : f[x] >= lo) => TwiceMedian(f) >= 2 * lo
           /\ \A hi \in Int : (\A x \in D : f[x] <= hi) => TwiceMedian(f) <= 2 * hi
<1> DEFINE n == Cardinality(D)
           a == Ranked(f, (n + 1) \div 2)
           b == Ranked(f, n \div 2 + 1)
<1>1. (n + 1) \div 2 \in 1..n /\ n \div 2 + 1 \in 1..n
  <2>1. n \in Nat /\ n # 0
    BY FS_CardinalityType, FS_EmptySet
  <2> HIDE DEF n
  <2> QED
    BY <2>1
<1>2. TwiceMedian(f) = a + b
  BY DEF TwiceMedian
<1>3. a \in Range(f) /\ b \in Range(f)
  <2> HIDE DEF a, b
  <2>1. \A r \in 1..n : Ranked(f, r) \in Range(f)
    BY RankedIsOne
  <2> HIDE DEF n
  <2> QED
    BY <1>1, <2>1 DEF a, b
<1> HIDE DEF a, b
<1>4. PICK x \in D, y \in D : a = f[x] /\ b = f[y]
  BY <1>3 DEF Range
<1> QED
  BY <1>2, <1>4

\* Medians do not depend on where the values stand.
LEMMA MedianMoves ==
    ASSUME NEW D, IsFiniteSet(D), D # {}, NEW f \in [D -> Int],
           NEW E, NEW g \in [E -> Int], NEW p \in Bijection(D, E),
           \A x \in D : g[p[x]] = f[x]
    PROVE  TwiceMedian(g) = TwiceMedian(f)
<1>1. IsFiniteSet(E) /\ Cardinality(E) = Cardinality(D) /\ Cardinality(D) \in Nat /\ Cardinality(D) # 0
  BY FS_Bijection, FS_CardinalityType, FS_EmptySet DEF ExistsBijection
<1>2. \A x \in D, y \in D : p[x] \in E /\ (p[x] = p[y] => x = y)
  BY DEF Bijection, Injection, Surjection, IsInjective
<1>3. \A z \in E : \E x \in D : p[x] = z
  BY DEF Bijection, Surjection
<1>4. ASSUME NEW S \in SUBSET D, NEW T \in SUBSET E, \A x \in D : x \in S <=> p[x] \in T
      PROVE  Cardinality(T) = Cardinality(S)
  <2> DEFINE q == [x \in S |-> p[x]]
  <2>1. q \in [S -> T]
    BY <1>4
  <2>2. \A x \in S, y \in S : q[x] = q[y] => x = y
    BY <1>2
  <2>3. \A z \in T : \E x \in S : q[x] = z
    BY <1>3, <1>4
  <2> HIDE DEF q
  <2>4. q \in Bijection(S, T)
    BY <2>1, <2>2, <2>3 DEF Bijection, Injection, Surjection, IsInjective
  <2>5. IsFiniteSet(S)
    BY FS_Subset
  <2> QED
    BY <2>4, <2>5, FS_Bijection DEF ExistsBijection
<1>5. \A v : /\ Cardinality(Below(g, v)) = Cardinality(Below(f, v))
             /\ Cardinality(AtMost(g, v)) = Cardinality(AtMost(f, v))
  BY <1>2, <1>4 DEF Below, AtMost
<1>6. ASSUME NEW r \in 1..Cardinality(D) PROVE Ranked(g, r) = Ranked(f, r)
  <2>1. /\ Ranked(g, r) \in Int
        /\ Cardinality(Below(g, Ranked(g, r))) < r /\ Cardinality(AtMost(g, Ranked(g, r))) >= r
    BY <1>1, RankedIsOne, RangeIsFinite
  <2>2. Ranked(f, r) \in Int /\ Ranked(f, r) <= Ranked(g, r) /\ Ranked(f, r) >= Ranked(g, r)
    BY <1>5, <2>1, RankedIsBounded
  <2> QED
    BY <2>1, <2>2
<1> DEFINE n == Cardinality(D)
<1>7. (n + 1) \div 2 \in 1..n /\ n \div 2 + 1 \in 1..n
  <2> HIDE DEF n
  <2> QED
    BY <1>1 DEF n
<1> QED
  BY <1>1, <1>6, <1>7 DEF TwiceMedian
-----------------------------------------------------------------------------
\* SumOf, an element at a time.
Some(s) == CHOOSE x \in s : TRUE

Partial(f) ==
    CHOOSE q : q = [s \in SUBSET DOMAIN f |->
                       IF s = {} THEN 0 ELSE f[Some(s)] + q[s \ {Some(s)}]]

LEMMA SumIsPartial ==
    ASSUME NEW f
    PROVE  SumOf(f) = Partial(f)[DOMAIN f]
BY Zenon DEF SumOf, FoldFunction, FoldFunctionOnSet, MapThenFoldSet, Partial, Some

\* Induction over the sizes of the subsets of a finite set.
LEMMA BySize ==
    ASSUME NEW D, IsFiniteSet(D), NEW S, {} \in S,
           \A s \in SUBSET D : s # {} /\ (\A x \in s : s \ {x} \in S) => s \in S
    PROVE  \A s \in SUBSET D : s \in S
<1> DEFINE N == {n \in Nat : \A s \in SUBSET D : Cardinality(s) = n => s \in S}
<1>1. \A s \in SUBSET D : IsFiniteSet(s) /\ Cardinality(s) \in 0..Cardinality(D)
      /\ Cardinality(s) \in Nat /\ Cardinality(D) \in Nat
  BY FS_Subset, FS_CardinalityType
<1>2. 0 \in N
  BY <1>1, FS_EmptySet
<1>3. ASSUME NEW n \in 1..Cardinality(D), n - 1 \in N PROVE n \in N
  <2> SUFFICES ASSUME NEW s \in SUBSET D, Cardinality(s) = n PROVE s \in S
    BY <1>1
  <2>1. s # {}
    BY <1>1, FS_EmptySet
  <2>2. ASSUME NEW x \in s PROVE s \ {x} \in S
    <3>1. Cardinality(s \ {x}) = n - 1 /\ s \ {x} \in SUBSET D
      BY <1>1, FS_RemoveElement
    <3> QED
      BY <1>3, <3>1
  <2> QED
    BY <2>1, <2>2
<1> HIDE DEF N
<1>4. \A n \in 0..Cardinality(D) : n \in N
  BY <1>1, <1>2, <1>3, UpTo
<1> QED
  BY <1>1, <1>4 DEF N

LEMMA PartialIsDefined ==
    ASSUME NEW f, IsFiniteSet(DOMAIN f)
    PROVE  \A s \in SUBSET DOMAIN f :
              Partial(f)[s] = IF s = {} THEN 0 ELSE f[Some(s)] + Partial(f)[s \ {Some(s)}]
<1> DEFINE D == DOMAIN f
           To(n) == {s \in SUBSET D : Cardinality(s) <= n}
           IsPartial(q, n) ==
              q = [s \in To(n) |-> IF s = {} THEN 0 ELSE f[Some(s)] + q[s \ {Some(s)}]]
           N == {n \in Nat : \E q : IsPartial(q, n)}
<1>1. \A s \in SUBSET D : IsFiniteSet(s) /\ Cardinality(s) \in Nat /\ Cardinality(s) <= Cardinality(D)
      /\ Cardinality(D) \in Nat
  BY FS_Subset, FS_CardinalityType
<1>2. ASSUME NEW n \in Nat, NEW s \in To(n), s # {}
      PROVE  n # 0 /\ Some(s) \in s /\ s \ {Some(s)} \in To(n - 1)
  <2>1. Some(s) \in s
    BY <1>2 DEF Some
  <2>2. Cardinality(s \ {Some(s)}) = Cardinality(s) - 1 /\ Cardinality(s) # 0
    BY <1>1, <1>2, <2>1, FS_RemoveElement, FS_EmptySet
  <2> QED
    BY <1>1, <2>1, <2>2
<1>3. 0 \in N
  <2> DEFINE q == [s \in To(0) |-> 0]
  <2>1. \A s \in To(0) : s = {}
    BY <1>2
  <2> HIDE DEF To
  <2>2. IsPartial(q, 0)
    BY <2>1
  <2> HIDE DEF IsPartial, q
  <2>3. \E h : IsPartial(h, 0)
    BY <2>2
  <2> QED
    BY <2>3
<1>4. ASSUME NEW n \in 1..Cardinality(D), n - 1 \in N PROVE n \in N
  <2>1. PICK q : IsPartial(q, n - 1)
    BY <1>4
  <2> DEFINE h == [s \in To(n) |-> IF s = {} THEN 0 ELSE f[Some(s)] + q[s \ {Some(s)}]]
  <2>2. n \in Nat /\ n - 1 \in Nat /\ To(n - 1) \subseteq To(n)
    BY <1>1, <1>4
  <2>3. \A s \in To(n) : h[s] = IF s = {} THEN 0 ELSE f[Some(s)] + h[s \ {Some(s)}]
    <3> SUFFICES ASSUME NEW s \in To(n), s # {}
                 PROVE  h[s \ {Some(s)}] = q[s \ {Some(s)}]
      OBVIOUS
    <3> DEFINE t == s \ {Some(s)}
    <3>1. t \in To(n - 1) /\ t \in To(n)
      BY <1>2, <2>2
    <3> HIDE DEF t, To
    <3>2. h[t] = IF t = {} THEN 0 ELSE f[Some(t)] + q[t \ {Some(t)}]
      BY <3>1
    <3>3. q[t] = IF t = {} THEN 0 ELSE f[Some(t)] + q[t \ {Some(t)}]
      BY <2>1, <3>1
    <3>4. h[t] = q[t]
      BY <3>2, <3>3
    <3> QED
      BY <3>4 DEF t
  <2> HIDE DEF To
  <2>4. IsPartial(h, n)
    BY <2>3
  <2> HIDE DEF IsPartial, h
  <2>5. \E k : IsPartial(k, n)
    BY <2>4
  <2> QED
    BY <2>2, <2>5
<1>5. Cardinality(D) \in N
  <2> HIDE DEF N
  <2>1. Cardinality(D) \in Nat /\ Cardinality(D) \in 0..Cardinality(D)
    BY FS_CardinalityType
  <2> HIDE DEF D
  <2> QED
    BY <1>3, <1>4, <2>1, UpTo
<1>6. To(Cardinality(D)) = SUBSET D
  BY <1>1
<1>7. \E q : q = [s \in SUBSET D |-> IF s = {} THEN 0 ELSE f[Some(s)] + q[s \ {Some(s)}]]
  <2>1. PICK q : IsPartial(q, Cardinality(D))
    BY <1>5
  <2> HIDE DEF To
  <2> QED
    BY <1>6, <2>1
<1>8. Partial(f) = [s \in SUBSET D |->
                      IF s = {} THEN 0 ELSE f[Some(s)] + Partial(f)[s \ {Some(s)}]]
  BY <1>7 DEF Partial
<1> QED
  BY <1>8

LEMMA SumIsNatural ==
    ASSUME NEW D, IsFiniteSet(D), NEW f \in [D -> Nat]
    PROVE  /\ Partial(f)[{}] = 0
           /\ \A s \in SUBSET D : Partial(f)[s] \in Nat
<1> DEFINE P == Partial(f)
           S == {s \in SUBSET D : P[s] \in Nat}
<1>1. \A s \in SUBSET D : P[s] = IF s = {} THEN 0 ELSE f[Some(s)] + P[s \ {Some(s)}]
  BY PartialIsDefined
<1> HIDE DEF P
<1>0. {} \in SUBSET D /\ P[{}] = 0
  BY <1>1
<1>2. {} \in S
  BY <1>0
<1>3. ASSUME NEW s \in SUBSET D, s # {}, \A x \in s : s \ {x} \in S
      PROVE  s \in S
  <2> DEFINE c == Some(s)
  <2>1. c \in s
    BY <1>3 DEF Some
  <2>2. P[s] = f[c] + P[s \ {c}]
    BY <1>1, <1>3
  <2> HIDE DEF c
  <2>3. f[c] \in Nat /\ P[s \ {c}] \in Nat
    BY <1>3, <2>1
  <2> QED
    BY <2>2, <2>3
<1> HIDE DEF S
<1>4. \A s \in SUBSET D : s \in S
  BY <1>2, <1>3, BySize
<1> QED
  BY <1>0, <1>4 DEF S, P

\* Any element may be taken first.
LEMMA SumOneByOne ==
    ASSUME NEW D, IsFiniteSet(D), NEW f \in [D -> Nat]
    PROVE  \A s \in SUBSET D : \A x \in s : Partial(f)[s] = f[x] + Partial(f)[s \ {x}]
<1> DEFINE P == Partial(f)
           S == {s \in SUBSET D : \A x \in s : P[s] = f[x] + P[s \ {x}]}
<1>1. \A s \in SUBSET D : P[s] = IF s = {} THEN 0 ELSE f[Some(s)] + P[s \ {Some(s)}]
  BY PartialIsDefined
<1>2. \A s \in SUBSET D : P[s] \in Nat
  BY SumIsNatural
<1> HIDE DEF P
<1>3. ASSUME NEW s \in SUBSET D, s # {}, \A x \in s : s \ {x} \in S
      PROVE  s \in S
  <2> DEFINE c == Some(s)
  <2>1. c \in s
    BY <1>3 DEF Some
  <2>2. P[s] = f[c] + P[s \ {c}]
    BY <1>1, <1>3
  <2> HIDE DEF c
  <2>3. ASSUME NEW x \in s PROVE P[s] = f[x] + P[s \ {x}]
    <3>1. CASE x = c
      BY <2>2, <3>1
    <3>2. CASE x # c
      <4> DEFINE u == (s \ {c}) \ {x}
      <4>1. /\ x \in s \ {c} /\ c \in s \ {x} /\ u = (s \ {x}) \ {c}
            /\ u \in SUBSET D
        BY <2>1, <3>2
      <4>2. P[s \ {c}] = f[x] + P[u]
        BY <1>3, <2>1, <4>1
      <4>3. P[s \ {x}] = f[c] + P[u]
        BY <1>3, <4>1
      <4>4. f[x] \in Nat /\ f[c] \in Nat /\ P[u] \in Nat
        BY <1>2, <2>1, <4>1
      <4> HIDE DEF u
      <4> QED
        BY <2>2, <4>2, <4>3, <4>4
    <3> QED
      BY <3>1, <3>2
  <2> QED
    BY <2>3
<1> HIDE DEF S
<1>4. {} \in S
  BY DEF S
<1>5. \A s \in SUBSET D : s \in S
  BY <1>3, <1>4, BySize
<1> QED
  BY <1>5 DEF S, P

\* Sums do not depend on where the values stand.
LEMMA SumMoves ==
    ASSUME NEW D, IsFiniteSet(D), NEW f \in [D -> Nat],
           NEW E, NEW g \in [E -> Nat], NEW p \in Bijection(D, E),
           \A x \in D : g[p[x]] = f[x]
    PROVE  SumOf(g) = SumOf(f)
<1> DEFINE P == Partial(f)
           Q == Partial(g)
           To(s) == {p[x] : x \in s}
           S == {s \in SUBSET D : Q[To(s)] = P[s]}
<1>1. /\ p \in [D -> E] /\ \A x \in D, y \in D : p[x] = p[y] => x = y
      /\ \A z \in E : \E x \in D : p[x] = z
  BY DEF Bijection, Injection, Surjection, IsInjective
<1>2. IsFiniteSet(E)
  BY FS_Bijection DEF ExistsBijection
<1>3. /\ P[{}] = 0 /\ Q[{}] = 0
      /\ \A s \in SUBSET D : \A x \in s : P[s] = f[x] + P[s \ {x}]
      /\ \A s \in SUBSET E : \A x \in s : Q[s] = g[x] + Q[s \ {x}]
  <2>1. P[{}] = 0 /\ \A s \in SUBSET D : \A x \in s : P[s] = f[x] + P[s \ {x}]
    BY SumIsNatural, SumOneByOne, SMTT(30)
  <2>2. Q[{}] = 0 /\ \A s \in SUBSET E : \A x \in s : Q[s] = g[x] + Q[s \ {x}]
    BY <1>2, SumIsNatural, SumOneByOne, SMTT(30)
  <2> QED
    BY <2>1, <2>2
<1> HIDE DEF P, Q
<1>4. {} \in S
  <2>1. To({}) = {}
    OBVIOUS
  <2> QED
    BY <1>3, <2>1
<1>5. ASSUME NEW s \in SUBSET D, s # {}, \A x \in s : s \ {x} \in S
      PROVE  s \in S
  <2>1. PICK x \in s : TRUE
    BY <1>5
  <2>2. To(s) \in SUBSET E /\ p[x] \in To(s) /\ To(s) \ {p[x]} = To(s \ {x})
    BY <1>1
  <2>3. Q[To(s \ {x})] = P[s \ {x}]
    BY <1>5
  <2>4. g[p[x]] = f[x]
    OBVIOUS
  <2> HIDE DEF To
  <2>5. Q[To(s)] = P[s]
    BY <1>3, <2>2, <2>3, <2>4
  <2> QED
    BY <2>5
<1> HIDE DEF S
<1>6. D \in S
  <2>1. \A s \in SUBSET D : s \in S
    BY <1>4, <1>5, BySize
  <2> QED
    BY <2>1
<1>7. To(D) = E
  BY <1>1
<1>8. Q[E] = P[D]
  BY <1>6, <1>7 DEF S
<1> QED
  BY <1>8, SumIsPartial DEF P, Q

LEMMA SumIsBounded ==
    ASSUME NEW D, IsFiniteSet(D), NEW f \in [D -> Nat], NEW b \in Nat,
           \A x \in D : f[x] <= b
    PROVE  SumOf(f) \in Nat /\ SumOf(f) <= Cardinality(D) * b
<1> DEFINE P == Partial(f)
           S == {s \in SUBSET D : P[s] <= Cardinality(s) * b}
<1>1. /\ P[{}] = 0 /\ \A s \in SUBSET D : P[s] \in Nat
      /\ \A s \in SUBSET D : \A x \in s : P[s] = f[x] + P[s \ {x}]
  BY SumOneByOne, SumIsNatural
<1> HIDE DEF P
<1>2. {} \in S
  BY <1>1, FS_EmptySet
<1>3. ASSUME NEW s \in SUBSET D, s # {}, \A x \in s : s \ {x} \in S
      PROVE  s \in S
  <2>1. PICK x \in s : TRUE
    BY <1>3
  <2>2. P[s] = f[x] + P[s \ {x}] /\ f[x] <= b /\ f[x] \in Nat /\ P[s \ {x}] \in Nat
    BY <1>1
  <2>3. Cardinality(s \ {x}) = Cardinality(s) - 1 /\ Cardinality(s) \in Nat
    BY FS_Subset, FS_RemoveElement, FS_CardinalityType
  <2>4. P[s \ {x}] <= (Cardinality(s) - 1) * b
    BY <1>3, <2>3
  <2>5. \A n \in Nat : (n - 1) * b + b = n * b
    OBVIOUS
  <2> DEFINE n == Cardinality(s)
             k == P[s \ {x}]
             l == (n - 1) * b
  <2>6. k \in Nat /\ l \in Int /\ k <= l /\ l + b = n * b /\ n * b \in Int
    BY <2>2, <2>3, <2>4, <2>5
  <2>7. P[s] = f[x] + k
    BY <2>2
  <2> HIDE DEF k, l
  <2>8. P[s] <= n * b
    BY <2>2, <2>6, <2>7
  <2> QED
    BY <2>8
<1> HIDE DEF S
<1>4. D \in S
  <2>1. \A s \in SUBSET D : s \in S
    BY <1>2, <1>3, BySize
  <2> QED
    BY <2>1
<1> QED
  BY <1>1, <1>4, SumIsPartial DEF S, P
-----------------------------------------------------------------------------
\* The distances of the values from their doubled median.
Distances(f) == [j \in DOMAIN f |-> Abs(2 * f[j] - TwiceMedian(f))]

LEMMA DistancesAreNatural ==
    ASSUME NEW D, IsFiniteSet(D), D # {}, NEW f \in [D -> Nat]
    PROVE  /\ TwiceMedian(f) \in Nat
           /\ Distances(f) \in [D -> Nat]
           /\ TwiceMedian(Distances(f)) \in Nat
           /\ SumOf(Distances(f)) \in Nat
           /\ Cardinality(D) \in Nat /\ Cardinality(D) >= 1
<1>1. ASSUME NEW g \in [D -> Nat] PROVE TwiceMedian(g) \in Nat
  <2>1. g \in [D -> Int] /\ \A x \in D : g[x] >= 0
    OBVIOUS
  <2>2. TwiceMedian(g) \in Int /\ TwiceMedian(g) >= 2 * 0
    BY <2>1, MedianIsBounded
  <2> QED
    BY <2>2
<1>2. Distances(f) \in [D -> Nat]
  <2>1. \A c \in Nat, x \in D : Abs(2 * f[x] - c) \in Nat
    BY DEF Abs
  <2>2. TwiceMedian(f) \in Nat
    BY <1>1
  <2> QED
    BY <2>1, <2>2 DEF Distances
<1>3. SumOf(Distances(f)) \in Nat
  <2>1. D \in SUBSET D
    OBVIOUS
  <2> QED
    BY <1>2, <2>1, SumIsNatural, SumIsPartial
<1>4. Cardinality(D) \in Nat /\ Cardinality(D) # 0
  BY FS_CardinalityType, FS_EmptySet
<1> QED
  BY <1>1, <1>2, <1>3, <1>4

\* Unusual, with its abbreviations named.
LEMMA UnusualIs ==
    ASSUME NEW value, NEW f
    PROVE  Unusual(value, f) <=>
             IF TwiceMedian(Distances(f)) > 0
             THEN Abs(2 * value - TwiceMedian(f)) * 2 * 6745 > 35000 * TwiceMedian(Distances(f))
             ELSE Abs(2 * value - TwiceMedian(f)) * Cardinality(DOMAIN f) * 1000000
                    > 4386599 * SumOf(Distances(f))
BY DEF Unusual, Distances

\* Nor does a judgement depend on where the neighbours stand.
LEMMA JudgementMoves ==
    ASSUME NEW D, IsFiniteSet(D), D # {}, NEW f \in [D -> Nat],
           NEW E, NEW g \in [E -> Nat], NEW p \in Bijection(D, E),
           \A x \in D : g[p[x]] = f[x], NEW value
    PROVE  /\ Unusual(value, g) <=> Unusual(value, f)
           /\ _far_enough(value, g) <=> _far_enough(value, f)
<1>1. f \in [D -> Int] /\ g \in [E -> Int] /\ DOMAIN f = D /\ DOMAIN g = E
  OBVIOUS
<1>2. TwiceMedian(g) = TwiceMedian(f)
  BY <1>1, MedianMoves
<1>3. IsFiniteSet(E) /\ Cardinality(E) = Cardinality(D) /\ E # {}
  <2>1. IsFiniteSet(E) /\ Cardinality(E) = Cardinality(D)
    BY FS_Bijection DEF ExistsBijection
  <2> QED
    BY <2>1, FS_EmptySet
<1>4. /\ Distances(f) \in [D -> Nat] /\ Distances(g) \in [E -> Nat]
      /\ Distances(f) \in [D -> Int] /\ Distances(g) \in [E -> Int]
  <2>1. Distances(f) \in [D -> Nat] /\ Distances(g) \in [E -> Nat]
    BY <1>3, DistancesAreNatural
  <2> QED
    BY <2>1
<1>5. \A x \in D : Distances(g)[p[x]] = Distances(f)[x]
  <2>1. \A x \in D : p[x] \in E
    BY DEF Bijection, Injection
  <2> QED
    BY <1>1, <1>2, <2>1 DEF Distances
<1>6. TwiceMedian(Distances(g)) = TwiceMedian(Distances(f))
  BY <1>4, <1>5, MedianMoves
<1>7. SumOf(Distances(g)) = SumOf(Distances(f))
  BY <1>4, <1>5, SumMoves
<1>8. Unusual(value, g) <=> Unusual(value, f)
  BY <1>1, <1>2, <1>3, <1>6, <1>7, UnusualIs
<1>9. _far_enough(value, g) <=> _far_enough(value, f)
  BY <1>2 DEF _far_enough
<1> QED
  BY <1>8, <1>9
-----------------------------------------------------------------------------
\* The ends of the window of position i of n.
Start(i, w) == IF 1 >= i - w \div 2 THEN 1 ELSE i - w \div 2
Stop(n, i, w) == IF n <= i + w \div 2 THEN n ELSE i + w \div 2

From(n, i, w) ==
    IF Stop(n, i, w) - Start(i, w) + 1 >= w \/ Start(i, w) = 1 THEN Start(i, w)
    ELSE IF 1 >= Stop(n, i, w) - w + 1 THEN 1 ELSE Stop(n, i, w) - w + 1

To(n, i, w) ==
    IF Stop(n, i, w) - Start(i, w) + 1 >= w \/ Start(i, w) # 1 THEN Stop(n, i, w)
    ELSE IF n <= w THEN n ELSE w

LEMMA WindowHasEnds ==
    ASSUME NEW n \in Nat, NEW i \in 1..n, NEW w \in Windows
    PROVE  /\ WindowAt(n, i, w) = From(n, i, w) .. To(n, i, w)
           /\ w \in Nat /\ w >= 3 /\ w \div 2 \in Nat
           /\ From(n, i, w) \in 1..n /\ To(n, i, w) \in 1..n
<1>1. w \in Nat /\ w >= 3 /\ w \div 2 \in Nat /\ w \div 2 >= 1 /\ 2 * (w \div 2) <= w
  BY WindowsAreUsable
<1>2. Max({1, i - w \div 2}) = Start(i, w) /\ Min({n, i + w \div 2}) = Stop(n, i, w)
  BY <1>1, MaxOfTwo, MinOfTwo DEF Start, Stop
<1>3. Min({n, w}) = (IF n <= w THEN n ELSE w)
      /\ Max({1, Stop(n, i, w) - w + 1})
            = (IF 1 >= Stop(n, i, w) - w + 1 THEN 1 ELSE Stop(n, i, w) - w + 1)
  <2>1. Stop(n, i, w) \in Int
    BY <1>1 DEF Stop
  <2> QED
    BY <1>1, <2>1, MaxOfTwo, MinOfTwo
<1>4. From(n, i, w) \in 1..n /\ To(n, i, w) \in 1..n
  BY <1>1 DEF From, To, Start, Stop
<1>5. WindowAt(n, i, w) = From(n, i, w) .. To(n, i, w)
  <2> DEFINE a == Start(i, w)
             b == Stop(n, i, w)
             short == b - a + 1 < w
  <2>1. WindowAt(n, i, w) =
          CASE ~short           -> a .. b
            [] short /\ a = 1 -> a .. (IF n <= w THEN n ELSE w)
            [] short /\ a # 1 -> (IF 1 >= b - w + 1 THEN 1 ELSE b - w + 1) .. b
    BY <1>2, <1>3, Zenon DEF WindowAt
  <2>2. b - a + 1 >= w <=> ~short
    BY <1>1 DEF Start, Stop
  <2>3. /\ From(n, i, w) = IF ~short \/ a = 1 THEN a ELSE IF 1 >= b - w + 1 THEN 1 ELSE b - w + 1
        /\ To(n, i, w) = IF ~short \/ a # 1 THEN b ELSE IF n <= w THEN n ELSE w
    BY <2>2, Zenon DEF From, To
  <2> HIDE DEF a, b, short
  <2>4. CASE ~short
    BY <2>1, <2>3, <2>4, Zenon
  <2>5. CASE short /\ a = 1
    BY <2>1, <2>3, <2>5, Zenon
  <2>6. CASE short /\ a # 1
    BY <2>1, <2>3, <2>6, Zenon
  <2> QED
    BY <2>4, <2>5, <2>6
<1> QED
  BY <1>1, <1>4, <1>5

\* Where the window is: within reach, as wide as it can be, the same seen from
\* the other end, and not moved by what comes a window away.
LEMMA WindowIsAround ==
    ASSUME NEW n \in Nat, NEW i \in 1..n, NEW w \in Nat, w >= 3
    PROVE  /\ From(n, i, w) > i - w /\ To(n, i, w) < i + w
           /\ From(n, i, w) <= i /\ To(n, i, w) >= i
           /\ n >= w => To(n, i, w) - From(n, i, w) + 1 >= w
<1> DEFINE h == w \div 2
<1>1. h \in Nat /\ h >= 1 /\ 2 * h <= w /\ w <= 2 * h + 1
  OBVIOUS
<1> HIDE DEF h
<1> QED
  BY <1>1 DEF From, To, Start, Stop, h

LEMMA WindowReversed ==
    ASSUME NEW n \in Nat, NEW i \in 1..n, NEW w \in Nat, w >= 3
    PROVE  /\ From(n, n + 1 - i, w) = n + 1 - To(n, i, w)
           /\ To(n, n + 1 - i, w) = n + 1 - From(n, i, w)
<1> DEFINE h == w \div 2
<1>1. h \in Nat /\ h >= 1 /\ 2 * h <= w /\ w <= 2 * h + 1
  OBVIOUS
<1> HIDE DEF h
<1> QED
  BY <1>1 DEF From, To, Start, Stop, h

LEMMA WindowShifted ==
    ASSUME NEW n \in Nat, NEW i \in 1..n, NEW w \in Nat, w >= 3, NEW j \in 1..(n + 1)
    PROVE  /\ j - i >= w => /\ From(n + 1, i, w) = From(n, i, w)
                            /\ To(n + 1, i, w) = To(n, i, w)
           /\ i - j >= w - 1 => /\ From(n + 1, i + 1, w) = From(n, i, w) + 1
                                /\ To(n + 1, i + 1, w) = To(n, i, w) + 1
<1> DEFINE h == w \div 2
<1>1. h \in Nat /\ h >= 1 /\ 2 * h <= w /\ w <= 2 * h + 1
  OBVIOUS
<1> HIDE DEF h
<1> QED
  BY <1>1 DEF From, To, Start, Stop, h
-----------------------------------------------------------------------------
\* f holds prices of s, at some of its positions.
Holds(f, s) ==
    /\ f \in [DOMAIN f -> Nat]
    /\ IsFiniteSet(DOMAIN f)
    /\ \A x \in DOMAIN f : f[x] = s[x] /\ s[x] \in Prices

\* The positions compared with i.
Near(s, i, w) == {k \in (From(Len(s), i, w) .. To(Len(s), i, w)) \ {i} : s[k] # NoPrice}

LEMMA NeighboursHold ==
    ASSUME NEW s \in Seq(Values), NEW i \in 1..Len(s), NEW w \in Windows
    PROVE  /\ Holds(_neighbours(s, i, w), s)
           /\ DOMAIN _neighbours(s, i, w) = Near(s, i, w)
           /\ Near(s, i, w) \subseteq (1..Len(s)) \ {i}
           /\ _neighbours(s, i, w) = [k \in Near(s, i, w) |-> s[k]]
<1> DEFINE near == _neighbours(s, i, w)
<1>1. /\ WindowAt(Len(s), i, w) = From(Len(s), i, w) .. To(Len(s), i, w)
      /\ From(Len(s), i, w) \in 1..Len(s) /\ To(Len(s), i, w) \in 1..Len(s)
  BY WindowHasEnds
<1>2. DOMAIN near = Near(s, i, w)
  BY <1>1 DEF _neighbours, Near
<1>3. Near(s, i, w) \subseteq (1..Len(s)) \ {i}
  <2>1. \A k \in From(Len(s), i, w) .. To(Len(s), i, w) : k \in 1..Len(s)
    BY <1>1
  <2> QED
    BY <2>1 DEF Near
<1>4. near = [k \in Near(s, i, w) |-> s[k]]
  BY <1>1 DEF _neighbours, Near
<1>5. ASSUME NEW k \in DOMAIN near PROVE near[k] = s[k] /\ s[k] \in Prices /\ s[k] \in Nat
  <2>1. near[k] = s[k]
    BY <1>2, <1>4
  <2>2. s[k] \in Values /\ s[k] # NoPrice
    BY <1>2, <1>3 DEF Near
  <2> QED
    BY <2>1, <2>2, PricesAreNatural DEF Values
<1>6. IsFiniteSet(DOMAIN near)
  <2>1. IsFiniteSet(1..Len(s))
    BY FS_Interval
  <2> QED
    BY <1>2, <1>3, <2>1, FS_Subset
<1>7. near \in [DOMAIN near -> Nat]
  <2> HIDE DEF near
  <2> QED
    BY <1>2, <1>4, <1>5
<1>8. Holds(near, s)
  BY <1>5, <1>6, <1>7, Zenon DEF Holds
<1> QED
  BY <1>2, <1>3, <1>4, <1>8, Zenon

\* Two prices are judged alike if they are the same and their neighbours are.
LEMMA JudgedAlike ==
    ASSUME NEW s, NEW f, Holds(f, s), NEW t, NEW g, Holds(g, t), NEW value,
           NEW p \in Bijection(DOMAIN f, DOMAIN g), \A x \in DOMAIN f : t[p[x]] = s[x]
    PROVE  /\ Cardinality(DOMAIN g) = Cardinality(DOMAIN f)
           /\ Cardinality(DOMAIN f) >= MinNeighbours
                => /\ Unusual(value, g) <=> Unusual(value, f)
                   /\ _far_enough(value, g) <=> _far_enough(value, f)
<1> DEFINE D == DOMAIN f
           E == DOMAIN g
<1>1. /\ f \in [D -> Nat] /\ IsFiniteSet(D) /\ \A x \in D : f[x] = s[x]
      /\ g \in [E -> Nat] /\ \A x \in E : g[x] = t[x]
  BY DEF Holds
<1>2. p \in Bijection(D, E) /\ \A x \in D : t[p[x]] = s[x]
  OBVIOUS
<1> HIDE DEF D, E
<1>3. Cardinality(E) = Cardinality(D)
  BY <1>1, <1>2, FS_Bijection DEF ExistsBijection
<1>4. \A x \in D : g[p[x]] = f[x]
  <2>1. \A x \in D : p[x] \in E
    BY <1>2 DEF Bijection, Injection
  <2> QED
    BY <1>1, <1>2, <2>1
<1>5. ASSUME Cardinality(D) >= MinNeighbours
      PROVE  /\ Unusual(value, g) <=> Unusual(value, f)
             /\ _far_enough(value, g) <=> _far_enough(value, f)
  <2>1. Cardinality(D) # 0
    BY <1>5, NeighboursAreEnough
  <2>2. D # {}
    BY <2>1, FS_EmptySet
  <2> QED
    BY <1>1, <1>2, <1>4, <2>2, JudgementMoves
<1> QED
  BY <1>3, <1>5 DEF D, E

\* A verdict is on the price and its neighbours, wherever they stand.
LEMMA VerdictMoves ==
    ASSUME NEW s \in Seq(Values), NEW i \in 1..Len(s),
           NEW t \in Seq(Values), NEW k \in 1..Len(t), NEW w \in Windows, t[k] = s[i],
           NEW p \in Bijection(DOMAIN _neighbours(s, i, w), DOMAIN _neighbours(t, k, w)),
           \A x \in DOMAIN _neighbours(s, i, w) : t[p[x]] = s[x]
    PROVE  Verdict(t, k, w) = Verdict(s, i, w)
<1> DEFINE f == _neighbours(s, i, w)
           g == _neighbours(t, k, w)
<1>1. Holds(f, s) /\ Holds(g, t)
  BY NeighboursHold, Zenon
<1> HIDE DEF f, g
<1>2. p \in Bijection(DOMAIN f, DOMAIN g) /\ \A x \in DOMAIN f : t[p[x]] = s[x]
  BY Zenon DEF f, g
<1>3. /\ Cardinality(DOMAIN g) = Cardinality(DOMAIN f)
      /\ Cardinality(DOMAIN f) >= MinNeighbours
           => /\ Unusual(s[i], g) <=> Unusual(s[i], f)
              /\ _far_enough(s[i], g) <=> _far_enough(s[i], f)
  BY <1>1, <1>2, JudgedAlike
<1>4. t[k] = s[i]
  OBVIOUS
<1> QED
  BY <1>3, <1>4, Zenon DEF Verdict, f, g

LEMMA VerdictStays ==
    ASSUME NEW s \in Seq(Values), NEW i \in 1..Len(s),
           NEW t \in Seq(Values), NEW k \in 1..Len(t), NEW w \in Windows,
           t[k] = s[i], _neighbours(t, k, w) = _neighbours(s, i, w)
    PROVE  Verdict(t, k, w) = Verdict(s, i, w)
BY Zenon DEF Verdict

\* The inductive invariant: the flags answer the series as it is.
Answered ==
    /\ points \in Seq(Values)
    /\ window \in Windows
    /\ flags = flag_series(points, window)

LEMMA InsertedSeries ==
    ASSUME NEW s \in Seq(Values), NEW j \in 1..(Len(s) + 1), NEW v \in Values
    PROVE  /\ InsertAt(s, j, v) \in Seq(Values)
           /\ Len(InsertAt(s, j, v)) = Len(s) + 1
           /\ InsertAt(s, j, v)[j] = v
           /\ \A k \in 1..(j - 1) : InsertAt(s, j, v)[k] = s[k]
           /\ \A k \in j..Len(s) : InsertAt(s, j, v)[k + 1] = s[k]
<1> DEFINE a == SubSeq(s, 1, j - 1)
           b == SubSeq(s, j, Len(s))
<1>1. /\ a \in Seq(Values) /\ Len(a) = j - 1 /\ \A k \in 1..(j - 1) : a[k] = s[k]
      /\ b \in Seq(Values) /\ Len(b) = Len(s) + 1 - j
      /\ \A k \in j..Len(s) : b[k + 1 - j] = s[k]
  OBVIOUS
<1>2. InsertAt(s, j, v) = (a \o <<v>>) \o b
  BY DEF InsertAt
<1> HIDE DEF a, b
<1> DEFINE c == a \o <<v>>
<1>3. c \in Seq(Values) /\ Len(c) = j /\ c[j] = v /\ \A k \in 1..(j - 1) : c[k] = s[k]
  <2>1. c \in Seq(Values) /\ Len(c) = (j - 1) + 1 /\ c[(j - 1) + 1] = v
    BY <1>1, SMTT(30)
  <2>2. \A k \in 1..(j - 1) : c[k] = a[k]
    BY <1>1
  <2> HIDE DEF c
  <2>3. (j - 1) + 1 = j
    OBVIOUS
  <2> QED
    BY <1>1, <2>1, <2>2, <2>3
<1> HIDE DEF c
<1>4. /\ c \o b \in Seq(Values) /\ Len(c \o b) = Len(s) + 1
      /\ (c \o b)[j] = v /\ \A k \in 1..(j - 1) : (c \o b)[k] = s[k]
  <2>1. c \o b \in Seq(Values) /\ Len(c \o b) = Len(c) + Len(b)
    <3>1. \A x, y \in Seq(Values) : x \o y \in Seq(Values) /\ Len(x \o y) = Len(x) + Len(y)
      OBVIOUS
    <3> QED
      BY <1>1, <1>3, <3>1
  <2>2. \A k \in 1..j : (c \o b)[k] = c[k]
    <3>1. \A x, y \in Seq(Values) : \A k \in 1..Len(x) : (x \o y)[k] = x[k]
      OBVIOUS
    <3> QED
      BY <1>1, <1>3, <3>1
  <2>3. j \in 1..j /\ \A k \in 1..(j - 1) : k \in 1..j
    OBVIOUS
  <2> QED
    BY <1>1, <1>3, <2>1, <2>2, <2>3
<1>5. ASSUME NEW k \in j..Len(s) PROVE (c \o b)[k + 1] = s[k]
  <2>1. k + 1 - j \in 1..Len(b) /\ k + 1 = Len(c) + (k + 1 - j)
    BY <1>1, <1>3
  <2>2. (c \o b)[k + 1] = b[k + 1 - j]
    BY <1>1, <1>3, <2>1
  <2> QED
    BY <1>1, <2>2
<1> QED
  BY <1>2, <1>4, <1>5 DEF c

LEMMA RevisedSeries ==
    ASSUME NEW s \in Seq(Values), NEW j \in 1..Len(s), NEW v \in Values
    PROVE  /\ ReplaceAt(s, j, v) \in Seq(Values)
           /\ Len(ReplaceAt(s, j, v)) = Len(s)
           /\ ReplaceAt(s, j, v)[j] = v
           /\ \A k \in 1..Len(s) : k # j => ReplaceAt(s, j, v)[k] = s[k]
BY DEF ReplaceAt

LEMMA SeriesIsAnswered == SeriesSpec => []Answered
<1>1. SeriesInit => Answered
  <2> SUFFICES ASSUME SeriesInit PROVE Answered
    OBVIOUS
  <2>1. points = <<>> /\ points \in Seq(Values) /\ Len(points) = 0 /\ 1..Len(points) = {}
    BY DEF SeriesInit
  <2>2. flag_series(points, window) = <<>>
    BY <2>1 DEF flag_series
  <2> QED
    BY <2>1, <2>2 DEF SeriesInit, Answered
<1>2. Answered /\ [SeriesNext]_seriesVars => Answered'
  <2> SUFFICES ASSUME Answered, [SeriesNext]_seriesVars PROVE Answered'
    OBVIOUS
  <2>1. ASSUME NEW v \in Values, NEW i \in 1..(Len(points) + 1), Insert(i, v) PROVE Answered'
    BY <2>1, InsertedSeries DEF Insert, Answer, Answered
  <2>2. ASSUME NEW v \in Values, NEW i \in 1..Len(points), Revise(i, v) PROVE Answered'
    BY <2>2, RevisedSeries DEF Revise, Answer, Answered
  <2>3. CASE UNCHANGED seriesVars
    BY <2>3 DEF seriesVars, Answered
  <2> QED
    BY <2>1, <2>2, <2>3 DEF SeriesNext
<1> QED
  BY <1>1, <1>2, PTL DEF SeriesSpec
-----------------------------------------------------------------------------
\* A revision a window away is not among the neighbours.
LEMMA FarRevision ==
    ASSUME NEW s \in Seq(Values), NEW i \in 1..Len(s), NEW w \in Windows,
           NEW j \in 1..Len(s), NEW v \in Values, Abs(i - j) >= w
    PROVE  Verdict(ReplaceAt(s, j, v), i, w) = Verdict(s, i, w)
<1> DEFINE t == ReplaceAt(s, j, v)
<1>1. /\ t \in Seq(Values) /\ Len(t) = Len(s)
      /\ \A k \in 1..Len(s) : k # j => t[k] = s[k]
  BY RevisedSeries, ZenonT(30)
<1> HIDE DEF t
<1>2. i # j /\ t[i] = s[i] /\ w \in Nat /\ w >= 3
  <2>1. i # j /\ w \in Nat /\ w >= 3
    BY WindowsAreUsable DEF Abs
  <2> QED
    BY <1>1, <2>1
<1>3. \A k \in From(Len(s), i, w) .. To(Len(s), i, w) : k \in 1..Len(s) /\ k # j
  <2> DEFINE a == From(Len(s), i, w)
             b == To(Len(s), i, w)
  <2>1. a \in 1..Len(s) /\ b \in 1..Len(s)
    BY WindowHasEnds
  <2>2. a > i - w /\ b < i + w
    BY <1>2, WindowIsAround
  <2> HIDE DEF a, b
  <2>3. ~(a <= j /\ j <= b)
    BY <1>2, <2>1, <2>2 DEF Abs
  <2>4. ASSUME NEW k \in a .. b PROVE k \in 1..Len(s) /\ k # j
    BY <2>1, <2>3
  <2> QED
    BY <2>4 DEF a, b
<1>4. Near(t, i, w) = Near(s, i, w)
  BY <1>1, <1>3 DEF Near
<1>5. \A k \in Near(s, i, w) : t[k] = s[k]
  BY <1>1, <1>3 DEF Near
<1>6. _neighbours(t, i, w) = _neighbours(s, i, w)
  <2>1. /\ _neighbours(t, i, w) = [k \in Near(t, i, w) |-> t[k]]
        /\ _neighbours(s, i, w) = [k \in Near(s, i, w) |-> s[k]]
    BY <1>1, NeighboursHold
  <2> QED
    BY <1>4, <1>5, <2>1
<1> QED
  BY <1>1, <1>2, <1>6, VerdictStays DEF t

\* Nor is a row that comes a window later.
LEMMA LaterRow ==
    ASSUME NEW s \in Seq(Values), NEW i \in 1..Len(s), NEW w \in Windows,
           NEW j \in 1..(Len(s) + 1), NEW v \in Values, j - i >= w
    PROVE  Verdict(InsertAt(s, j, v), i, w) = Verdict(s, i, w)
<1> DEFINE t == InsertAt(s, j, v)
           a == From(Len(s), i, w)
           b == To(Len(s), i, w)
<1>1. /\ t \in Seq(Values) /\ Len(t) = Len(s) + 1
      /\ \A k \in 1..(j - 1) : t[k] = s[k]
  BY InsertedSeries
<1> HIDE DEF t
<1>2. w \in Nat /\ w >= 3 /\ i \in 1..(j - 1) /\ i \in 1..Len(t)
  BY <1>1, WindowsAreUsable
<1>3. From(Len(t), i, w) = a /\ To(Len(t), i, w) = b
  BY <1>1, <1>2, WindowShifted
<1>4. a \in 1..Len(s) /\ b \in 1..Len(s) /\ b < i + w
  BY <1>2, WindowHasEnds, WindowIsAround
<1> HIDE DEF a, b
<1>5. \A k \in a .. b : k \in 1..(j - 1)
  BY <1>2, <1>4
<1>6. Near(t, i, w) = Near(s, i, w) /\ \A k \in Near(s, i, w) : t[k] = s[k]
  BY <1>1, <1>3, <1>5 DEF Near, a, b
<1>7. _neighbours(t, i, w) = _neighbours(s, i, w)
  <2>1. /\ _neighbours(t, i, w) = [k \in Near(t, i, w) |-> t[k]]
        /\ _neighbours(s, i, w) = [k \in Near(s, i, w) |-> s[k]]
    BY <1>1, <1>2, NeighboursHold
  <2> QED
    BY <1>6, <2>1
<1> QED
  BY <1>1, <1>2, <1>7, VerdictStays DEF t

\* One that comes before moves the point and its neighbours alike.
LEMMA EarlierRow ==
    ASSUME NEW s \in Seq(Values), NEW i \in 1..Len(s), NEW w \in Windows,
           NEW j \in 1..(Len(s) + 1), NEW v \in Values, i - j >= w - 1
    PROVE  Verdict(InsertAt(s, j, v), i + 1, w) = Verdict(s, i, w)
<1> DEFINE t == InsertAt(s, j, v)
           a == From(Len(s), i, w)
           b == To(Len(s), i, w)
           D == Near(s, i, w)
           E == Near(t, i + 1, w)
           p == [k \in D |-> k + 1]
<1>1. /\ t \in Seq(Values) /\ Len(t) = Len(s) + 1
      /\ \A k \in j..Len(s) : t[k + 1] = s[k]
  BY InsertedSeries
<1> HIDE DEF t
<1>2. w \in Nat /\ w >= 3 /\ i \in j..Len(s) /\ i + 1 \in 1..Len(t)
  BY <1>1, WindowsAreUsable
<1>3. From(Len(t), i + 1, w) = a + 1 /\ To(Len(t), i + 1, w) = b + 1
  <2>1. /\ From(Len(s) + 1, i + 1, w) = From(Len(s), i, w) + 1
        /\ To(Len(s) + 1, i + 1, w) = To(Len(s), i, w) + 1
    <3>1. Len(s) \in Nat /\ i - j >= w - 1
      OBVIOUS
    <3> HIDE DEF D, E, a, b, p
    <3> QED
      BY <1>2, <3>1, WindowShifted
  <2> QED
    BY <1>1, <2>1
<1>4. a \in 1..Len(s) /\ b \in 1..Len(s) /\ a > i - w
  BY <1>2, WindowHasEnds, WindowIsAround
<1> HIDE DEF a, b
<1>5. \A k \in a .. b : k \in j..Len(s)
  BY <1>2, <1>4
<1>6. \A k \in Int : k \in D <=> k + 1 \in E
  <2>1. \A k \in Int : k \in a .. b <=> k + 1 \in (a + 1) .. (b + 1)
    BY <1>4
  <2>2. \A k \in a .. b : s[k] = t[k + 1]
    BY <1>1, <1>5
  <2> QED
    BY <1>3, <2>1, <2>2 DEF Near, a, b
<1>7. D \subseteq Int /\ E \subseteq Int
  BY <1>3, <1>4 DEF Near, a, b
<1>8. \A k \in D : t[k + 1] = s[k]
  BY <1>1, <1>5 DEF Near, a, b
<1> HIDE DEF D, E
<1>9. p \in Bijection(D, E)
  <2>1. p \in [D -> E]
    BY <1>6, <1>7
  <2>2. \A x, y \in D : p[x] = p[y] => x = y
    BY <1>7
  <2>3. \A y \in E : \E x \in D : p[x] = y
    <3> SUFFICES ASSUME NEW y \in E PROVE \E x \in D : p[x] = y
      OBVIOUS
    <3>1. y - 1 \in Int /\ (y - 1) + 1 = y
      BY <1>7
    <3>2. y - 1 \in D
      BY <1>6, <3>1
    <3> QED
      BY <3>1, <3>2
  <2> HIDE DEF p
  <2> QED
    BY <2>1, <2>2, <2>3 DEF Bijection, Injection, Surjection, IsInjective
<1>10. \A k \in D : t[p[k]] = s[k]
  BY <1>8
<1> HIDE DEF p
<1>11. DOMAIN _neighbours(s, i, w) = D /\ DOMAIN _neighbours(t, i + 1, w) = E
  BY <1>1, <1>2, NeighboursHold DEF D, E
<1>12. t[i + 1] = s[i]
  BY <1>1, <1>2
<1>13. i + 1 \in 1..Len(t) /\ t \in Seq(Values)
  BY <1>1, <1>2
<1>14. Verdict(t, i + 1, w) = Verdict(s, i, w)
  BY <1>9, <1>10, <1>11, <1>12, <1>13, VerdictMoves
<1> QED
  BY <1>14 DEF t

\* What arrives or changes a window or more away leaves a verdict as it was
\* (the reach of the window in _neighbours).
THEOREM DistantNewsIsNoNews == SeriesSpec => FarVerdictsStand
<1> DEFINE Stands ==
      \A i \in DOMAIN points :
          \/ \E v \in Values, j \in 1 .. Len(points) :
                 /\ points' = ReplaceAt(points, j, v)
                 /\ Abs(i - j) < window \/ flags'[i] = flags[i]
          \/ \E v \in Values, j \in 1 .. Len(points) + 1 :
                 /\ points' = InsertAt(points, j, v)
                 /\ \/ j - i < window /\ i - j < window - 1
                    \/ i < j /\ flags'[i] = flags[i]
                    \/ i >= j /\ flags'[i + 1] = flags[i]
<1>1. Answered /\ [SeriesNext]_seriesVars => [Stands]_seriesVars
  <2> SUFFICES ASSUME Answered, SeriesNext PROVE Stands
    OBVIOUS
  <2>1. /\ points \in Seq(Values) /\ window \in Windows /\ DOMAIN points = 1..Len(points)
        /\ window \in Nat /\ window >= 3
        /\ \A i \in 1..Len(points) : flags[i] = Verdict(points, i, window)
    BY WindowsAreUsable DEF Answered, flag_series
  <2>2. ASSUME NEW v \in Values, NEW j \in 1..(Len(points) + 1), Insert(j, v)
        PROVE  Stands
    <3>1. /\ points' = InsertAt(points, j, v) /\ Len(points') = Len(points) + 1
          /\ \A i \in 1..(Len(points) + 1) : flags'[i] = Verdict(InsertAt(points, j, v), i, window)
      BY <2>1, <2>2, InsertedSeries DEF Insert, Answer, flag_series
    <3>2. ASSUME NEW i \in DOMAIN points
          PROVE  \/ j - i < window /\ i - j < window - 1
                 \/ i < j /\ flags'[i] = flags[i]
                 \/ i >= j /\ flags'[i + 1] = flags[i]
      <4>1. i \in 1..Len(points) /\ i \in 1..(Len(points) + 1) /\ i + 1 \in 1..(Len(points) + 1)
        BY <2>1
      <4>2. CASE j - i >= window
        <5>1. flags'[i] = flags[i]
          BY <2>1, <3>1, <4>1, <4>2, LaterRow
        <5> QED
          BY <2>1, <4>1, <4>2, <5>1
      <4>3. CASE i - j >= window - 1
        <5>1. flags'[i + 1] = flags[i]
          BY <2>1, <3>1, <4>1, <4>3, EarlierRow
        <5> QED
          BY <2>1, <4>1, <4>3, <5>1
      <4> QED
        BY <2>1, <4>1, <4>2, <4>3
    <3> QED
      BY <3>1, <3>2
  <2>3. ASSUME NEW v \in Values, NEW j \in 1..Len(points), Revise(j, v)
        PROVE  Stands
    <3>1. /\ points' = ReplaceAt(points, j, v) /\ Len(points') = Len(points)
          /\ \A i \in 1..Len(points) : flags'[i] = Verdict(ReplaceAt(points, j, v), i, window)
      BY <2>1, <2>3, RevisedSeries DEF Revise, Answer, flag_series
    <3>2. ASSUME NEW i \in DOMAIN points
          PROVE  Abs(i - j) < window \/ flags'[i] = flags[i]
      <4>1. i \in 1..Len(points) /\ Abs(i - j) \in Int
        BY <2>1 DEF Abs
      <4>2. CASE Abs(i - j) >= window
        BY <2>1, <3>1, <4>1, <4>2, FarRevision
      <4> QED
        BY <2>1, <4>1, <4>2
    <3> QED
      BY <3>1, <3>2
  <2> HIDE DEF Stands
  <2> QED
    BY <2>2, <2>3 DEF SeriesNext
<1> QED
  BY <1>1, SeriesIsAnswered, PTL DEF SeriesSpec, FarVerdictsStand
-----------------------------------------------------------------------------
\* Read backwards, a point has the neighbours it had.
LEMMA BackwardsIsAlike ==
    ASSUME NEW s \in Seq(Values), NEW i \in 1..Len(s), NEW w \in Windows
    PROVE  /\ Reverse(s) \in Seq(Values) /\ Len(Reverse(s)) = Len(s)
           /\ Verdict(Reverse(s), Len(s) + 1 - i, w) = Verdict(s, i, w)
<1> DEFINE t == Reverse(s)
           n == Len(s)
           k == n + 1 - i
           a == From(n, i, w)
           b == To(n, i, w)
           D == Near(s, i, w)
           E == Near(t, k, w)
           p == [x \in D |-> n + 1 - x]
<1>1. /\ t \in Seq(Values) /\ Len(t) = n
      /\ \A x \in 1..n : t[n + 1 - x] = s[x]
  BY DEF Reverse
<1> HIDE DEF t
<1>2. w \in Nat /\ w >= 3 /\ n \in Nat /\ i \in 1..n /\ k \in 1..Len(t)
  BY <1>1, WindowsAreUsable
<1> HIDE DEF n
<1>3. From(n, k, w) = n + 1 - b /\ To(n, k, w) = n + 1 - a
  BY <1>2, WindowReversed
<1>4. a \in 1..n /\ b \in 1..n
  BY <1>2, WindowHasEnds
<1> HIDE DEF a, b
<1>5. \A x \in Int : x \in D <=> n + 1 - x \in E
  <2>1. \A x \in Int : x \in a .. b <=> n + 1 - x \in (n + 1 - b) .. (n + 1 - a)
    BY <1>2, <1>4
  <2>2. \A x \in a .. b : s[x] = t[n + 1 - x]
    BY <1>1, <1>4
  <2>3. \A x \in Int : x # i <=> n + 1 - x # k
    BY <1>2
  <2>4. /\ D = {x \in (a .. b) \ {i} : s[x] # NoPrice}
        /\ E = {x \in ((n + 1 - b) .. (n + 1 - a)) \ {k} : t[x] # NoPrice}
    BY <1>1, <1>3 DEF Near, a, b, n
  <2> HIDE DEF k, D, E
  <2> QED
    BY <2>1, <2>2, <2>3, <2>4
<1>6. D \subseteq Int /\ E \subseteq Int
  <2>1. \A x \in From(Len(s), i, w) .. To(Len(s), i, w) : x \in Int
    BY <1>4 DEF a, b, n
  <2>2. \A x \in From(Len(t), k, w) .. To(Len(t), k, w) : x \in Int
    BY <1>1, <1>2, <1>3, <1>4
  <2> QED
    BY <2>1, <2>2 DEF Near
<1>7. \A x \in D : t[n + 1 - x] = s[x]
  BY <1>1, <1>4 DEF Near, a, b, n
<1> HIDE DEF D, E
<1>8. p \in Bijection(D, E)
  <2>1. p \in [D -> E]
    BY <1>5, <1>6
  <2>2. \A x, y \in D : p[x] = p[y] => x = y
    BY <1>2, <1>6
  <2>3. \A y \in E : \E x \in D : p[x] = y
    <3> SUFFICES ASSUME NEW y \in E PROVE \E x \in D : p[x] = y
      OBVIOUS
    <3>1. n + 1 - y \in Int /\ n + 1 - (n + 1 - y) = y
      BY <1>2, <1>6
    <3>2. n + 1 - y \in D
      BY <1>5, <3>1
    <3> QED
      BY <3>1, <3>2
  <2> HIDE DEF p
  <2> QED
    BY <2>1, <2>2, <2>3 DEF Bijection, Injection, Surjection, IsInjective
<1>9. \A x \in D : t[p[x]] = s[x]
  BY <1>7
<1> HIDE DEF p
<1>10. DOMAIN _neighbours(s, i, w) = D /\ DOMAIN _neighbours(t, k, w) = E
  BY <1>1, <1>2, NeighboursHold DEF D, E
<1>11. t[k] = s[i] /\ t \in Seq(Values)
  BY <1>1, <1>2
<1>12. Verdict(t, k, w) = Verdict(s, i, w)
  <2> HIDE DEF k
  <2> QED
    BY <1>2, <1>8, <1>9, <1>10, <1>11, VerdictMoves
<1> QED
  BY <1>1, <1>12 DEF t, n

\* With a window's worth of priced days everyone has neighbours.
LEMMA EveryoneIsJudged ==
    ASSUME NEW s \in Seq(Values), NEW i \in 1..Len(s), NEW w \in Windows,
           w > MinNeighbours, Len(s) >= w, NoPrice \notin Range(s)
    PROVE  Verdict(s, i, w) # "unjudged"
<1> DEFINE a == From(Len(s), i, w)
           b == To(Len(s), i, w)
           D == Near(s, i, w)
<1>1. w \in Nat /\ w >= 3 /\ MinNeighbours \in Nat
  BY WindowsAreUsable, NeighboursAreEnough
<1>2. /\ a \in 1..Len(s) /\ b \in 1..Len(s) /\ a <= i /\ i <= b
      /\ b - a + 1 >= w
  BY <1>1, WindowHasEnds, WindowIsAround
<1> HIDE DEF a, b
<1>3. D = (a .. b) \ {i}
  <2>1. \A k \in a .. b : s[k] # NoPrice
    BY <1>2 DEF Range
  <2> QED
    BY <2>1 DEF Near, a, b
<1>4. Cardinality(D) >= MinNeighbours
  <2>1. IsFiniteSet(a .. b) /\ Cardinality(a .. b) = b - a + 1
    BY <1>2, FS_Interval
  <2>2. i \in a .. b
    BY <1>2
  <2>3. Cardinality((a .. b) \ {i}) = (b - a + 1) - 1
    BY <2>1, <2>2, FS_RemoveElement
  <2> HIDE DEF D
  <2> QED
    BY <1>1, <1>2, <1>3, <2>3
<1>5. DOMAIN _neighbours(s, i, w) = D
  BY NeighboursHold
<1> HIDE DEF D
<1> DEFINE judged == Cardinality(DOMAIN _neighbours(s, i, w)) >= MinNeighbours
<1>6. judged
  BY <1>4, <1>5
<1>7. \/ Verdict(s, i, w) = "blank"
      \/ Verdict(s, i, w) = "anomalous"
      \/ Verdict(s, i, w) = "ordinary"
  BY <1>6, Zenon DEF Verdict
<1> QED
  BY <1>7

\* The edges of a series are treated as its middle is (the slide of the window
\* in _neighbours).
THEOREM EndsAreLikeTheRest == SeriesSpec => []EndsAreJudgedLikeTheRest
<1>1. Answered => EndsAreJudgedLikeTheRest
  <2> SUFFICES ASSUME Answered PROVE EndsAreJudgedLikeTheRest
    OBVIOUS
  <2> DEFINE n == Len(points)
  <2>1. /\ points \in Seq(Values) /\ window \in Windows
        /\ DOMAIN flags = 1..n /\ Len(flags) = n
        /\ \A i \in 1..n : flags[i] = Verdict(points, i, window)
    BY DEF Answered, flag_series
  <2>2. flag_series(Reverse(points), window) = Reverse(flags)
    <3>1. Len(Reverse(points)) = n
      BY <2>1 DEF Reverse
    <3>2. ASSUME NEW i \in 1..n
          PROVE  Verdict(Reverse(points), i, window) = flags[(n - i) + 1]
      <4>1. (n - i) + 1 \in 1..n /\ n + 1 - ((n - i) + 1) = i
        BY <2>1
      <4> QED
        BY <2>1, <4>1, BackwardsIsAlike
    <3>3. Reverse(flags) = [i \in 1..n |-> flags[(n - i) + 1]]
      BY <2>1 DEF Reverse
    <3>4. flag_series(Reverse(points), window)
            = [i \in 1..n |-> Verdict(Reverse(points), i, window)]
      BY <3>1 DEF flag_series
    <3> HIDE DEF n
    <3> QED
      BY <3>2, <3>3, <3>4
  <2>3. ASSUME window > MinNeighbours, n >= window, NoPrice \notin Range(points)
        PROVE  "unjudged" \notin Range(flags)
    <3>1. \A i \in 1..n : flags[i] # "unjudged"
      BY <2>1, <2>3, EveryoneIsJudged
    <3> QED
      BY <2>1, <3>1 DEF Range
  <2> QED
    BY <2>2, <2>3 DEF EndsAreJudgedLikeTheRest
<1> QED
  BY <1>1, SeriesIsAnswered, PTL
-----------------------------------------------------------------------------
\* A price further from the median is as unusual, and as far enough.
LEMMA FurtherIsUnusual ==
    ASSUME NEW D, IsFiniteSet(D), D # {}, NEW f \in [D -> Nat],
           NEW u \in Nat, NEW v \in Nat,
           Abs(2 * v - TwiceMedian(f)) >= Abs(2 * u - TwiceMedian(f))
    PROVE  /\ Unusual(u, f) => Unusual(v, f)
           /\ _far_enough(u, f) => _far_enough(v, f)
<1> DEFINE c == TwiceMedian(f)
           x == Abs(2 * u - c)
           y == Abs(2 * v - c)
           mad == TwiceMedian(Distances(f))
           sum == SumOf(Distances(f))
           n == Cardinality(D)
<1>1. c \in Nat /\ mad \in Nat /\ sum \in Nat /\ n \in Nat
  BY DistancesAreNatural
<1>2. DOMAIN f = D
  OBVIOUS
<1> HIDE DEF c, mad, sum, n
<1>3. x \in Nat /\ y \in Nat /\ x <= y
  BY <1>1 DEF Abs, c
<1>4. /\ Unusual(u, f) <=> IF mad > 0 THEN x * 2 * 6745 > 35000 * mad
                          ELSE x * n * 1000000 > 4386599 * sum
      /\ Unusual(v, f) <=> IF mad > 0 THEN y * 2 * 6745 > 35000 * mad
                          ELSE y * n * 1000000 > 4386599 * sum
  BY <1>2, UnusualIs DEF c, mad, sum, n
<1>5. _far_enough(u, f) => _far_enough(v, f)
  <2>1. /\ _far_enough(u, f) <=> IF c = 0 THEN u # 0 ELSE x * 10 >= c
        /\ _far_enough(v, f) <=> IF c = 0 THEN v # 0 ELSE y * 10 >= c
    BY DEF _far_enough, c
  <2>2. c = 0 => x = 2 * u /\ y = 2 * v
    BY DEF Abs
  <2> HIDE DEF x, y
  <2> QED
    BY <1>1, <1>3, <2>1, <2>2
<1> HIDE DEF x, y
<1>6. x * n <= y * n /\ x * n \in Nat /\ y * n \in Nat
  <2>1. \A k \in Nat, l \in Nat, m \in Nat : k <= l => k * m <= l * m
    OBVIOUS
  <2> QED
    BY <1>1, <1>3, <2>1
<1>7. Unusual(u, f) => Unusual(v, f)
  <2> DEFINE k == x * n
             l == y * n
  <2>1. k \in Nat /\ l \in Nat /\ k <= l
    BY <1>6
  <2>2. /\ Unusual(u, f) <=> IF mad > 0 THEN x * 2 * 6745 > 35000 * mad
                            ELSE k * 1000000 > 4386599 * sum
        /\ Unusual(v, f) <=> IF mad > 0 THEN y * 2 * 6745 > 35000 * mad
                            ELSE l * 1000000 > 4386599 * sum
    BY <1>4
  <2> HIDE DEF k, l
  <2> QED
    BY <1>1, <1>3, <2>1, <2>2
<1> QED
  BY <1>5, <1>7

\* The verdict on a price, in one formula.
LEMMA VerdictIs ==
    ASSUME NEW s, NEW i, NEW w
    PROVE  Verdict(s, i, w) = "anomalous" <=>
             /\ s[i] # NoPrice
             /\ Cardinality(DOMAIN _neighbours(s, i, w)) >= MinNeighbours
             /\ Unusual(s[i], _neighbours(s, i, w))
             /\ _far_enough(s[i], _neighbours(s, i, w))
<1> DEFINE near == _neighbours(s, i, w)
           blank == s[i] = NoPrice
           judged == Cardinality(DOMAIN near) >= MinNeighbours
           far == Unusual(s[i], near) /\ _far_enough(s[i], near)
<1>1. Verdict(s, i, w) =
        CASE blank            -> "blank"
          [] ~blank /\ ~judged -> "unjudged"
          [] ~blank /\ judged  -> IF far THEN "anomalous" ELSE "ordinary"
  BY Zenon DEF Verdict
<1> HIDE DEF near, blank, judged, far
<1>2. "blank" # "anomalous" /\ "unjudged" # "anomalous" /\ "ordinary" # "anomalous"
  OBVIOUS
<1>3. CASE blank
  <2>1. Verdict(s, i, w) = "blank"
    BY <1>1, <1>3, Zenon
  <2> QED
    BY <1>2, <1>3, <2>1, Zenon DEF blank
<1>4. CASE ~blank /\ ~judged
  <2>1. Verdict(s, i, w) = "unjudged"
    BY <1>1, <1>4, Zenon
  <2> QED
    BY <1>2, <1>4, <2>1, Zenon DEF judged, near
<1>5. CASE ~blank /\ judged
  <2>1. Verdict(s, i, w) = IF far THEN "anomalous" ELSE "ordinary"
    BY <1>1, <1>5, Zenon
  <2> QED
    BY <1>2, <1>5, <2>1, Zenon DEF blank, judged, far, near
<1> QED
  BY <1>3, <1>4, <1>5, Zenon

\* A spike cannot grow into hiding (the scores of flag_series grow with the
\* distance from the median, and so does the least change).
THEOREM FlagsAreMonotone == SeriesSpec => []FurtherIsStillFlagged
<1>1. Answered => FurtherIsStillFlagged
  <2> SUFFICES ASSUME Answered, NEW i \in DOMAIN points, flags[i] = "anomalous",
                      NEW p \in Prices,
                      Abs(2 * p - TwiceMedian(_neighbours(points, i, window)))
                        >= Abs(2 * points[i] - TwiceMedian(_neighbours(points, i, window)))
               PROVE  Verdict(ReplaceAt(points, i, p), i, window) = "anomalous"
    BY Zenon DEF FurtherIsStillFlagged
  <2> DEFINE f == _neighbours(points, i, window)
             t == ReplaceAt(points, i, p)
  <2>1. /\ points \in Seq(Values) /\ window \in Windows /\ i \in 1..Len(points)
        /\ Verdict(points, i, window) = "anomalous"
    BY DEF Answered, flag_series
  <2>2. /\ points[i] # NoPrice /\ Cardinality(DOMAIN f) >= MinNeighbours
        /\ Unusual(points[i], f) /\ _far_enough(points[i], f)
    BY <2>1, VerdictIs, Zenon
  <2>3. /\ t \in Seq(Values) /\ Len(t) = Len(points) /\ t[i] = p
        /\ \A k \in 1..Len(points) : k # i => t[k] = points[k]
    <3>1. p \in Values
      BY DEF Values
    <3> QED
      BY <2>1, <3>1, RevisedSeries
  <2> HIDE DEF t
  <2>4. _neighbours(t, i, window) = f
    <3>1. /\ _neighbours(t, i, window) = [k \in Near(t, i, window) |-> t[k]]
          /\ f = [k \in Near(points, i, window) |-> points[k]]
          /\ Near(points, i, window) \subseteq (1..Len(points)) \ {i}
          /\ Near(t, i, window) \subseteq (1..Len(points)) \ {i}
      BY <2>1, <2>3, NeighboursHold
    <3>2. Near(t, i, window) = Near(points, i, window)
      <4>1. \A k \in From(Len(points), i, window) .. To(Len(points), i, window) :
               k \in 1..Len(points)
        <5>1. /\ From(Len(points), i, window) \in 1..Len(points)
              /\ To(Len(points), i, window) \in 1..Len(points)
          BY <2>1, WindowHasEnds
        <5> QED
          BY <5>1
      <4> QED
        BY <2>3, <4>1 DEF Near
    <3> HIDE DEF f
    <3> QED
      BY <2>3, <3>1, <3>2
  <2>5. Holds(f, points)
    BY <2>1, NeighboursHold
  <2>6. p \in Nat /\ points[i] \in Nat /\ p # NoPrice
    <3>1. points[i] \in Values
      BY <2>1
    <3>2. points[i] \in Prices
      BY <2>2, <3>1 DEF Values
    <3> QED
      BY <3>2, PricesAreNatural
  <2>7. DOMAIN f # {}
    BY <2>2, FS_EmptySet, NeighboursAreEnough
  <2>8. Abs(2 * p - TwiceMedian(f)) >= Abs(2 * points[i] - TwiceMedian(f))
    OBVIOUS
  <2> HIDE DEF f
  <2>9. Unusual(p, f) /\ _far_enough(p, f)
    BY <2>2, <2>5, <2>6, <2>7, <2>8, FurtherIsUnusual DEF Holds
  <2>10. /\ t[i] # NoPrice /\ Cardinality(DOMAIN _neighbours(t, i, window)) >= MinNeighbours
         /\ Unusual(t[i], _neighbours(t, i, window))
         /\ _far_enough(t[i], _neighbours(t, i, window))
    BY <2>2, <2>3, <2>4, <2>6, <2>9, Zenon
  <2> QED
    BY <2>10, VerdictIs, Zenon DEF t
<1> QED
  BY <1>1, SeriesIsAnswered, PTL
-----------------------------------------------------------------------------
LEMMA HalvesAreRanks ==
    ASSUME NEW n \in Nat, n >= 1
    PROVE  /\ (n + 1) \div 2 \in 1..n /\ n \div 2 + 1 \in 1..n
           /\ (n + 1) \div 2 <= n \div 2 + 1
           /\ n - n \div 2 = (n + 1) \div 2
OBVIOUS

LEMMA OneIsCounted ==
    ASSUME NEW x, NEW S
    PROVE  /\ S \subseteq {x} => Cardinality(S) \in Nat /\ Cardinality(S) <= 1
           /\ IsFiniteSet(S) /\ x \in S => Cardinality(S) >= 1
<1>1. IsFiniteSet({x}) /\ Cardinality({x}) = 1
  BY FS_Singleton
<1>2. ASSUME S \subseteq {x} PROVE Cardinality(S) \in Nat /\ Cardinality(S) <= 1
  <2>1. IsFiniteSet(S) /\ Cardinality(S) <= Cardinality({x})
    BY <1>1, <1>2, FS_Subset, Zenon
  <2> QED
    BY <1>1, <2>1, FS_CardinalityType
<1>3. ASSUME IsFiniteSet(S), x \in S PROVE Cardinality(S) >= 1
  <2>1. Cardinality(S) \in Nat /\ Cardinality(S) # 0
    BY <1>3, FS_CardinalityType, FS_EmptySet
  <2> QED
    BY <2>1
<1> QED
  BY <1>2, <1>3

\* Half of the values are not above the median, half are not below it.
LEMMA HalvesOfMedian ==
    ASSUME NEW D, IsFiniteSet(D), D # {}, NEW f \in [D -> Int]
    PROVE  LET c == TwiceMedian(f)
               h == (Cardinality(D) + 1) \div 2
           IN  /\ Cardinality({x \in D : 2 * f[x] <= c}) >= h
               /\ Cardinality({x \in D : 2 * f[x] >= c}) >= h
<1> DEFINE n == Cardinality(D)
           h == (n + 1) \div 2
           r == n \div 2 + 1
           a == Ranked(f, h)
           b == Ranked(f, r)
           c == TwiceMedian(f)
           L == {x \in D : 2 * f[x] <= c}
           U == {x \in D : 2 * f[x] >= c}
<1>1. n \in Nat /\ n >= 1
  <2>1. Cardinality(D) \in Nat /\ Cardinality(D) # 0
    BY FS_CardinalityType, FS_EmptySet
  <2> QED
    BY <2>1
<1>2. c = a + b
  BY DEF TwiceMedian
<1>3. h \in 1..n /\ r \in 1..n /\ h <= r /\ h \in Nat /\ r \in Nat /\ n - (r - 1) = h
  <2> HIDE DEF n
  <2> QED
    BY <1>1, HalvesAreRanks
<1> HIDE DEF h, r, c
<1>4. /\ a \in Int /\ Cardinality(AtMost(f, a)) >= h
      /\ b \in Int /\ Cardinality(Below(f, b)) < r /\ Cardinality(AtMost(f, b)) >= r
  <2>1. \A k \in 1..n : /\ Ranked(f, k) \in Int
                        /\ Cardinality(Below(f, Ranked(f, k))) < k
                        /\ Cardinality(AtMost(f, Ranked(f, k))) >= k
    BY RankedIsOne, RangeIsFinite
  <2> HIDE DEF n
  <2> QED
    BY <1>3, <2>1
<1>5. a <= b
  <2>1. Cardinality(AtMost(f, b)) >= h
    BY <1>3, <1>4, RangeIsFinite
  <2> HIDE DEF b
  <2>2. \A k \in 1..n : Cardinality(AtMost(f, b)) >= k => Ranked(f, k) <= b
    BY <1>4, RankedIsBounded
  <2> QED
    BY <1>3, <2>1, <2>2
<1> HIDE DEF a, b
<1>6. IsFiniteSet(L) /\ IsFiniteSet(U) /\ Cardinality(L) \in Nat /\ Cardinality(U) \in Nat
  BY FS_Subset, FS_CardinalityType
<1>7. Cardinality(L) >= h
  <2>1. AtMost(f, a) \subseteq L
    BY <1>2, <1>4, <1>5 DEF AtMost
  <2>2. Cardinality(AtMost(f, a)) <= Cardinality(L)
    BY <1>6, <2>1, FS_Subset
  <2> HIDE DEF L
  <2> QED
    BY <1>3, <1>4, <1>6, <2>2, RangeIsFinite
<1>8. Cardinality(U) >= h
  <2>1. D \ Below(f, b) \subseteq U
    BY <1>2, <1>4, <1>5 DEF Below
  <2>2. Cardinality(D \ Below(f, b)) <= Cardinality(U)
    BY <1>6, <2>1, FS_Subset
  <2>3. /\ Below(f, b) \subseteq D
        /\ Cardinality(D \ Below(f, b)) = n - Cardinality(D \cap Below(f, b))
    BY FS_Difference DEF Below
  <2>4. D \cap Below(f, b) = Below(f, b)
    BY <2>3
  <2>5. Cardinality(Below(f, b)) \in Nat
    BY RangeIsFinite
  <2> DEFINE k == Cardinality(Below(f, b))
             l == Cardinality(D \ Below(f, b))
             m == Cardinality(U)
  <2>6. k \in Nat /\ k < r /\ l = n - k /\ l <= m /\ m \in Nat
    BY <1>4, <1>6, <2>2, <2>3, <2>4, <2>5
  <2> HIDE DEF k, l, m, n
  <2>7. m >= h
    BY <1>1, <1>3, <2>6
  <2> QED
    BY <2>7 DEF m
<1> QED
  BY <1>7, <1>8 DEF L, U, c, h

\* The median of two is their sum, halved.
LEMMA MedianOfTwo ==
    ASSUME NEW x, NEW y, x # y, NEW f \in [{x, y} -> Int], f[x] <= f[y]
    PROVE  TwiceMedian(f) = f[x] + f[y]
<1> DEFINE D == {x, y}
<1>1. IsFiniteSet(D) /\ Cardinality(D) = 2
  <2>1. IsFiniteSet({y}) /\ Cardinality({y}) = 1
    BY FS_Singleton
  <2>2. IsFiniteSet({y} \cup {x}) /\ Cardinality({y} \cup {x}) = 1 + 1
    BY <2>1, FS_AddElement
  <2>3. D = {y} \cup {x}
    OBVIOUS
  <2> QED
    BY <2>2, <2>3
<1>2. TwiceMedian(f) = Ranked(f, 1) + Ranked(f, 2)
  <2>1. DOMAIN f = D /\ (2 + 1) \div 2 = 1 /\ 2 \div 2 + 1 = 2
    OBVIOUS
  <2> QED
    BY <1>1, <2>1, Zenon DEF TwiceMedian
<1>3. /\ f[x] \in Int /\ f[y] \in Int /\ 1 \in 1..2 /\ 2 \in 1..2
      /\ f \in [D -> Int]
  OBVIOUS
<1>4. Ranked(f, 1) = f[x]
  <2>1. Below(f, f[x]) = {}
    BY DEF Below
  <2>2. x \in AtMost(f, f[x])
    BY <1>3 DEF AtMost
  <2> HIDE DEF D
  <2>3. Cardinality(Below(f, f[x])) = 0
    BY <2>1, FS_EmptySet
  <2>4. Cardinality(AtMost(f, f[x])) >= 1
    BY <1>1, <1>3, <2>2, OneIsCounted, RangeIsFinite
  <2>5. /\ Ranked(f, 1) \in Int
        /\ Cardinality(AtMost(f, f[x])) >= 1 => Ranked(f, 1) <= f[x]
        /\ Cardinality(Below(f, f[x])) < 1 => Ranked(f, 1) >= f[x]
    BY <1>1, <1>3, RankedIsBounded
  <2> QED
    BY <1>3, <2>3, <2>4, <2>5
<1>5. Ranked(f, 2) = f[y]
  <2>1. AtMost(f, f[y]) = D
    BY <1>3 DEF AtMost
  <2>2. Below(f, f[y]) \subseteq {x}
    BY <1>3 DEF Below
  <2> HIDE DEF D
  <2>3. Cardinality(Below(f, f[y])) < 2
    <3>1. Cardinality(Below(f, f[y])) \in Nat /\ Cardinality(Below(f, f[y])) <= 1
      BY <2>2, OneIsCounted
    <3> QED
      BY <3>1
  <2>4. /\ Ranked(f, 2) \in Int
        /\ Cardinality(AtMost(f, f[y])) >= 2 => Ranked(f, 2) <= f[y]
        /\ Cardinality(Below(f, f[y])) < 2 => Ranked(f, 2) >= f[y]
    BY <1>1, <1>3, RankedIsBounded
  <2> QED
    BY <1>1, <1>3, <2>1, <2>3, <2>4
<1> QED
  BY <1>2, <1>4, <1>5

LEMMA MedianOfPair ==
    ASSUME NEW x, NEW y, x # y, NEW f \in [{x, y} -> Int]
    PROVE  TwiceMedian(f) = f[x] + f[y]
<1>1. f \in [{y, x} -> Int] /\ f[x] \in Int /\ f[y] \in Int
  <2>1. {y, x} = {x, y}
    OBVIOUS
  <2> QED
    BY <2>1
<1>2. CASE f[x] <= f[y]
  BY <1>2, MedianOfTwo
<1>3. CASE f[y] <= f[x]
  <2>1. TwiceMedian(f) = f[y] + f[x]
    BY <1>1, <1>3, MedianOfTwo
  <2> QED
    BY <1>1, <2>1
<1> QED
  BY <1>1, <1>2, <1>3

\* One value among three or more does not take the median out of the others'
\* range.
LEMMA MedianWithstandsOne ==
    ASSUME NEW D, IsFiniteSet(D), Cardinality(D) >= 3, NEW f \in [D -> Int], NEW s,
           NEW lo \in Int, NEW hi \in Int,
           \A x \in D \ {s} : lo <= f[x] /\ f[x] <= hi
    PROVE  2 * lo <= TwiceMedian(f) /\ TwiceMedian(f) <= 2 * hi
<1> DEFINE n == Cardinality(D)
           h == (n + 1) \div 2
           r == n \div 2 + 1
<1>1. n \in Nat /\ n >= 3
  BY FS_CardinalityType
<1>2. TwiceMedian(f) = Ranked(f, h) + Ranked(f, r)
  BY DEF TwiceMedian
<1>3. Cardinality(Below(f, lo)) <= 1
  <2>1. Below(f, lo) \subseteq {s}
    BY DEF Below
  <2> QED
    BY <2>1, OneIsCounted
<1>4. Cardinality(AtMost(f, hi)) >= n - 1
  <2>1. D \ {s} \subseteq AtMost(f, hi)
    BY DEF AtMost
  <2>2. Cardinality(D \ {s}) <= Cardinality(AtMost(f, hi))
    BY <2>1, RangeIsFinite, FS_Subset
  <2>3. Cardinality(D \ {s}) >= n - 1 /\ Cardinality(D \ {s}) \in Nat
    BY <1>1, FS_RemoveElement
  <2> HIDE DEF n
  <2> QED
    BY <1>1, <2>2, <2>3, RangeIsFinite
<1>5. ASSUME NEW k \in 1..n, k >= 2, k <= n - 1
      PROVE  Ranked(f, k) \in Int /\ lo <= Ranked(f, k) /\ Ranked(f, k) <= hi
  <2>1. /\ Ranked(f, k) \in Int
        /\ Cardinality(AtMost(f, hi)) >= k => Ranked(f, k) <= hi
        /\ Cardinality(Below(f, lo)) < k => Ranked(f, k) >= lo
    BY RankedIsBounded
  <2>2. Cardinality(AtMost(f, hi)) \in Nat /\ Cardinality(Below(f, lo)) \in Nat
    BY RangeIsFinite
  <2> HIDE DEF n
  <2> QED
    BY <1>1, <1>3, <1>4, <1>5, <2>1, <2>2
<1>6. h \in 1..n /\ h >= 2 /\ h <= n - 1 /\ r \in 1..n /\ r >= 2 /\ r <= n - 1
  <2> HIDE DEF n
  <2> QED
    BY <1>1
<1>7. /\ Ranked(f, h) \in Int /\ lo <= Ranked(f, h) /\ Ranked(f, h) <= hi
      /\ Ranked(f, r) \in Int /\ lo <= Ranked(f, r) /\ Ranked(f, r) <= hi
  <2> HIDE DEF h, r
  <2> QED
    BY <1>5, <1>6
<1> HIDE DEF h, r
<1> QED
  BY <1>2, <1>7
-----------------------------------------------------------------------------
\* Half of the values lie within the width of their range of the doubled median,
\* all within twice that: their MAD is at most three fourths of it.
LEMMA DeviationIsBounded ==
    ASSUME NEW D, IsFiniteSet(D), D # {}, NEW f \in [D -> Nat],
           NEW lo \in Nat, NEW hi \in Nat, \A x \in D : lo <= f[x] /\ f[x] <= hi
    PROVE  /\ 2 * lo <= TwiceMedian(f) /\ TwiceMedian(f) <= 2 * hi
           /\ TwiceMedian(Distances(f)) <= 3 * (hi - lo)
           /\ \A x \in D : Distances(f)[x] <= 2 * (hi - lo)
<1> DEFINE c == TwiceMedian(f)
           g == Distances(f)
           n == Cardinality(D)
           h == (n + 1) \div 2
           r == n \div 2 + 1
           L == {x \in D : 2 * f[x] <= c}
           U == {x \in D : 2 * f[x] >= c}
           w == hi - lo
<1>1. 2 * lo <= c /\ c <= 2 * hi /\ c \in Nat
  <2>1. f \in [D -> Int]
    OBVIOUS
  <2> HIDE DEF c
  <2>2. c \in Int /\ 2 * lo <= c /\ c <= 2 * hi
    BY <2>1, MedianIsBounded DEF c
  <2> QED
    BY <2>2
<1>2. \A x \in D : g[x] = Abs(2 * f[x] - c)
  BY DEF Distances
<1>3. /\ Cardinality(L) >= h /\ Cardinality(U) >= h
      /\ Cardinality(L) \in Nat /\ Cardinality(U) \in Nat
  <2>1. f \in [D -> Int]
    OBVIOUS
  <2>2. Cardinality(L) >= h /\ Cardinality(U) >= h
    BY <2>1, HalvesOfMedian, Zenon
  <2> QED
    BY <2>2, FS_Subset, FS_CardinalityType
<1>4. g \in [D -> Nat] /\ g \in [D -> Int]
  <2>1. g \in [D -> Nat]
    BY DistancesAreNatural
  <2> QED
    BY <2>1
<1>5. /\ n \in Nat /\ h \in 1..n /\ r \in 1..n /\ h \in Nat
      /\ TwiceMedian(g) = Ranked(g, h) + Ranked(g, r)
  <2>1. n \in Nat /\ n >= 1
    BY DistancesAreNatural
  <2>2. DOMAIN g = D
    BY <1>4
  <2>3. TwiceMedian(g) = Ranked(g, h) + Ranked(g, r)
    BY <2>2, Zenon DEF TwiceMedian
  <2> HIDE DEF g, n
  <2> QED
    BY <2>1, <2>3, HalvesAreRanks
<1>6. \A x \in D : g[x] <= 2 * w
  <2>1. \A x \in D : f[x] \in Nat /\ lo <= f[x] /\ f[x] <= hi
    OBVIOUS
  <2> HIDE DEF c, g
  <2> QED
    BY <1>1, <1>2, <2>1 DEF Abs
<1>7. Cardinality(AtMost(g, w)) >= h
  <2>1. \A x \in D : f[x] \in Nat /\ lo <= f[x] /\ f[x] <= hi
    OBVIOUS
  <2>2. Cardinality(AtMost(g, w)) \in Nat /\ IsFiniteSet(AtMost(g, w))
    BY <1>4, RangeIsFinite
  <2> HIDE DEF c, g
  <2>3. CASE c - 2 * lo <= w
    <3>1. \A x \in L : g[x] <= w
      BY <1>1, <1>2, <2>1, <2>3 DEF Abs
    <3>2. L \subseteq AtMost(g, w)
      BY <1>4, <3>1 DEF AtMost
    <3>3. Cardinality(L) <= Cardinality(AtMost(g, w))
      BY <2>2, <3>2, FS_Subset
    <3> HIDE DEF L, w
    <3> QED
      BY <1>3, <1>5, <2>2, <3>3
  <2>4. CASE 2 * hi - c <= w
    <3>1. \A x \in U : g[x] <= w
      BY <1>1, <1>2, <2>1, <2>4 DEF Abs
    <3>2. U \subseteq AtMost(g, w)
      BY <1>4, <3>1 DEF AtMost
    <3>3. Cardinality(U) <= Cardinality(AtMost(g, w))
      BY <2>2, <3>2, FS_Subset
    <3> HIDE DEF U, w
    <3> QED
      BY <1>3, <1>5, <2>2, <3>3
  <2>5. c - 2 * lo <= w \/ 2 * hi - c <= w
    BY <1>1
  <2> QED
    BY <2>3, <2>4, <2>5
<1>8. Ranked(g, h) \in Int /\ Ranked(g, h) <= w
  <2> HIDE DEF c, g, n, h
  <2>1. n = Cardinality(D)
    BY DEF n
  <2>2. w \in Int
    OBVIOUS
  <2> HIDE DEF w
  <2> QED
    BY <1>4, <1>5, <1>7, <2>1, <2>2, RankedIsBounded
<1>9. Ranked(g, r) \in Int /\ Ranked(g, r) <= 2 * w
  <2> HIDE DEF c, g, r
  <2>1. Ranked(g, r) \in Range(g)
    BY <1>4, <1>5, RankedIsOne
  <2>2. PICK x \in D : Ranked(g, r) = g[x]
    BY <1>4, <2>1 DEF Range
  <2> QED
    BY <1>4, <1>6, <2>2
<1>10. TwiceMedian(g) <= 3 * w
  <2> HIDE DEF c, g, h, r
  <2> QED
    BY <1>5, <1>8, <1>9
<1> QED
  BY <1>1, <1>6, <1>10

\* A price double or half of prices within a tenth of each other stands out.
LEMMA SpikeStandsOut ==
    ASSUME NEW D, IsFiniteSet(D), D # {}, NEW f \in [D -> Nat],
           NEW lo \in Nat, NEW hi \in Nat, hi * 10 < lo * 11,
           \A x \in D : lo <= f[x] /\ f[x] <= hi,
           NEW v \in Nat, v >= 2 * hi \/ 2 * v <= lo
    PROVE  Unusual(v, f) /\ _far_enough(v, f)
<1> DEFINE c == TwiceMedian(f)
           mad == TwiceMedian(Distances(f))
           sum == SumOf(Distances(f))
           n == Cardinality(D)
           d == Abs(2 * v - c)
           w == hi - lo
<1>1. /\ c \in Nat /\ mad \in Nat /\ sum \in Nat /\ n \in Nat /\ n >= 1
      /\ Distances(f) \in [D -> Nat]
  BY DistancesAreNatural
<1>2. /\ 2 * lo <= c /\ c <= 2 * hi /\ mad <= 3 * w
      /\ \A x \in D : Distances(f)[x] <= 2 * w
  BY DeviationIsBounded
<1>3. w \in Nat /\ 10 * w < lo /\ lo > 0
  <2>1. PICK x \in D : lo <= f[x] /\ f[x] <= hi /\ f[x] \in Nat
    OBVIOUS
  <2> QED
    BY <2>1
<1>4. sum <= n * (2 * w)
  BY <1>1, <1>2, <1>3, SumIsBounded
<1> HIDE DEF c, mad, sum, n
<1>5. d \in Nat /\ d >= lo /\ d * 10 >= c
  BY <1>1, <1>2, <1>3 DEF Abs
<1>6. Unusual(v, f) <=> IF mad > 0 THEN d * 2 * 6745 > 35000 * mad
                        ELSE d * n * 1000000 > 4386599 * sum
  <2>1. DOMAIN f = D
    OBVIOUS
  <2> QED
    BY <2>1, UnusualIs DEF c, mad, sum, n
<1>7. _far_enough(v, f)
  <2>1. _far_enough(v, f) <=> IF c = 0 THEN v # 0 ELSE d * 10 >= c
    BY DEF _far_enough, c
  <2> HIDE DEF d
  <2> QED
    BY <1>1, <1>2, <1>3, <1>5, <2>1
<1> HIDE DEF d, w
<1>8. CASE mad > 0
  <2>1. d * 2 * 6745 > 35000 * mad
    BY <1>1, <1>2, <1>3, <1>5
  <2> QED
    BY <1>6, <1>7, <1>8, <2>1
<1>9. CASE ~(mad > 0)
  <2> DEFINE k == d * n
             l == lo * n
             m == w * n
  <2>1. \A x \in Nat, y \in Nat : x <= y => x * n <= y * n
    BY <1>1
  <2>2. k \in Nat /\ l \in Nat /\ m \in Nat /\ l > 0
    BY <1>1, <1>3, <1>5
  <2>3. l <= k
    BY <1>3, <1>5, <2>1
  <2>4. (10 * w) * n <= l
    BY <1>3, <2>1
  <2>5. (10 * w) * n = 10 * m /\ n * (2 * w) = 2 * m
    BY <1>1, <1>3
  <2> HIDE DEF k, l, m
  <2>6. k * 1000000 > 4386599 * sum
    BY <1>1, <1>4, <2>2, <2>3, <2>4, <2>5
  <2> QED
    BY <1>6, <1>7, <1>9, <2>6 DEF k
<1> QED
  BY <1>8, <1>9
\* With one other price a spike is as far from the median as its neighbour is,
\* and nobody is far.
LEMMA NobodyIsFarFromTwo ==
    ASSUME NEW D, NEW s, NEW y, s # y, D = {s, y}, NEW f \in [D -> Nat],
           NEW lo \in Nat, NEW hi \in Nat, hi * 10 < lo * 11,
           lo <= f[y], f[y] <= hi, f[s] >= 2 * hi \/ 2 * f[s] <= lo,
           NEW u \in Nat, lo <= u, u <= hi
    PROVE  ~Unusual(u, f)
<1> DEFINE c == TwiceMedian(f)
           mad == TwiceMedian(Distances(f))
           e == Abs(f[s] - f[y])
<1>1. /\ f[s] \in Nat /\ f[y] \in Nat /\ f[s] # f[y] /\ lo > 0
      /\ f \in [D -> Int] /\ D = {y, s} /\ DOMAIN f = D
  OBVIOUS
<1>2. c = f[s] + f[y]
  BY <1>1, MedianOfPair
<1> HIDE DEF c
<1>3. Distances(f)[s] = e /\ Distances(f)[y] = e /\ e \in Nat /\ e > 0
  <2>1. \A x \in D : Distances(f)[x] = Abs(2 * f[x] - c)
    BY DEF Distances, c
  <2>2. Distances(f)[s] = Abs(2 * f[s] - c) /\ Distances(f)[y] = Abs(2 * f[y] - c)
    BY <2>1
  <2> QED
    BY <1>1, <1>2, <2>2 DEF Abs
<1>4. Distances(f) \in [D -> Int]
  <2>1. \A x \in D : Distances(f)[x] \in Int
    BY <1>3
  <2> QED
    BY <2>1 DEF Distances
<1> HIDE DEF e
<1>5. mad = e + e
  <2> DEFINE g == Distances(f)
  <2>1. g \in [{s, y} -> Int]
    BY <1>4
  <2> HIDE DEF g
  <2>2. TwiceMedian(g) = g[s] + g[y]
    BY <2>1, MedianOfPair
  <2> QED
    BY <1>3, <2>2 DEF g
<1>6. Unusual(u, f) <=> IF mad > 0 THEN Abs(2 * u - c) * 2 * 6745 > 35000 * mad
                        ELSE Abs(2 * u - c) * Cardinality(D) * 1000000
                               > 4386599 * SumOf(Distances(f))
  BY <1>1, UnusualIs DEF c, mad
<1> HIDE DEF mad
<1>7. ~(Abs(2 * u - c) * 2 * 6745 > 35000 * mad)
  <2>1. CASE f[s] >= 2 * hi
    BY <1>1, <1>2, <1>5, <2>1 DEF Abs, e
  <2>2. CASE 2 * f[s] <= lo
    BY <1>1, <1>2, <1>5, <2>2 DEF Abs, e
  <2> QED
    BY <2>1, <2>2
<1>8. mad > 0
  BY <1>3, <1>5
<1> QED
  BY <1>6, <1>7, <1>8

\* Nor does a spike cast suspicion on the prices it stands among.
LEMMA OthersStandIn ==
    ASSUME NEW D, IsFiniteSet(D), Cardinality(D) >= 2, NEW f \in [D -> Nat], NEW s,
           NEW lo \in Nat, NEW hi \in Nat, hi * 10 < lo * 11,
           \A x \in D \ {s} : lo <= f[x] /\ f[x] <= hi,
           s \in D => f[s] >= 2 * hi \/ 2 * f[s] <= lo,
           NEW u \in Nat, lo <= u, u <= hi
    PROVE  ~(Unusual(u, f) /\ _far_enough(u, f))
<1> DEFINE c == TwiceMedian(f)
           n == Cardinality(D)
<1>1. n \in Nat /\ D # {} /\ f \in [D -> Int]
  BY FS_CardinalityType, FS_EmptySet
<1>2. ASSUME 2 * lo <= c, c <= 2 * hi PROVE ~_far_enough(u, f)
  <2>1. _far_enough(u, f) <=> IF c = 0 THEN u # 0 ELSE Abs(2 * u - c) * 10 >= c
    BY DEF _far_enough
  <2>2. c \in Nat
    BY <1>1, DistancesAreNatural
  <2> HIDE DEF c
  <2> QED
    BY <1>2, <2>1, <2>2 DEF Abs
<1>3. CASE n >= 3
  <2>1. 2 * lo <= c /\ c <= 2 * hi
    <3>1. /\ Cardinality(D) >= 3 /\ lo \in Int /\ hi \in Int
          /\ \A x \in D \ {s} : lo <= f[x] /\ f[x] <= hi
      BY <1>3
    <3> QED
      BY <1>1, <3>1, MedianWithstandsOne, Zenon
  <2> QED
    BY <1>2, <2>1
<1>4. CASE s \notin D
  <2>1. \A x \in D : lo <= f[x] /\ f[x] <= hi
    BY <1>4
  <2>2. 2 * lo <= c /\ c <= 2 * hi
    BY <1>1, <2>1, DeviationIsBounded
  <2> QED
    BY <1>2, <2>2
<1>5. CASE n = 2 /\ s \in D
  <2>1. IsFiniteSet(D \ {s}) /\ Cardinality(D \ {s}) = 1
    BY <1>5, FS_RemoveElement
  <2>2. PICK y : D \ {s} = {y}
    BY <2>1, FS_Singleton
  <2>3. s # y /\ D = {s, y} /\ y \in D \ {s}
    BY <1>5, <2>2
  <2> QED
    BY <1>5, <2>3, NobodyIsFarFromTwo
<1> QED
  BY <1>1, <1>3, <1>4, <1>5

\* A lone spike neither hides itself nor casts suspicion on the others (the
\* medians of flag_series and of _deviation_scale).
THEOREM LoneSpikesAreCaught == SeriesSpec => []LoneSpikeIsCaught
<1>1. Answered => LoneSpikeIsCaught
  <2> SUFFICES ASSUME Answered PROVE LoneSpikeIsCaught
    OBVIOUS
  <2> DEFINE PricedDays == {j \in DOMAIN points : points[j] # NoPrice}
             Others(s) == {points[j] : j \in PricedDays \ {s}}
             Spike(s) ==
               /\ s \in PricedDays
               /\ Others(s) # {} /\ Max(Others(s)) * 10 < Min(Others(s)) * 11
               /\ points[s] >= 2 * Max(Others(s)) \/ 2 * points[s] <= Min(Others(s))
             Near1(j) == _neighbours(points, j, window)
  <2>1. /\ points \in Seq(Values) /\ window \in Windows /\ DOMAIN points = 1..Len(points)
        /\ \A j \in 1..Len(points) : flags[j] = Verdict(points, j, window)
    BY DEF Answered, flag_series
  <2>2. \A j \in PricedDays : j \in 1..Len(points) /\ points[j] \in Nat
    <3>1. \A j \in PricedDays : j \in 1..Len(points) /\ points[j] \in Values /\ points[j] # NoPrice
      BY <2>1
    <3> HIDE DEF PricedDays
    <3> QED
      BY <3>1, PricesAreNatural DEF Values
  <2> SUFFICES ASSUME NEW s \in DOMAIN points, Spike(s)
               PROVE  /\ flags[s] \in {"anomalous", "unjudged"}
                      /\ \A j \in PricedDays \ {s} : flags[j] # "anomalous"
    BY Zenon DEF LoneSpikeIsCaught
  <2> DEFINE lo == Min(Others(s))
             hi == Max(Others(s))
  <2>3. /\ s \in PricedDays /\ Others(s) # {} /\ hi * 10 < lo * 11
        /\ points[s] >= 2 * hi \/ 2 * points[s] <= lo
    OBVIOUS
  <2> HIDE DEF Spike
  <2>4. /\ lo \in Nat /\ hi \in Nat
        /\ \A j \in PricedDays \ {s} : lo <= points[j] /\ points[j] <= hi
    <3> DEFINE O == Others(s)
    <3>1. IsFiniteSet(O)
      <4>1. IsFiniteSet(PricedDays \ {s})
        <5>1. IsFiniteSet(1..Len(points))
          BY <2>1, FS_Interval
        <5>2. PricedDays \ {s} \subseteq 1..Len(points)
          BY <2>2
        <5> HIDE DEF PricedDays
        <5> QED
          BY <5>1, <5>2, FS_Subset
      <4> DEFINE g == [j \in PricedDays \ {s} |-> points[j]]
      <4>2. g \in Surjection(PricedDays \ {s}, O)
        BY DEF Surjection
      <4> HIDE DEF g, O, PricedDays
      <4> QED
        BY <4>1, <4>2, FS_Surjection
    <3>2. O \subseteq Nat /\ O \subseteq Int /\ O # {}
      <4> HIDE DEF PricedDays
      <4> QED
        BY <2>2, <2>3
    <3>3. \A j \in PricedDays \ {s} : points[j] \in O
      OBVIOUS
    <3> HIDE DEF O, PricedDays
    <3>4. Max(O) \in O /\ (\A y \in O : Max(O) >= y) /\ Min(O) \in O /\ \A y \in O : Min(O) <= y
      BY <3>1, <3>2, FiniteMax, FiniteMin
    <3>5. /\ Min(O) \in Nat /\ Max(O) \in Nat
          /\ \A j \in PricedDays \ {s} : Min(O) <= points[j] /\ points[j] <= Max(O)
      BY <3>2, <3>3, <3>4
    <3> QED
      BY <3>5, Zenon DEF O
  <2> HIDE DEF lo, hi, Others
  <2>5. ASSUME NEW j \in PricedDays
        PROVE  /\ Near1(j) \in [DOMAIN Near1(j) -> Nat] /\ IsFiniteSet(DOMAIN Near1(j))
               /\ \A x \in DOMAIN Near1(j) : x \in PricedDays \ {j} /\ Near1(j)[x] = points[x]
    <3>1. j \in 1..Len(points)
      BY <2>2
    <3>2. /\ Holds(Near1(j), points) /\ DOMAIN Near1(j) = Near(points, j, window)
          /\ Near(points, j, window) \subseteq (1..Len(points)) \ {j}
      BY <2>1, <3>1, NeighboursHold
    <3>3. \A x \in Near(points, j, window) : x \in PricedDays \ {j}
      BY <2>1, <3>2 DEF Near
    <3> HIDE DEF Near1, PricedDays
    <3> QED
      BY <3>2, <3>3 DEF Holds
  <2>6. flags[s] \in {"anomalous", "unjudged"}
    <3> DEFINE f == Near1(s)
               D == DOMAIN f
    <3>1. /\ f \in [D -> Nat] /\ IsFiniteSet(D) /\ s \in 1..Len(points)
          /\ points[s] \in Nat /\ points[s] # NoPrice
      BY <2>2, <2>3, <2>5
    <3>2. \A x \in D : lo <= f[x] /\ f[x] <= hi
      <4>1. \A x \in D : x \in PricedDays \ {s} /\ f[x] = points[x]
        BY <2>3, <2>5
      <4> HIDE DEF f, PricedDays
      <4> QED
        BY <2>4, <4>1
    <3> HIDE DEF f
    <3>3. CASE Cardinality(D) >= MinNeighbours
      <4>1. D # {}
        BY <3>3, FS_EmptySet, NeighboursAreEnough
      <4>2. Unusual(points[s], f) /\ _far_enough(points[s], f)
        BY <2>3, <2>4, <3>1, <3>2, <4>1, SpikeStandsOut
      <4>3. Verdict(points, s, window) = "anomalous"
        BY <3>1, <3>3, <4>2, VerdictIs, Zenon DEF f
      <4> QED
        BY <2>1, <3>1, <4>3
    <3>4. CASE ~(Cardinality(D) >= MinNeighbours)
      <4>1. Verdict(points, s, window) = "unjudged"
        BY <3>1, <3>4, Zenon DEF Verdict, f
      <4> QED
        BY <2>1, <3>1, <4>1
    <3> QED
      BY <3>3, <3>4
  <2>7. ASSUME NEW j \in PricedDays \ {s}, flags[j] = "anomalous" PROVE FALSE
    <3> DEFINE f == Near1(j)
               D == DOMAIN f
    <3>1. /\ f \in [D -> Nat] /\ IsFiniteSet(D) /\ j \in 1..Len(points)
          /\ points[j] \in Nat
          /\ \A x \in D : x \in PricedDays /\ f[x] = points[x]
      BY <2>2, <2>5
    <3>2. Verdict(points, j, window) = "anomalous"
      BY <2>1, <2>7, <3>1
    <3> HIDE DEF PricedDays
    <3>3. /\ Cardinality(D) >= MinNeighbours
          /\ Unusual(points[j], f) /\ _far_enough(points[j], f)
      BY <3>2, VerdictIs, Zenon
    <3> HIDE DEF f
    <3>4. Cardinality(D) >= 2
      BY <3>1, <3>3, FS_CardinalityType, NeighboursAreEnough
    <3>5. \A x \in D \ {s} : lo <= f[x] /\ f[x] <= hi
      BY <2>4, <3>1
    <3>6. s \in D => f[s] >= 2 * hi \/ 2 * f[s] <= lo
      BY <2>3, <3>1
    <3>7. lo <= points[j] /\ points[j] <= hi
      BY <2>4
    <3> HIDE DEF D
    <3>8. ~(Unusual(points[j], f) /\ _far_enough(points[j], f))
      BY <2>3, <2>4, <3>1, <3>4, <3>5, <3>6, <3>7, OthersStandIn
    <3> QED
      BY <3>3, <3>8
  <2> QED
    BY <2>6, <2>7
<1> QED
  BY <1>1, SeriesIsAnswered, PTL
-----------------------------------------------------------------------------
\* The rows of S that come before x under R, and a strict total order of S.
Earlier(R, S, x) == {y \in S : <<y, x>> \in R}

Orders(R, S) ==
    /\ \A x \in S : <<x, x>> \notin R
    /\ \A x, y \in S : x # y => <<x, y>> \in R \/ <<y, x>> \in R
    /\ \A x, y, z \in S : <<x, y>> \in R /\ <<y, z>> \in R => <<x, z>> \in R

\* A total order gives each row of a finite set a place of its own.
LEMMA EveryoneHasAPlace ==
    ASSUME NEW S, IsFiniteSet(S), NEW R, Orders(R, S)
    PROVE  /\ Cardinality(S) \in Nat
           /\ \A x \in S : Cardinality(Earlier(R, S, x)) \in 0..(Cardinality(S) - 1)
           /\ \A x, y \in S :
                 Cardinality(Earlier(R, S, x)) < Cardinality(Earlier(R, S, y)) <=> <<x, y>> \in R
           /\ \A i \in 1..Cardinality(S) :
                 \E x \in S : Cardinality(Earlier(R, S, x)) = i - 1
<1> DEFINE n == Cardinality(S)
           c(x) == Cardinality(Earlier(R, S, x))
<1>1. n \in Nat
  BY FS_CardinalityType
<1>2. ASSUME NEW x \in S PROVE IsFiniteSet(Earlier(R, S, x)) /\ c(x) \in Nat
  <2>1. Earlier(R, S, x) \subseteq S
    BY DEF Earlier
  <2> QED
    BY <2>1, FS_Subset, FS_CardinalityType
<1>3. ASSUME NEW x \in S PROVE c(x) \in 0..(n - 1)
  <2>1. Earlier(R, S, x) \subseteq S \ {x}
    BY DEF Earlier, Orders
  <2>2. IsFiniteSet(S \ {x}) /\ Cardinality(S \ {x}) = n - 1
    BY FS_RemoveElement
  <2>3. c(x) <= n - 1
    BY <2>1, <2>2, FS_Subset
  <2> HIDE DEF n, c
  <2> QED
    BY <1>1, <1>2, <2>3
<1>4. ASSUME NEW x \in S, NEW y \in S, <<x, y>> \in R PROVE c(x) < c(y)
  <2>1. Earlier(R, S, x) \subseteq Earlier(R, S, y)
    BY <1>4 DEF Earlier, Orders
  <2>2. x \in Earlier(R, S, y) /\ x \notin Earlier(R, S, x)
    BY <1>4 DEF Earlier, Orders
  <2>3. c(x) <= c(y) /\ c(x) # c(y)
    BY <1>2, <2>1, <2>2, FS_Subset
  <2> HIDE DEF c
  <2> QED
    BY <1>2, <2>3
<1>5. ASSUME NEW x \in S, NEW y \in S PROVE c(x) < c(y) <=> <<x, y>> \in R
  <2>1. <<x, y>> \in R \/ x = y \/ <<y, x>> \in R
    BY DEF Orders
  <2>2. c(x) \in Nat /\ c(y) \in Nat
    BY <1>2
  <2> HIDE DEF c
  <2> QED
    BY <1>4, <2>1, <2>2
<1>6. ASSUME NEW i \in 1..n PROVE \E x \in S : c(x) = i - 1
  <2> DEFINE f == [x \in S |-> c(x)]
             T == 0..(n - 1)
  <2>1. IsFiniteSet(T) /\ Cardinality(T) = n
    <3> HIDE DEF n
    <3> QED
      BY <1>1, FS_Interval
  <2> HIDE DEF n, c
  <2>2. f \in [S -> T]
    BY <1>3
  <2>3. \A x, y \in S : f[x] = f[y] => x = y
    <3>1. \A x, y \in S : x # y => c(x) < c(y) \/ c(y) < c(x)
      BY <1>5 DEF Orders
    <3>2. \A x \in S : c(x) \in Nat
      BY <1>2
    <3> QED
      BY <3>1, <3>2
  <2>4. f \in Injection(S, T)
    <3> HIDE DEF f, T
    <3> QED
      BY <2>2, <2>3 DEF Injection, IsInjective
  <2>5. f \in Surjection(S, T)
    <3> HIDE DEF f, T
    <3> QED
      BY <2>1, <2>4, FS_Injection DEF n
  <2>6. i - 1 \in T
    BY <1>1
  <2> HIDE DEF T
  <2> QED
    BY <2>5, <2>6 DEF Surjection
<1> QED
  BY <1>1, <1>3, <1>5, <1>6

\* What ORDER BY, LIMIT and OFFSET select: the rows with so many before them.
Sorted(R, S) ==
    [i \in 1..Cardinality(S) |-> CHOOSE x \in S : Cardinality(Earlier(R, S, x)) = i - 1]

Page(R, S, from) == PageOf(Sorted(R, S), from)

LEMMA PagesAreInOrder ==
    ASSUME NEW S, IsFiniteSet(S), NEW R, Orders(R, S), NEW from \in Nat
    PROVE  /\ Page(R, S, from) \in Seq(S)
           /\ Len(Page(R, S, from)) =
                 IF Cardinality(S) <= from THEN 0
                 ELSE IF Cardinality(S) <= from + Limit THEN Cardinality(S) - from
                 ELSE Limit
           /\ \A i \in 1..Len(Page(R, S, from)) :
                 Cardinality(Earlier(R, S, Page(R, S, from)[i])) = from + i - 1
           /\ \A k \in S :
                 /\ Cardinality(Earlier(R, S, k)) >= from
                 /\ Cardinality(Earlier(R, S, k)) < from + Limit
                 => \E i \in 1..Len(Page(R, S, from)) : Page(R, S, from)[i] = k
<1> DEFINE n == Cardinality(S)
           m == IF from + Limit <= n THEN from + Limit ELSE n
           rows == Sorted(R, S)
           page == Page(R, S, from)
           c(k) == Cardinality(Earlier(R, S, k))
<1>1. /\ n \in Nat /\ \A k \in S : c(k) \in 0..(n - 1)
      /\ \A k, l \in S : c(k) < c(l) <=> <<k, l>> \in R
      /\ \A i \in 1..n : \E k \in S : c(k) = i - 1
  BY EveryoneHasAPlace
<1>2. rows = [i \in 1..n |-> CHOOSE k \in S : c(k) = i - 1]
  BY Zenon DEF Sorted
<1>a. \A k, l \in S : c(k) = c(l) => k = l
  <2>1. \A k, l \in S : k # l => c(k) < c(l) \/ c(l) < c(k)
    BY <1>1 DEF Orders
  <2> HIDE DEF c, n
  <2> QED
    BY <1>1, <2>1
<1> HIDE DEF n, c, rows
<1>3. \A i \in 1..n : rows[i] \in S /\ c(rows[i]) = i - 1
  BY <1>1, <1>2
<1>4. rows \in Seq(S) /\ Len(rows) = n
  BY <1>1, <1>2, <1>3
<1>5. Limit \in Nat /\ Limit >= 1 /\ m \in Nat /\ m <= n
  BY <1>1, LimitIsPositive
<1>6. page = SubSeq(rows, from + 1, m)
  <2>1. Min({from + Limit, n}) = m
    BY <1>1, <1>5, MinOfTwo
  <2> QED
    BY <1>4, <2>1 DEF Page, PageOf, rows
<1> HIDE DEF m
<1>7. /\ page \in Seq(S) /\ Len(page) = (IF m <= from THEN 0 ELSE m - from)
      /\ \A i \in 1..Len(page) : page[i] = rows[from + i]
  BY <1>4, <1>5, <1>6, SMTT(30)
<1> HIDE DEF page
<1>8. \A i \in 1..Len(page) : c(page[i]) = from + i - 1
  <2>1. \A i \in 1..Len(page) : from + i \in 1..n
    BY <1>1, <1>5, <1>7
  <2> QED
    BY <1>3, <1>7, <2>1
<1>9. ASSUME NEW k \in S, c(k) >= from, c(k) < from + Limit
      PROVE  \E i \in 1..Len(page) : page[i] = k
  <2>1. c(k) \in 0..(n - 1)
    BY <1>1
  <2> DEFINE i == c(k) + 1 - from
  <2>2. i \in 1..Len(page) /\ from + i - 1 = c(k)
    BY <1>1, <1>5, <1>7, <1>9, <2>1, SMTT(30) DEF m
  <2>3. c(page[i]) = c(k) /\ page[i] \in S
    BY <1>7, <1>8, <2>2
  <2> HIDE DEF i
  <2>4. page[i] = k
    BY <1>a, <2>3
  <2> QED
    BY <2>2, <2>4
<1>10. Len(page) = IF n <= from THEN 0 ELSE IF n <= from + Limit THEN n - from ELSE Limit
  BY <1>1, <1>5, <1>7 DEF m
<1> QED
  BY <1>7, <1>8, <1>9, <1>10, Zenon DEF page, n, c

\* Before orders the rows of /observations.
Ahead(S, k) == {l \in S : Before(l, k)}

Chronology(S) == {p \in S \X S : Before(p[1], p[2])}

LEMMA RowsHavePlaces ==
    ASSUME NEW S, S \subseteq Keys, IsFiniteSet(S)
    PROVE  /\ Orders(Chronology(S), S)
           /\ \A k \in S : Earlier(Chronology(S), S, k) = Ahead(S, k)
           /\ Cardinality(S) \in Nat
           /\ \A k \in S : Cardinality(Ahead(S, k)) \in 0..(Cardinality(S) - 1)
<1> DEFINE R == Chronology(S)
<1>1. \A k, l \in S : <<k, l>> \in R <=> Before(k, l)
  BY DEF Chronology
<1>2. \A k \in S : Earlier(R, S, k) = Ahead(S, k)
  BY <1>1 DEF Ahead, Earlier
<1> HIDE DEF R
<1>3. Orders(R, S)
  <2>1. \A k \in S : Day[k] \in Int /\ Id[k] \in Int
    BY ColumnsAreNumbers
  <2>2. \A k \in S : ~Before(k, k)
    BY <2>1 DEF Before
  <2>3. \A k, l \in S : k # l => Before(k, l) \/ Before(l, k)
    <3>1. \A k, l \in S : k # l => Id[k] # Id[l]
      BY IdsAreUnique
    <3> QED
      BY <2>1, <3>1 DEF Before
  <2>4. \A k, l, m \in S : Before(k, l) /\ Before(l, m) => Before(k, m)
    BY <2>1 DEF Before
  <2> QED
    BY <1>1, <2>2, <2>3, <2>4 DEF Orders
<1>4. /\ Cardinality(S) \in Nat
      /\ \A k \in S : Cardinality(Earlier(R, S, k)) \in 0..(Cardinality(S) - 1)
  BY <1>3, EveryoneHasAPlace
<1>5. \A k \in S : Cardinality(Ahead(S, k)) \in 0..(Cardinality(S) - 1)
  BY <1>2, <1>4
<1> QED
  BY <1>2, <1>3, <1>4, <1>5 DEF R

Selected(S, from) == PageOf(InOrder(S, Before), from)

LEMMA RowsAreInOrder ==
    ASSUME NEW S, S \subseteq Keys, IsFiniteSet(S), NEW from \in Nat
    PROVE  /\ Selected(S, from) \in Seq(S)
           /\ Len(Selected(S, from)) =
                 IF Cardinality(S) <= from THEN 0
                 ELSE IF Cardinality(S) <= from + Limit THEN Cardinality(S) - from
                 ELSE Limit
           /\ \A i \in 1..Len(Selected(S, from)) :
                 Cardinality(Ahead(S, Selected(S, from)[i])) = from + i - 1
           /\ \A k \in S :
                 /\ Cardinality(Ahead(S, k)) >= from
                 /\ Cardinality(Ahead(S, k)) < from + Limit
                 => \E i \in 1..Len(Selected(S, from)) : Selected(S, from)[i] = k
<1> DEFINE R == Chronology(S)
           rows == InOrder(S, Before)
           page == Page(R, S, from)
<1>1. Orders(R, S) /\ \A k \in S : Earlier(R, S, k) = Ahead(S, k)
  BY RowsHavePlaces
<1>2. rows = [i \in 1..Cardinality(S) |-> CHOOSE k \in S : Cardinality(Ahead(S, k)) = i - 1]
  BY Zenon DEF InOrder, Ahead
<1> HIDE DEF R, rows
<1>3. Selected(S, from) = page
  <2>1. ASSUME NEW i \in 1..Cardinality(S)
        PROVE  (CHOOSE k \in S : Cardinality(Earlier(R, S, k)) = i - 1)
                 = CHOOSE k \in S : Cardinality(Ahead(S, k)) = i - 1
    BY <1>1
  <2>2. Sorted(R, S) = rows
    BY <1>2, <2>1 DEF Sorted
  <2> QED
    BY <2>2, Zenon DEF Selected, Page, rows
<1>4. /\ page \in Seq(S)
      /\ Len(page) = IF Cardinality(S) <= from THEN 0
                     ELSE IF Cardinality(S) <= from + Limit THEN Cardinality(S) - from
                     ELSE Limit
      /\ \A i \in 1..Len(page) : Cardinality(Earlier(R, S, page[i])) = from + i - 1
      /\ \A k \in S :
            /\ Cardinality(Earlier(R, S, k)) >= from
            /\ Cardinality(Earlier(R, S, k)) < from + Limit
            => \E i \in 1..Len(page) : page[i] = k
  BY <1>1, PagesAreInOrder
<1> HIDE DEF page
<1>5. \A i \in 1..Len(page) : page[i] \in S
  BY <1>4
<1>6. \A i \in 1..Len(page) : Cardinality(Ahead(S, page[i])) = from + i - 1
  BY <1>1, <1>4, <1>5
<1>7. \A k \in S :
          /\ Cardinality(Ahead(S, k)) >= from
          /\ Cardinality(Ahead(S, k)) < from + Limit
          => \E i \in 1..Len(page) : page[i] = k
  BY <1>1, <1>4
<1> QED
  BY <1>3, <1>4, <1>6, <1>7, Zenon
-----------------------------------------------------------------------------
\* What a reader of /observations holds, and where it is.
ReaderTyped ==
    /\ history \in [Keys -> Seq(Publication)]
    /\ IsFiniteSet(Stored)
    /\ pc \in {"idle", "count", "page", "anchor", "count_movers", "movers", "done"}
    /\ include_unavailable \in BOOLEAN
    /\ offset \in Nat
    /\ total \in Nat
    /\ received \in Seq(Keys)
    /\ pc = "idle" => received = <<>> /\ offset = 0 /\ arrived = {} /\ left = {}
    /\ pc \in {"anchor", "count_movers", "movers"} => received = <<>>

LEMMA SettledAreFew ==
    ASSUME NEW f \in Files
    PROVE  IsFiniteSet(Settled(Sheet[f])) /\ Settled(Sheet[f]) \subseteq Keys
           /\ \A k \in Settled(Sheet[f]) : FigOf(Sheet[f], k) \in Figs
<1> DEFINE b == Sheet[f]
           g == [i \in 1..Len(b) |-> b[i].key]
           T == {b[i].key : i \in 1..Len(b)}
<1>1. b \in Seq(Observation)
  BY SheetsAreBatches
<1> HIDE DEF b
<1>2. IsFiniteSet(T)
  <2>1. g \in Surjection(1..Len(b), T)
    BY DEF Surjection
  <2>2. IsFiniteSet(1..Len(b))
    BY <1>1, FS_Interval
  <2> HIDE DEF g, T
  <2> QED
    BY <2>1, <2>2, FS_Surjection
<1>3. Settled(b) \subseteq T
  <2> SUFFICES ASSUME NEW k \in Settled(b) PROVE k \in T
    OBVIOUS
  <2>1. PICK x : Described(b, k) = {x}
    BY DEF Settled
  <2>2. PICK i \in DOMAIN b : b[i].key = k
    <3>1. Mentions(b, k) # {}
      BY <2>1 DEF Described
    <3> QED
      BY <3>1 DEF Mentions
  <2> QED
    BY <1>1, <2>2
<1>4. \A k \in Settled(b) : FigOf(b, k) \in Figs
  BY DEF Settled, FigOf
<1>5. Settled(b) \subseteq Keys
  BY DEF Settled
<1> HIDE DEF T
<1>6. IsFiniteSet(Settled(b))
  BY <1>2, <1>3, FS_Subset
<1> QED
  BY <1>4, <1>5, <1>6 DEF b

\* A publication adds rows and takes none away.
LEMMA PublicationsAddRows ==
    ASSUME ReaderTyped, NEW f \in Files, Publish(f)
    PROVE  /\ history' \in [Keys -> Seq(Publication)]
           /\ IsFiniteSet(Stored') /\ Stored \subseteq Stored'
<1>1. /\ IsFiniteSet(Settled(Sheet[f])) /\ Settled(Sheet[f]) \subseteq Keys
      /\ \A k \in Settled(Sheet[f]) : FigOf(Sheet[f], k) \in Figs
  BY SettledAreFew
<1>2. ASSUME NEW k \in Keys
      PROVE  /\ history'[k] \in Seq(Publication)
             /\ history[k] # <<>> => history'[k] # <<>>
             /\ history[k] = <<>> /\ history'[k] # <<>> => k \in Settled(Sheet[f])
  <2>1. history[k] \in Seq(Publication)
    BY DEF ReaderTyped
  <2>2. CASE Changes(history[k], f, k)
    <3> DEFINE p == [fig |-> FigOf(Sheet[f], k), file |-> f]
    <3>1. history'[k] = Append(history[k], p) /\ k \in Settled(Sheet[f])
      BY <2>2 DEF Publish, Changes
    <3>2. p \in Publication
      BY <1>1, <3>1 DEF Publication
    <3> HIDE DEF p
    <3> QED
      BY <2>1, <3>1, <3>2
  <2>3. CASE ~Changes(history[k], f, k)
    <3>1. history'[k] = history[k]
      BY <2>3 DEF Publish
    <3> QED
      BY <2>1, <3>1
  <2> QED
    BY <2>2, <2>3
<1>3. DOMAIN history' = Keys /\ history' = [k \in Keys |-> history'[k]]
  BY DEF Publish
<1>4. history' \in [Keys -> Seq(Publication)]
  BY <1>2, <1>3
<1>5. Stored \subseteq Stored' /\ Stored' \subseteq Stored \cup Settled(Sheet[f])
  BY <1>2 DEF Stored
<1>6. IsFiniteSet(Stored \cup Settled(Sheet[f]))
  BY <1>1, FS_Union DEF ReaderTyped
<1> QED
  BY <1>4, <1>5, <1>6, FS_Subset

LEMMA ListedIsFinite ==
    ASSUME ReaderTyped, NEW incl
    PROVE  IsFiniteSet(Listed(incl)) /\ Listed(incl) \subseteq Keys /\ Listed(incl) \subseteq Stored
<1>1. Listed(incl) \subseteq Stored /\ Stored \subseteq Keys
  BY DEF Listed, Stored
<1> QED
  BY <1>1, FS_Subset DEF ReaderTyped

\* The rows a move may join, and the move they make.
Ends(to, length) ==
    {pair \in Priced(to, length) \X Priced(to, length) :
        /\ Series[pair[1]] = Series[pair[2]]
        /\ from_start(Priced(to, length), pair[1]) = 1
        /\ from_end(Priced(to, length), pair[2]) = 1
        /\ Cardinality({k \in Priced(to, length) : Series[k] = Series[pair[1]]}) >= 2}

MoveOf(pair) ==
    [first |-> pair[1], last |-> pair[2],
     from |-> Average[FigNow(pair[1])], now |-> Average[FigNow(pair[2])]]

LEMMA MovesAreFinite ==
    ASSUME ReaderTyped, NEW to, NEW length
    PROVE  /\ Moves(to, length) = {MoveOf(pair) : pair \in Ends(to, length)}
           /\ IsFiniteSet(Priced(to, length)) /\ Priced(to, length) \subseteq Stored
           /\ IsFiniteSet(Moves(to, length))
<1> DEFINE M == Moves(to, length)
           E == Ends(to, length)
           g == [pair \in E |-> MoveOf(pair)]
<1>1. M = {MoveOf(pair) : pair \in E}
  BY DEF Moves, Ends, MoveOf
<1>2. Priced(to, length) \subseteq Stored
  BY DEF Priced
<1>3. IsFiniteSet(Priced(to, length))
  BY <1>2, FS_Subset DEF ReaderTyped
<1>4. IsFiniteSet(E)
  <2>1. IsFiniteSet(Priced(to, length) \X Priced(to, length))
    BY <1>3, FS_Product
  <2>2. E \subseteq Priced(to, length) \X Priced(to, length)
    BY DEF Ends
  <2> QED
    BY <2>1, <2>2, FS_Subset
<1> HIDE DEF M, E
<1>5. g \in Surjection(E, M)
  BY <1>1 DEF Surjection
<1> HIDE DEF g
<1>6. IsFiniteSet(M)
  BY <1>4, <1>5, FS_Surjection
<1> QED
  BY <1>1, <1>2, <1>3, <1>6 DEF M, E

LEMMA TheReaderIsTyped == ApiSpec => []ReaderTyped
<1>1. ApiInit => ReaderTyped
  <2> SUFFICES ASSUME ApiInit PROVE ReaderTyped
    OBVIOUS
  <2>1. Stored = {}
    BY DEF ApiInit, Stored
  <2>2. IsFiniteSet(Stored)
    BY <2>1, FS_EmptySet
  <2>3. history \in [Keys -> Seq(Publication)]
    <3>1. <<>> \in Seq(Publication)
      OBVIOUS
    <3> QED
      BY <3>1 DEF ApiInit
  <2>4. received \in Seq(Keys)
    BY DEF ApiInit
  <2> QED
    BY <2>2, <2>3, <2>4 DEF ApiInit, ReaderTyped
<1>2. ReaderTyped /\ [ApiNext]_vars => ReaderTyped'
  <2> SUFFICES ASSUME ReaderTyped, [ApiNext]_vars PROVE ReaderTyped'
    OBVIOUS
  <2>1. ASSUME NEW f \in Files, Ingest(f) PROVE ReaderTyped'
    <3>1. history' \in [Keys -> Seq(Publication)] /\ IsFiniteSet(Stored')
      BY <2>1, PublicationsAddRows DEF Ingest
    <3>2. pc = "idle" => arrived' = {} /\ left' = {}
      BY <2>1 DEF Ingest, ReaderTyped
    <3> QED
      BY <2>1, <3>1, <3>2 DEF Ingest, ReaderTyped, request, response
  <2>2. ASSUME UNCHANGED history PROVE IsFiniteSet(Stored')
    BY <2>2 DEF Stored, ReaderTyped
  <2>3. ASSUME NEW incl \in BOOLEAN, AskForObservations(incl) PROVE ReaderTyped'
    BY <2>2, <2>3 DEF AskForObservations, ReaderTyped, response
  <2>4. CASE CountObservations
    <3>1. total' \in Nat
      BY <2>4, ListedIsFinite, FS_CardinalityType DEF CountObservations, _count
    <3> QED
      BY <2>2, <2>4, <3>1 DEF CountObservations, ReaderTyped
  <2>5. CASE SelectObservations
    <3> DEFINE S == Listed(include_unavailable)
    <3>1. items' = Selected(S, offset)
      BY <2>5 DEF SelectObservations, Listing, Selected
    <3>2. Selected(S, offset) \in Seq(S) /\ S \subseteq Keys
      BY ListedIsFinite, RowsAreInOrder DEF ReaderTyped
    <3> HIDE DEF S
    <3>3. items' \in Seq(Keys)
      BY <3>1, <3>2
    <3>4. received' \in Seq(Keys)
      BY <2>5, <3>3 DEF SelectObservations, ReaderTyped
    <3>5. offset' \in Nat /\ pc' \in {"count", "done"}
      BY <2>5, LimitIsPositive DEF SelectObservations, ReaderTyped
    <3>6. IsFiniteSet(Stored')
      BY <2>2, <2>5 DEF SelectObservations
    <3>7. UNCHANGED <<history, include_unavailable, total>>
      BY <2>5 DEF SelectObservations
    <3> QED
      BY <3>4, <3>5, <3>6, <3>7 DEF ReaderTyped
  <2>6. ASSUME NEW day, NEW length, AskForMovers(day, length) PROVE ReaderTyped'
    BY <2>2, <2>6 DEF AskForMovers, ReaderTyped, response
  <2>7. CASE FindAnchor
    <3>1. pc' \in {"done", "count_movers"} /\ received' = <<>>
      BY <2>7, Zenon DEF FindAnchor, ReaderTyped
    <3>2. UNCHANGED <<history, include_unavailable, offset, total>>
      BY <2>7 DEF FindAnchor
    <3> QED
      BY <2>2, <3>1, <3>2 DEF ReaderTyped
  <2>8. CASE CountMovers
    <3>1. total' \in Nat
      BY <2>8, MovesAreFinite, FS_CardinalityType DEF CountMovers
    <3> QED
      BY <2>2, <2>8, <3>1 DEF CountMovers, ReaderTyped
  <2>9. CASE SelectMovers
    BY <2>2, <2>9 DEF SelectMovers, ReaderTyped
  <2>10. CASE UNCHANGED vars
    BY <2>2, <2>10 DEF vars, request, response, ReaderTyped
  <2> QED
    BY <2>1, <2>3, <2>4, <2>5, <2>6, <2>7, <2>8, <2>9, <2>10 DEF ApiNext, ReadNext
<1> QED
  BY <1>1, <1>2, PTL DEF ApiSpec
-----------------------------------------------------------------------------
\* The total is of the listing, until a commit tears the response.
Counted == pc = "page" /\ ~torn => total = _count(include_unavailable)

LEMMA TotalsAreCounted == ApiSpec => []Counted
<1>1. ApiInit => Counted
  BY DEF ApiInit, Counted
<1>2. Counted /\ [ApiNext]_vars => Counted'
  <2> SUFFICES ASSUME Counted, [ApiNext]_vars PROVE Counted'
    OBVIOUS
  <2>1. ASSUME UNCHANGED <<history, include_unavailable>>
        PROVE  _count(include_unavailable)' = _count(include_unavailable)
    BY <2>1 DEF _count, Listed, Stored, FigNow
  <2>2. ASSUME NEW f \in Files, Ingest(f) PROVE Counted'
    <3>1. UNCHANGED <<pc, include_unavailable, total>>
          /\ torn' = (torn \/ (pc \in {"page", "movers"} /\ history' # history))
      BY <2>2 DEF Ingest, request, response
    <3> QED
      BY <2>1, <3>1 DEF Counted
  <2>3. CASE CountObservations
    BY <2>1, <2>3 DEF CountObservations, Counted
  <2>4. CASE UNCHANGED vars
    BY <2>1, <2>4 DEF vars, request, response, Counted
  <2>5. ASSUME pc' # "page" PROVE Counted'
    BY <2>5 DEF Counted
  <2>6. ASSUME NEW incl \in BOOLEAN, AskForObservations(incl) PROVE pc' # "page"
    BY <2>6 DEF AskForObservations
  <2>7. CASE SelectObservations
    BY <2>5, <2>7 DEF SelectObservations
  <2>8. ASSUME NEW day, NEW length, AskForMovers(day, length) PROVE pc' # "page"
    BY <2>8 DEF AskForMovers
  <2>9. CASE FindAnchor
    <3>1. pc' = IF anchor' = NoDay THEN "done" ELSE "count_movers"
      BY <2>9 DEF FindAnchor
    <3> QED
      BY <2>5, <3>1
  <2>10. CASE CountMovers \/ SelectMovers
    BY <2>5, <2>10 DEF CountMovers, SelectMovers
  <2> QED
    BY <2>2, <2>3, <2>4, <2>5, <2>6, <2>7, <2>8, <2>9, <2>10 DEF ApiNext, ReadNext
<1> QED
  BY <1>1, <1>2, PTL DEF ApiSpec
-----------------------------------------------------------------------------
\* A received row is before the offset, or something arrived before it.
Behind(k) ==
    \/ \E l \in arrived : Before(l, k)
    \/ Cardinality(Ahead(Listed(include_unavailable), k)) < offset

ReceivedAreBehind ==
    pc \in {"count", "page"} => \A i \in 1..Len(received) : Behind(received[i])

LEMMA AheadIsFinite ==
    ASSUME NEW S, IsFiniteSet(S), NEW k
    PROVE  IsFiniteSet(Ahead(S, k)) /\ Cardinality(Ahead(S, k)) \in Nat
<1>1. Ahead(S, k) \subseteq S
  BY DEF Ahead
<1> QED
  BY <1>1, FS_Subset, FS_CardinalityType

\* What a page is made of, and where its rows stand in all that was received.
LEMMA APageArrives ==
    ASSUME ReaderTyped, SelectObservations
    PROVE  LET S == Listed(include_unavailable)
               n == Len(received)
           IN  /\ received \in Seq(Keys) /\ items' \in Seq(Keys) /\ received' \in Seq(Keys)
               /\ Len(received') = n + Len(items') /\ Len(items') <= Limit
               /\ \A i \in 1..n : received'[i] = received[i]
               /\ \A i \in (n + 1)..Len(received') :
                     /\ received'[i] = items'[i - n]
                     /\ Cardinality(Ahead(S, received'[i])) = offset + (i - n) - 1
               /\ \A k \in S :
                     /\ Cardinality(Ahead(S, k)) >= offset
                     /\ Cardinality(Ahead(S, k)) < offset + Limit
                     => \E i \in (n + 1)..Len(received') : received'[i] = k
<1> DEFINE S == Listed(include_unavailable)
           n == Len(received)
           page == Selected(S, offset)
           c(k) == Cardinality(Ahead(S, k))
<1>1. IsFiniteSet(S) /\ S \subseteq Keys /\ Cardinality(S) \in Nat
  BY ListedIsFinite, FS_CardinalityType
<1>2. items' = page /\ offset \in Nat /\ received' = received \o page
      /\ received \in Seq(Keys)
  BY DEF SelectObservations, Listing, Selected, ReaderTyped
<1> HIDE DEF S
<1>3. /\ page \in Seq(S)
      /\ Len(page) = IF Cardinality(S) <= offset THEN 0
                     ELSE IF Cardinality(S) <= offset + Limit THEN Cardinality(S) - offset
                     ELSE Limit
      /\ \A i \in 1..Len(page) : c(page[i]) = offset + i - 1
      /\ \A k \in S : c(k) >= offset /\ c(k) < offset + Limit
                        => \E i \in 1..Len(page) : page[i] = k
  BY <1>1, <1>2, RowsAreInOrder
<1> HIDE DEF page, c
<1>4. page \in Seq(Keys) /\ Len(page) <= Limit /\ Limit \in Nat
  BY <1>1, <1>2, <1>3, LimitIsPositive
<1>5. /\ received' \in Seq(Keys) /\ Len(received') = n + Len(page)
      /\ \A i \in 1..n : received'[i] = received[i]
      /\ \A i \in (n + 1)..(n + Len(page)) : received'[i] = page[i - n]
  BY <1>2, <1>4
<1>6. \A i \in (n + 1)..Len(received') : c(received'[i]) = offset + (i - n) - 1
  <2> SUFFICES ASSUME NEW i \in (n + 1)..Len(received')
               PROVE  c(received'[i]) = offset + (i - n) - 1
    OBVIOUS
  <2>1. i - n \in 1..Len(page) /\ received'[i] = page[i - n]
    BY <1>2, <1>4, <1>5
  <2> QED
    BY <1>3, <2>1
<1>7. ASSUME NEW k \in S, c(k) >= offset, c(k) < offset + Limit
      PROVE  \E i \in (n + 1)..Len(received') : received'[i] = k
  <2>1. PICK j \in 1..Len(page) : page[j] = k
    BY <1>3, <1>7
  <2>2. n + j \in (n + 1)..Len(received') /\ (n + j) - n = j
    BY <1>2, <1>4, <1>5, <2>1
  <2>3. received'[n + j] = k
    BY <1>5, <2>1, <2>2
  <2> QED
    BY <2>2, <2>3
<1> QED
  BY <1>2, <1>4, <1>5, <1>6, <1>7, Zenon DEF S, c

\* While a reader reads, a publication moves rows back only by joining.
LEMMA JoiningPushesBack ==
    ASSUME ReaderTyped, NEW f \in Files, Ingest(f), pc \in {"count", "page"}
    PROVE  /\ pc' = pc /\ UNCHANGED <<include_unavailable, offset, received>>
           /\ arrived \subseteq arrived' /\ left \subseteq left'
           /\ Listed(include_unavailable)' \ Listed(include_unavailable) \subseteq arrived'
           /\ Listed(include_unavailable) \ Listed(include_unavailable)' \subseteq left'
           /\ IsFiniteSet(Listed(include_unavailable)) /\ IsFiniteSet(Listed(include_unavailable)')
           /\ include_unavailable
                => Listed(include_unavailable) \subseteq Listed(include_unavailable)'
<1>1. /\ pc' = pc /\ UNCHANGED <<include_unavailable, offset, received>>
      /\ arrived' = arrived \cup (Listed(include_unavailable)' \ Listed(include_unavailable))
      /\ left' = left \cup (Listed(include_unavailable) \ Listed(include_unavailable)')
  BY DEF Ingest, request, response
<1>2. IsFiniteSet(Stored') /\ Stored \subseteq Stored'
  BY PublicationsAddRows DEF Ingest
<1>3. Listed(include_unavailable)' \subseteq Stored'
  BY DEF Listed
<1>4. IsFiniteSet(Listed(include_unavailable)')
  BY <1>2, <1>3, FS_Subset
<1>5. ASSUME include_unavailable
      PROVE  Listed(include_unavailable) \subseteq Listed(include_unavailable)'
  BY <1>1, <1>2, <1>5 DEF Listed
<1> QED
  BY <1>1, <1>4, <1>5, ListedIsFinite

LEMMA ReceivedStayBehind == ApiSpec => [](ReceivedAreBehind /\ RepeatsWerePushedBack)
<1> DEFINE I == ReceivedAreBehind /\ RepeatsWerePushedBack
<1>1. ApiInit => I
  <2> SUFFICES ASSUME ApiInit PROVE I
    OBVIOUS
  <2>1. pc = "idle" /\ DOMAIN received = {}
    BY DEF ApiInit
  <2> QED
    BY <2>1 DEF ReceivedAreBehind, RepeatsWerePushedBack
<1>2. ReaderTyped /\ I /\ [ApiNext]_vars => I'
  <2> SUFFICES ASSUME ReaderTyped, ReceivedAreBehind, RepeatsWerePushedBack, [ApiNext]_vars
               PROVE  ReceivedAreBehind' /\ RepeatsWerePushedBack'
    OBVIOUS
  <2>1. ASSUME UNCHANGED received, arrived \subseteq arrived' PROVE RepeatsWerePushedBack'
    BY <2>1 DEF RepeatsWerePushedBack
  <2>2. ASSUME UNCHANGED <<history, include_unavailable, offset, received, arrived>>,
               pc \in {"count", "page"} \/ pc' \notin {"count", "page"}
        PROVE  ReceivedAreBehind' /\ RepeatsWerePushedBack'
    <3>1. Listed(include_unavailable)' = Listed(include_unavailable)
      BY <2>2 DEF Listed, Stored, FigNow
    <3> QED
      BY <2>1, <2>2, <3>1 DEF ReceivedAreBehind, Behind
  <2>3. ASSUME NEW f \in Files, Ingest(f) PROVE ReceivedAreBehind' /\ RepeatsWerePushedBack'
    <3>1. CASE pc \in {"count", "page"}
      <4>1. RepeatsWerePushedBack'
        BY <2>1, <2>3, <3>1, JoiningPushesBack
      <4>2. ASSUME NEW k, Behind(k) PROVE Behind(k)'
        <5> DEFINE was == Ahead(Listed(include_unavailable), k)
                   is == Ahead(Listed(include_unavailable)', k)
        <5>1. CASE \E l \in arrived : Before(l, k)
          BY <2>3, <3>1, <5>1, JoiningPushesBack DEF Behind
        <5>2. CASE \E l \in is : l \notin was
          <6>1. PICK l \in is : l \notin was
            BY <5>2
          <6>2. /\ Before(l, k)
                /\ l \in Listed(include_unavailable)' /\ l \notin Listed(include_unavailable)
            BY <6>1 DEF Ahead
          <6>3. l \in arrived'
            BY <2>3, <3>1, <6>2, JoiningPushesBack
          <6> QED
            BY <6>2, <6>3 DEF Behind
        <5>3. CASE Cardinality(was) < offset /\ is \subseteq was
          <6>1. /\ IsFiniteSet(was) /\ Cardinality(was) \in Nat
                /\ Cardinality(is) <= Cardinality(was) /\ Cardinality(is) \in Nat
            BY <2>3, <3>1, <5>3, JoiningPushesBack, AheadIsFinite, FS_Subset
          <6>2. offset' = offset /\ offset \in Nat
            BY <2>3, <3>1, JoiningPushesBack DEF ReaderTyped
          <6> HIDE DEF was, is
          <6>3. Cardinality(is) < offset'
            BY <5>3, <6>1, <6>2
          <6> QED
            BY <6>3 DEF Behind, is
        <5> QED
          BY <4>2, <5>1, <5>2, <5>3 DEF Behind
      <4>3. ReceivedAreBehind'
        BY <2>3, <3>1, <4>2, JoiningPushesBack DEF ReceivedAreBehind
      <4> QED
        BY <4>1, <4>3
    <3>2. CASE pc \notin {"count", "page"}
      BY <2>1, <2>3, <3>2 DEF Ingest, request, response, ReceivedAreBehind
    <3> QED
      BY <3>1, <3>2
  <2>4. ASSUME NEW incl \in BOOLEAN, AskForObservations(incl)
        PROVE  ReceivedAreBehind' /\ RepeatsWerePushedBack'
    <3>1. received' = <<>> /\ UNCHANGED <<received, arrived>>
      BY <2>4 DEF AskForObservations, response, ReaderTyped
    <3> QED
      BY <2>1, <3>1 DEF ReceivedAreBehind
  <2>5. CASE CountObservations
    <3>1. UNCHANGED <<history, include_unavailable, offset, received, arrived>>
          /\ pc \in {"count", "page"}
      BY <2>5 DEF CountObservations
    <3> QED
      BY <2>2, <3>1
  <2>6. CASE SelectObservations
    <3> DEFINE S == Listed(include_unavailable)
               n == Len(received)
    <3>1. /\ received \in Seq(Keys) /\ received' \in Seq(Keys)
          /\ Len(received') = n + Len(items') /\ Len(items') <= Limit
          /\ \A i \in 1..n : received'[i] = received[i]
          /\ \A i \in (n + 1)..Len(received') :
                Cardinality(Ahead(S, received'[i])) = offset + (i - n) - 1
      BY <2>6, APageArrives
    <3>2. /\ offset \in Nat /\ n \in Nat /\ Len(received') \in Nat
          /\ pc \in {"count", "page"} /\ arrived' = arrived
          /\ Listed(include_unavailable)' = S
      BY <2>6, <3>1 DEF SelectObservations, ReaderTyped, Listed, Stored, FigNow
    <3>3. \A i \in 1..n : Behind(received[i])
      BY <3>2 DEF ReceivedAreBehind
    <3>4. RepeatsWerePushedBack'
      <4> SUFFICES ASSUME NEW i \in 1..Len(received'), NEW j \in 1..Len(received'),
                          i < j, received'[i] = received'[j]
                   PROVE  \E k \in arrived : Before(k, received'[i])
        BY <3>1, <3>2 DEF RepeatsWerePushedBack
      <4>1. CASE j <= n
        <5>1. i \in DOMAIN received /\ j \in DOMAIN received
              /\ received'[i] = received[i] /\ received'[j] = received[j]
          BY <3>1, <3>2, <4>1
        <5> QED
          BY <5>1 DEF RepeatsWerePushedBack
      <4>2. CASE i <= n /\ n < j
        <5>1. received'[i] = received[i] /\ Behind(received[i])
          BY <3>1, <3>2, <3>3, <4>2
        <5>2. Cardinality(Ahead(S, received'[j])) = offset + (j - n) - 1
          BY <3>1, <3>2, <4>2
        <5>3. ~(Cardinality(Ahead(S, received'[i])) < offset)
          <6> HIDE DEF S
          <6> QED
            BY <3>2, <4>2, <5>2
        <5> QED
          BY <5>1, <5>3 DEF Behind
      <4>3. CASE n < i
        <5>1. /\ Cardinality(Ahead(S, received'[i])) = offset + (i - n) - 1
              /\ Cardinality(Ahead(S, received'[j])) = offset + (j - n) - 1
          BY <3>1, <3>2, <4>3
        <5> HIDE DEF S
        <5>2. offset + (i - n) - 1 = offset + (j - n) - 1
          BY <5>1
        <5> QED
          BY <3>2, <5>2
      <4> QED
        BY <3>2, <4>1, <4>2, <4>3
    <3>5. CASE pc' = "count"
      <4>1. offset' = offset + Limit /\ Limit \in Nat
        BY <2>6, <3>5, LimitIsPositive DEF SelectObservations
      <4>2. ASSUME NEW i \in 1..Len(received') PROVE Behind(received[i])'
        <5>1. CASE i <= n
          <6>1. received'[i] = received[i] /\ Behind(received[i])
            BY <3>1, <3>2, <3>3, <5>1
          <6>2. CASE \E l \in arrived : Before(l, received[i])
            BY <3>2, <6>1, <6>2 DEF Behind
          <6>3. CASE Cardinality(Ahead(S, received[i])) < offset
            <7>1. Cardinality(Ahead(S, received[i])) \in Nat
              BY ListedIsFinite, AheadIsFinite
            <7> DEFINE m == Cardinality(Ahead(S, received[i]))
            <7>2. m < offset'
              <8> HIDE DEF m
              <8> QED
                BY <3>2, <4>1, <6>3, <7>1 DEF m
            <7> QED
              BY <3>2, <6>1, <7>2 DEF Behind
          <6> QED
            BY <6>1, <6>2, <6>3 DEF Behind
        <5>2. CASE n < i
          <6>1. Cardinality(Ahead(S, received'[i])) = offset + (i - n) - 1
            BY <3>1, <3>2, <5>2
          <6> DEFINE m == Cardinality(Ahead(S, received'[i]))
          <6>2. m < offset'
            <7> HIDE DEF m, S
            <7> QED
              BY <3>1, <3>2, <4>1, <5>2, <6>1 DEF m
          <6> QED
            BY <3>2, <6>2 DEF Behind
        <5> QED
          BY <3>2, <5>1, <5>2
      <4> QED
        BY <3>4, <4>2 DEF ReceivedAreBehind
    <3>6. CASE pc' = "done"
      BY <3>4, <3>6 DEF ReceivedAreBehind
    <3> QED
      BY <2>6, <3>5, <3>6 DEF SelectObservations
  <2>7. ASSUME NEW day, NEW length, AskForMovers(day, length)
        PROVE  ReceivedAreBehind' /\ RepeatsWerePushedBack'
    BY <2>2, <2>7 DEF AskForMovers, response
  <2>8. CASE FindAnchor
    <3>1. pc' = IF anchor' = NoDay THEN "done" ELSE "count_movers"
      BY <2>8 DEF FindAnchor
    <3>2. UNCHANGED <<history, include_unavailable, offset, received, arrived>>
      BY <2>8 DEF FindAnchor
    <3> QED
      BY <2>2, <3>1, <3>2
  <2>9. CASE CountMovers
    BY <2>2, <2>9 DEF CountMovers
  <2>10. CASE SelectMovers
    BY <2>2, <2>10 DEF SelectMovers
  <2>11. CASE UNCHANGED vars
    <3>1. UNCHANGED <<history, include_unavailable, offset, received, arrived, pc>>
      BY <2>11 DEF vars, request, response
    <3> QED
      BY <2>2, <3>1
  <2> QED
    BY <2>3, <2>4, <2>5, <2>6, <2>7, <2>8, <2>9, <2>10, <2>11 DEF ApiNext, ReadNext
<1> QED
  BY <1>1, <1>2, TheReaderIsTyped, PTL DEF ApiSpec

\* A row comes twice only when one published ahead of it pushed it back (the
\* order of list_observations ends in the id).
THEOREM RepeatsHaveACause == ApiSpec => []RepeatsWerePushedBack
BY ReceivedStayBehind, PTL
-----------------------------------------------------------------------------
\* A row listed all along has been received, or is at the offset or after it,
\* as long as nothing ahead of it left.
Owed(k) == Cardinality(Ahead(Listed(include_unavailable), k)) >= offset

NothingIsSkipped ==
    pc \in {"count", "page"} /\ (include_unavailable \/ left = {}) =>
        \A k \in Listed(include_unavailable) \ arrived :
            Owed(k) \/ \E i \in 1..Len(received) : received[i] = k

LEMMA RowsAreNotSkipped == ApiSpec => []NothingIsSkipped
<1>1. ApiInit => NothingIsSkipped
  BY DEF ApiInit, NothingIsSkipped
<1>2. ReaderTyped /\ NothingIsSkipped /\ [ApiNext]_vars => NothingIsSkipped'
  <2> SUFFICES ASSUME ReaderTyped, NothingIsSkipped, [ApiNext]_vars PROVE NothingIsSkipped'
    OBVIOUS
  <2>1. ASSUME UNCHANGED <<history, include_unavailable, offset, received, arrived, left>>,
               pc \in {"count", "page"} \/ pc' \notin {"count", "page"}
        PROVE  NothingIsSkipped'
    <3>1. Listed(include_unavailable)' = Listed(include_unavailable)
      BY <2>1 DEF Listed, Stored, FigNow
    <3> QED
      BY <2>1, <3>1 DEF NothingIsSkipped, Owed
  <2>2. ASSUME NEW f \in Files, Ingest(f) PROVE NothingIsSkipped'
    <3>1. CASE pc \in {"count", "page"}
      <4> DEFINE was == Listed(include_unavailable)
                 is == Listed(include_unavailable)'
      <4> SUFFICES ASSUME include_unavailable' \/ left' = {}, NEW k \in is, k \notin arrived'
                   PROVE  Owed(k)' \/ \E i \in 1..Len(received') : received'[i] = k
        BY DEF NothingIsSkipped
      <4>1. /\ UNCHANGED <<include_unavailable, offset, received>>
            /\ arrived \subseteq arrived' /\ left \subseteq left'
            /\ is \ was \subseteq arrived' /\ was \ is \subseteq left'
            /\ IsFiniteSet(was) /\ IsFiniteSet(is)
            /\ include_unavailable => was \subseteq is
        BY <2>2, <3>1, JoiningPushesBack
      <4>2. k \in was /\ k \notin arrived /\ was \subseteq is
            /\ (include_unavailable \/ left = {})
        BY <4>1
      <4>3. CASE \E i \in 1..Len(received) : received[i] = k
        BY <4>1, <4>3
      <4>4. CASE Owed(k)
        <5>1. Ahead(was, k) \subseteq Ahead(is, k)
          BY <4>2 DEF Ahead
        <5>2. /\ Cardinality(Ahead(was, k)) \in Nat /\ Cardinality(Ahead(is, k)) \in Nat
              /\ Cardinality(Ahead(was, k)) <= Cardinality(Ahead(is, k))
          BY <4>1, <5>1, AheadIsFinite, FS_Subset
        <5> DEFINE m == Cardinality(Ahead(was, k))
                   l == Cardinality(Ahead(is, k))
        <5>3. m >= offset /\ offset \in Nat
          BY <4>4 DEF Owed, ReaderTyped
        <5>4. l >= offset
          <6>1. m \in Nat /\ l \in Nat /\ m <= l
            BY <5>2
          <6> HIDE DEF m, l
          <6> QED
            BY <5>3, <6>1
        <5> QED
          BY <4>1, <5>4 DEF Owed
      <4> QED
        BY <3>1, <4>2, <4>3, <4>4 DEF NothingIsSkipped
    <3>2. CASE pc \notin {"count", "page"}
      BY <2>2, <3>2 DEF Ingest, request, NothingIsSkipped
    <3> QED
      BY <3>1, <3>2
  <2>3. ASSUME NEW incl \in BOOLEAN, AskForObservations(incl) PROVE NothingIsSkipped'
    <3>1. offset' = 0 /\ UNCHANGED history
      BY <2>3 DEF AskForObservations, ReaderTyped
    <3>2. IsFiniteSet(Stored') /\ Listed(include_unavailable)' \subseteq Stored'
      BY <3>1 DEF Listed, Stored, ReaderTyped
    <3>3. IsFiniteSet(Listed(include_unavailable)')
      BY <3>2, FS_Subset
    <3>4. ASSUME NEW k PROVE Owed(k)'
      <4>1. Cardinality(Ahead(Listed(include_unavailable)', k)) \in Nat
        BY <3>3, AheadIsFinite
      <4> QED
        BY <3>1, <4>1 DEF Owed
    <3> QED
      BY <3>4 DEF NothingIsSkipped
  <2>4. CASE CountObservations
    BY <2>1, <2>4 DEF CountObservations
  <2>5. CASE SelectObservations
    <3> DEFINE S == Listed(include_unavailable)
               n == Len(received)
    <3> SUFFICES ASSUME pc' \in {"count", "page"}, include_unavailable' \/ left' = {},
                        NEW k \in Listed(include_unavailable)', k \notin arrived'
                 PROVE  Owed(k)' \/ \E i \in 1..Len(received') : received'[i] = k
      BY DEF NothingIsSkipped
    <3>1. /\ pc \in {"count", "page"} /\ UNCHANGED <<include_unavailable, left, arrived>>
          /\ Listed(include_unavailable)' = S /\ k \in S /\ offset' = offset + Limit
          /\ Limit \in Nat /\ offset \in Nat
      BY <2>5, LimitIsPositive DEF SelectObservations, Listed, Stored, FigNow, ReaderTyped
    <3>2. /\ n \in Nat /\ Len(received') \in Nat /\ n <= Len(received')
          /\ \A i \in 1..n : received'[i] = received[i]
          /\ /\ Cardinality(Ahead(S, k)) >= offset
             /\ Cardinality(Ahead(S, k)) < offset + Limit
             => \E i \in (n + 1)..Len(received') : received'[i] = k
      <4>1. /\ received \in Seq(Keys) /\ items' \in Seq(Keys) /\ received' \in Seq(Keys)
            /\ Len(received') = n + Len(items')
            /\ \A i \in 1..n : received'[i] = received[i]
            /\ /\ Cardinality(Ahead(S, k)) >= offset
               /\ Cardinality(Ahead(S, k)) < offset + Limit
               => \E i \in (n + 1)..Len(received') : received'[i] = k
        BY <2>5, <3>1, APageArrives
      <4>2. n \in Nat /\ Len(items') \in Nat
        BY <4>1
      <4> HIDE DEF n, S
      <4> QED
        BY <4>1, <4>2
    <3>3. Owed(k) \/ \E i \in 1..n : received[i] = k
      BY <3>1 DEF NothingIsSkipped
    <3>4. CASE \E i \in 1..n : received[i] = k
      BY <3>2, <3>4
    <3>5. CASE Owed(k)
      <4> DEFINE m == Cardinality(Ahead(S, k))
      <4>1. m \in Nat /\ m >= offset
        BY <3>5, ListedIsFinite, AheadIsFinite DEF Owed
      <4>2. CASE m < offset + Limit
        <5>1. \E i \in (n + 1)..Len(received') : received'[i] = k
          BY <3>2, <4>1, <4>2
        <5> QED
          BY <3>2, <5>1
      <4>3. CASE ~(m < offset + Limit)
        <5>1. m >= offset'
          <6> HIDE DEF m
          <6> QED
            BY <3>1, <4>1, <4>3
        <5> QED
          BY <3>1, <5>1 DEF Owed
      <4> QED
        BY <4>2, <4>3
    <3> QED
      BY <3>3, <3>4, <3>5
  <2>6. ASSUME NEW day, NEW length, AskForMovers(day, length) PROVE NothingIsSkipped'
    BY <2>1, <2>6 DEF AskForMovers, response
  <2>7. CASE FindAnchor
    <3>1. pc' = IF anchor' = NoDay THEN "done" ELSE "count_movers"
      BY <2>7 DEF FindAnchor
    <3> QED
      BY <3>1 DEF NothingIsSkipped
  <2>8. CASE CountMovers \/ SelectMovers
    BY <2>8 DEF CountMovers, SelectMovers, NothingIsSkipped
  <2>9. CASE UNCHANGED vars
    <3>1. UNCHANGED <<history, include_unavailable, offset, received, arrived, left, pc>>
      BY <2>9 DEF vars, request, response
    <3> QED
      BY <2>1, <3>1
  <2> QED
    BY <2>2, <2>3, <2>4, <2>5, <2>6, <2>7, <2>8, <2>9 DEF ApiNext, ReadNext
<1> QED
  BY <1>1, <1>2, TheReaderIsTyped, PTL DEF ApiSpec

\* Paging by offset misses no row that was there all along, unless rows left the
\* listing or the last total was torn from its page.
THEOREM PagingMissesNothing == ApiSpec => NothingIsMissed
<1> DEFINE Misses ==
      SelectObservations /\ pc' = "done" /\ ~torn /\ (include_unavailable \/ left = {}) =>
          Listed(include_unavailable) \ arrived \subseteq ToSet(received')
<1>1. ReaderTyped /\ Counted /\ NothingIsSkipped /\ [ApiNext]_vars => [Misses]_vars
  <2> SUFFICES ASSUME ReaderTyped, Counted, NothingIsSkipped, SelectObservations, pc' = "done",
                      ~torn, include_unavailable \/ left = {},
                      NEW k \in Listed(include_unavailable), k \notin arrived
               PROVE  k \in ToSet(received')
    OBVIOUS
  <2> DEFINE S == Listed(include_unavailable)
             n == Len(received)
             m == Cardinality(Ahead(S, k))
  <2>1. /\ IsFiniteSet(S) /\ S \subseteq Keys /\ k \in S
        /\ total = Cardinality(S) /\ total \in Nat /\ offset \in Nat /\ Limit \in Nat
        /\ pc \in {"count", "page"} /\ offset + Limit >= total
    BY ListedIsFinite, LimitIsPositive
       DEF SelectObservations, Counted, _count, ReaderTyped
  <2>2. Owed(k) \/ \E i \in 1..n : received[i] = k
    BY <2>1 DEF NothingIsSkipped
  <2>3. /\ received \in Seq(Keys) /\ items' \in Seq(Keys) /\ received' \in Seq(Keys)
        /\ Len(received') = n + Len(items')
        /\ \A i \in 1..n : received'[i] = received[i]
        /\ m >= offset /\ m < offset + Limit
           => \E i \in (n + 1)..Len(received') : received'[i] = k
    BY <2>1, APageArrives
  <2>4. n \in Nat /\ Len(items') \in Nat
    BY <2>3
  <2>7. ASSUME NEW i \in 1..Len(received'), received'[i] = k PROVE k \in ToSet(received')
    BY <2>3, <2>7 DEF ToSet
  <2> HIDE DEF n
  <2>5. CASE \E i \in 1..n : received[i] = k
    <3>1. PICK i \in 1..n : received[i] = k
      BY <2>5
    <3>2. i \in 1..Len(received') /\ received'[i] = k
      BY <2>3, <2>4, <3>1
    <3> QED
      BY <2>7, <3>2
  <2>6. CASE Owed(k)
    <3>1. m >= offset
      BY <2>6 DEF Owed
    <3>2. m \in 0..(Cardinality(S) - 1)
      <4> HIDE DEF S
      <4> QED
        BY <2>1, RowsHavePlaces
    <3> HIDE DEF m
    <3>3. m < offset + Limit
      BY <2>1, <3>2
    <3>4. PICK i \in (n + 1)..Len(received') : received'[i] = k
      BY <2>3, <3>1, <3>3
    <3>5. i \in 1..Len(received')
      BY <2>3, <2>4, <3>4
    <3> QED
      BY <2>7, <3>4, <3>5
  <2> QED
    BY <2>2, <2>5, <2>6
<1> QED
  BY <1>1, TheReaderIsTyped, TotalsAreCounted, RowsAreNotSkipped, PTL DEF ApiSpec, NothingIsMissed
-----------------------------------------------------------------------------
\* Products keep the order of what is multiplied.
LEMMA TimesIsMonotone ==
    ASSUME NEW a \in Nat, NEW b \in Nat, NEW k \in Nat \ {0}
    PROVE  /\ a >= b => a * k >= b * k
           /\ a > b => a * k > b * k
           /\ a * k >= b * k => a >= b
           /\ a * k > b * k => a > b
<1>1. ASSUME NEW x \in Nat, NEW y \in Nat, x >= y PROVE x * k >= y * k
  <2>1. x - y \in Nat /\ (x - y) * k \in Nat
    BY <1>1
  <2>2. x * k = y * k + (x - y) * k
    BY <2>1
  <2>3. x * k \in Nat /\ y * k \in Nat
    OBVIOUS
  <2> QED
    BY <2>1, <2>2, <2>3
<1>2. ASSUME NEW x \in Nat, NEW y \in Nat, x > y PROVE x * k > y * k
  <2>1. y + 1 \in Nat /\ x >= y + 1
    BY <1>2
  <2>2. x * k >= (y + 1) * k
    BY <1>1, <2>1
  <2>3. (y + 1) * k = y * k + k /\ x * k \in Nat /\ y * k \in Nat
    OBVIOUS
  <2> QED
    BY <2>2, <2>3
<1>3. a * k \in Nat /\ b * k \in Nat
  OBVIOUS
<1> QED
  BY <1>1, <1>2, <1>3

\* Comparing fractions a/x, b/y and c/z by their cross products.
LEMMA FractionsAreOrdered ==
    ASSUME NEW a \in Nat, NEW b \in Nat, NEW c \in Nat,
           NEW x \in Nat \ {0}, NEW y \in Nat \ {0}, NEW z \in Nat \ {0},
           a * y >= b * x, b * z >= c * y
    PROVE  /\ a * z >= c * x
           /\ (a * y > b * x \/ b * z > c * y) => a * z > c * x
<1>1. /\ a * y \in Nat /\ b * x \in Nat /\ b * z \in Nat /\ c * y \in Nat
      /\ a * z \in Nat /\ c * x \in Nat
  OBVIOUS
<1>2. (a * y) * z >= (b * x) * z /\ (a * y > b * x => (a * y) * z > (b * x) * z)
  BY <1>1, TimesIsMonotone
<1>3. (b * z) * x >= (c * y) * x /\ (b * z > c * y => (b * z) * x > (c * y) * x)
  BY <1>1, TimesIsMonotone
<1>4. /\ (a * y) * z = (a * z) * y /\ (b * x) * z = (b * z) * x
      /\ (c * y) * x = (c * x) * y
  OBVIOUS
<1>5. /\ (a * z) * y \in Nat /\ (b * z) * x \in Nat /\ (c * x) * y \in Nat
  BY <1>1
<1>6. (a * z) * y >= (c * x) * y
      /\ ((a * y > b * x \/ b * z > c * y) => (a * z) * y > (c * x) * y)
  BY <1>2, <1>3, <1>4, <1>5
<1> QED
  BY <1>1, <1>6, TimesIsMonotone

\* The rows a move joins are the ends of its series.
LEMMA EndsAreEnds ==
    ASSUME NEW S, IsFiniteSet(S), S \subseteq Keys, NEW k \in S
    PROVE  /\ from_start(S, k) = 1
              <=> \A l \in S : Series[l] = Series[k] => Day[l] >= Day[k]
           /\ from_end(S, k) = 1
              <=> \A l \in S : Series[l] = Series[k] => Day[l] <= Day[k]
<1> DEFINE E == {l \in S : Series[l] = Series[k] /\ Day[l] < Day[k]}
           L == {l \in S : Series[l] = Series[k] /\ Day[l] > Day[k]}
<1>1. \A l \in S : Day[l] \in Int
  BY ColumnsAreNumbers
<1>2. /\ E = {} <=> \A l \in S : Series[l] = Series[k] => Day[l] >= Day[k]
      /\ L = {} <=> \A l \in S : Series[l] = Series[k] => Day[l] <= Day[k]
  BY <1>1
<1>3. /\ IsFiniteSet(E) /\ Cardinality(E) \in Nat /\ (Cardinality(E) = 0 <=> E = {})
      /\ IsFiniteSet(L) /\ Cardinality(L) \in Nat /\ (Cardinality(L) = 0 <=> L = {})
  <2>1. IsFiniteSet(E) /\ IsFiniteSet(L)
    BY FS_Subset
  <2> HIDE DEF E, L
  <2> QED
    BY <2>1, FS_CardinalityType, FS_EmptySet
<1>4. from_start(S, k) = 1 + Cardinality(E) /\ from_end(S, k) = 1 + Cardinality(L)
  BY DEF from_start, from_end
<1>5. (from_start(S, k) = 1 <=> E = {}) /\ (from_end(S, k) = 1 <=> L = {})
  <2> HIDE DEF E, L
  <2> QED
    BY <1>3, <1>4
<1> QED
  BY <1>2, <1>5

\* m is the move of a series of rows.
Joins(m, rows) ==
    /\ m.first \in rows /\ m.last \in rows /\ Series[m.first] = Series[m.last]
    /\ from_start(rows, m.first) = 1 /\ from_end(rows, m.last) = 1
    /\ Cardinality({k \in rows : Series[k] = Series[m.first]}) >= 2
    /\ m = MoveOf(<<m.first, m.last>>)
    /\ m.from \in Nat \ {0} /\ Change(m) \in Nat /\ Series[m.first] \in Int

LEMMA MovesAreMoves ==
    ASSUME ReaderTyped, NEW to, NEW length, NEW m \in Moves(to, length)
    PROVE  Joins(m, Priced(to, length))
<1> DEFINE rows == Priced(to, length)
<1>1. PICK pair \in Ends(to, length) : m = MoveOf(pair)
  BY MovesAreFinite
<1>2. /\ pair[1] \in rows /\ pair[2] \in rows /\ pair = <<pair[1], pair[2]>>
      /\ Series[pair[1]] = Series[pair[2]]
      /\ from_start(rows, pair[1]) = 1 /\ from_end(rows, pair[2]) = 1
      /\ Cardinality({k \in rows : Series[k] = Series[pair[1]]}) >= 2
  BY DEF Ends
<1>3. /\ m.first = pair[1] /\ m.last = pair[2]
      /\ m.from = Average[FigNow(pair[1])] /\ m.now = Average[FigNow(pair[2])]
  BY <1>1 DEF MoveOf
<1>4. ASSUME NEW k \in rows
      PROVE  Average[FigNow(k)] \in Nat \ {0} /\ Series[k] \in Int
  <2>1. k \in Keys /\ history[k] \in Seq(Publication) /\ history[k] # <<>>
    BY DEF Priced, Stored, ReaderTyped
  <2>2. Len(history[k]) \in 1..Len(history[k])
    BY <2>1
  <2>3. FigNow(k) \in Figs
    <3>1. Latest(history[k]) \in Publication
      BY <2>1, <2>2 DEF Latest
    <3> QED
      BY <3>1 DEF FigNow, Publication
  <2>4. Average[FigNow(k)] # NoAverage /\ Average[FigNow(k)] > 0
    BY DEF Priced
  <2> QED
    BY <2>1, <2>3, <2>4, ColumnsAreNumbers
<1> HIDE DEF rows
<1>5. m.from \in Nat \ {0} /\ m.now \in Nat /\ Series[m.first] \in Int
  BY <1>2, <1>3, <1>4
<1>6. Change(m) \in Nat
  BY <1>5 DEF Change
<1> QED
  BY <1>1, <1>2, <1>3, <1>5, <1>6 DEF rows, Joins

\* One move a series.
LEMMA SeriesMoveOnce ==
    ASSUME ReaderTyped, NEW to, NEW length,
           NEW m \in Moves(to, length), NEW o \in Moves(to, length),
           Series[m.first] = Series[o.first]
    PROVE  m = o
<1> DEFINE rows == Priced(to, length)
<1>1. IsFiniteSet(rows) /\ rows \subseteq Keys
  BY MovesAreFinite DEF Stored
<1>2. Joins(m, rows) /\ Joins(o, rows)
  BY MovesAreMoves
<1> HIDE DEF rows
<1>3. /\ m.first \in rows /\ m.last \in rows /\ Series[m.first] = Series[m.last]
      /\ from_start(rows, m.first) = 1 /\ from_end(rows, m.last) = 1
      /\ o.first \in rows /\ o.last \in rows /\ Series[o.first] = Series[o.last]
      /\ from_start(rows, o.first) = 1 /\ from_end(rows, o.last) = 1
  BY <1>2 DEF Joins
<1>4. \A k \in rows : Day[k] \in Int
  BY <1>1, ColumnsAreNumbers
<1>5. ASSUME NEW k \in rows, NEW l \in rows, Series[l] = Series[k]
      PROVE  /\ from_start(rows, k) = 1 => Day[l] >= Day[k]
             /\ from_end(rows, k) = 1 => Day[l] <= Day[k]
  BY <1>1, <1>5, EndsAreEnds
<1>6. Day[m.first] = Day[o.first]
  <2>1. Day[o.first] >= Day[m.first] /\ Day[m.first] >= Day[o.first]
    BY <1>3, <1>5
  <2> QED
    BY <1>3, <1>4, <2>1
<1>7. Day[m.last] = Day[o.last]
  <2>1. Day[o.last] <= Day[m.last] /\ Day[m.last] <= Day[o.last]
    BY <1>3, <1>5
  <2> QED
    BY <1>3, <1>4, <2>1
<1>8. m.first = o.first /\ m.last = o.last
  BY <1>1, <1>3, <1>6, <1>7, OneRowADay
<1>9. m = MoveOf(<<m.first, m.last>>) /\ o = MoveOf(<<o.first, o.last>>)
  BY <1>2, Zenon DEF Joins
<1> QED
  BY <1>8, <1>9, Zenon

\* Larger orders the moves.
Ranking(M) == {p \in M \X M : Larger(p[1], p[2])}

LEMMA MovesAreRanked ==
    ASSUME ReaderTyped, NEW to, NEW length
    PROVE  Orders(Ranking(Moves(to, length)), Moves(to, length))
<1> DEFINE M == Moves(to, length)
           R == Ranking(M)
<1>1. \A m \in M : m.from \in Nat \ {0} /\ Change(m) \in Nat /\ Series[m.first] \in Int
  BY MovesAreMoves DEF Joins
<1>2. \A m, o \in M : Series[m.first] = Series[o.first] => m = o
  BY SeriesMoveOnce
<1>3. \A m, o \in M : <<m, o>> \in R <=> Larger(m, o)
  BY DEF Ranking
<1> HIDE DEF M, R
<1>4. ASSUME NEW m \in M, NEW o \in M
      PROVE  Share(m, o) \in Nat /\ Share(m, o) = Change(m) * o.from
  BY <1>1 DEF Share
<1>5. ASSUME NEW m \in M PROVE ~Larger(m, m)
  BY <1>1, <1>4 DEF Larger
<1>6. ASSUME NEW m \in M, NEW o \in M, m # o PROVE Larger(m, o) \/ Larger(o, m)
  <2>1. Series[m.first] # Series[o.first] /\ Share(m, o) \in Nat /\ Share(o, m) \in Nat
    BY <1>2, <1>4, <1>6
  <2> QED
    BY <1>1, <2>1 DEF Larger
<1>7. ASSUME NEW m \in M, NEW o \in M, NEW q \in M, Larger(m, o), Larger(o, q)
      PROVE  Larger(m, q)
  <2> DEFINE a == Change(m)
             b == Change(o)
             c == Change(q)
             x == m.from
             y == o.from
             z == q.from
  <2>1. /\ a \in Nat /\ b \in Nat /\ c \in Nat
        /\ x \in Nat \ {0} /\ y \in Nat \ {0} /\ z \in Nat \ {0}
        /\ Series[m.first] \in Int /\ Series[o.first] \in Int /\ Series[q.first] \in Int
    BY <1>1
  <2>2. /\ Share(m, o) = a * y /\ Share(o, m) = b * x /\ Share(o, q) = b * z
        /\ Share(q, o) = c * y /\ Share(m, q) = a * z /\ Share(q, m) = c * x
    BY <1>4
  <2> HIDE DEF a, b, c, x, y, z
  <2>3. /\ a * y \in Nat /\ b * x \in Nat /\ b * z \in Nat /\ c * y \in Nat
        /\ a * z \in Nat /\ c * x \in Nat
    BY <2>1
  <2>4. /\ a * y > b * x \/ (a * y = b * x /\ Series[m.first] < Series[o.first])
        /\ b * z > c * y \/ (b * z = c * y /\ Series[o.first] < Series[q.first])
    BY <1>7, <2>2 DEF Larger
  <2>5. a * y >= b * x /\ b * z >= c * y
    BY <2>3, <2>4
  <2>6. a * z >= c * x /\ ((a * y > b * x \/ b * z > c * y) => a * z > c * x)
    BY <2>1, <2>5, FractionsAreOrdered
  <2>7. \/ a * z > c * x
        \/ a * z >= c * x /\ Series[m.first] < Series[q.first]
    BY <2>1, <2>4, <2>6
  <2>8. a * z > c * x \/ (a * z = c * x /\ Series[m.first] < Series[q.first])
    BY <2>3, <2>7
  <2> QED
    BY <2>2, <2>8 DEF Larger
<1>8. Orders(R, M)
  BY <1>3, <1>5, <1>6, <1>7 DEF Orders
<1> QED
  BY <1>8 DEF R, M

\* What /movers shows.
Shown(to, length) == PageOf(InOrder(Moves(to, length), Larger), 0)

LEMMA ShownInOrder ==
    ASSUME ReaderTyped, NEW to, NEW length
    PROVE  /\ Shown(to, length) \in Seq(Moves(to, length))
           /\ \A i, j \in 1..Len(Shown(to, length)) :
                 i < j => Larger(Shown(to, length)[i], Shown(to, length)[j])
           /\ \/ Len(Shown(to, length)) = Limit
              \/ \A m \in Moves(to, length) :
                    \E i \in 1..Len(Shown(to, length)) : Shown(to, length)[i] = m
           /\ Len(Shown(to, length)) =
                 IF Cardinality(Moves(to, length)) <= 0 THEN 0
                 ELSE IF Cardinality(Moves(to, length)) <= 0 + Limit
                      THEN Cardinality(Moves(to, length)) - 0
                 ELSE Limit
<1> DEFINE M == Moves(to, length)
           R == Ranking(M)
           page == Page(R, M, 0)
           rows == InOrder(M, Larger)
           c(m) == Cardinality(Earlier(R, M, m))
           n == Cardinality(M)
<1>1. IsFiniteSet(M) /\ Orders(R, M)
  BY MovesAreFinite, MovesAreRanked
<1>2. \A m, o \in M : <<m, o>> \in R <=> Larger(m, o)
  BY DEF Ranking
<1>3. \A m \in M : Earlier(R, M, m) = {o \in M : Larger(o, m)}
  BY <1>2 DEF Earlier
<1>4. rows = [i \in 1..Cardinality(M) |->
                 CHOOSE m \in M : Cardinality({o \in M : Larger(o, m)}) = i - 1]
  BY Zenon DEF InOrder
<1> HIDE DEF M, R, rows
<1>5. Shown(to, length) = page
  <2>1. ASSUME NEW i \in 1..Cardinality(M)
        PROVE  (CHOOSE m \in M : Cardinality({o \in M : Larger(o, m)}) = i - 1)
                 = (CHOOSE m \in M : Cardinality(Earlier(R, M, m)) = i - 1)
    BY <1>3
  <2>2. Sorted(R, M) = rows
    BY <1>4, <2>1 DEF Sorted
  <2> QED
    BY <2>2, Zenon DEF Shown, Page, rows, M
<1>6. /\ page \in Seq(M)
      /\ Len(page) = IF n <= 0 THEN 0 ELSE IF n <= 0 + Limit THEN n - 0 ELSE Limit
      /\ \A i \in 1..Len(page) : c(page[i]) = 0 + i - 1
      /\ \A m \in M : c(m) >= 0 /\ c(m) < 0 + Limit => \E i \in 1..Len(page) : page[i] = m
  BY <1>1, PagesAreInOrder
<1>7. /\ n \in Nat /\ \A m \in M : c(m) \in 0..(n - 1)
      /\ \A m, o \in M : c(m) < c(o) <=> <<m, o>> \in R
  BY <1>1, EveryoneHasAPlace
<1> HIDE DEF n, c, page
<1>8. ASSUME NEW i \in 1..Len(page), NEW j \in 1..Len(page), i < j
      PROVE  Larger(page[i], page[j])
  <2>1. page[i] \in M /\ page[j] \in M
    BY <1>6
  <2>2. c(page[i]) < c(page[j])
    BY <1>6, <1>8
  <2> QED
    BY <1>2, <1>7, <2>1, <2>2
<1>9. ASSUME Len(page) # Limit, NEW m \in M
      PROVE  \E i \in 1..Len(page) : page[i] = m
  <2>1. c(m) \in 0..(n - 1) /\ Limit \in Nat /\ n \in Nat
    BY <1>7, LimitIsPositive
  <2>2. n <= Limit
    BY <1>6, <1>9, <2>1
  <2>3. c(m) >= 0 /\ c(m) < 0 + Limit
    BY <2>1, <2>2
  <2> QED
    BY <1>6, <2>3
<1>10. /\ page \in Seq(M)
       /\ \A i, j \in 1..Len(page) : i < j => Larger(page[i], page[j])
       /\ Len(page) = Limit \/ \A m \in M : \E i \in 1..Len(page) : page[i] = m
       /\ Len(page) = IF n <= 0 THEN 0 ELSE IF n <= 0 + Limit THEN n - 0 ELSE Limit
  BY <1>6, <1>8, <1>9
<1> QED
  BY <1>5, <1>10, Zenon DEF M, n

\* A move goes from the first to the last of at least two days.
LEMMA MovesSpanTheirSeries ==
    ASSUME ReaderTyped, NEW to, NEW length, NEW m \in Moves(to, length)
    PROVE  /\ {m.first, m.last} \subseteq Priced(to, length)
           /\ Day[m.first] < Day[m.last]
           /\ \A k \in Priced(to, length) :
                 Series[k] = Series[m.first] => Day[k] \in Day[m.first]..Day[m.last]
<1> DEFINE rows == Priced(to, length)
           T == {k \in rows : Series[k] = Series[m.first]}
<1>1. IsFiniteSet(rows) /\ rows \subseteq Keys
  BY MovesAreFinite DEF Stored
<1>2. Joins(m, rows)
  BY MovesAreMoves
<1> HIDE DEF rows
<1>3. /\ m.first \in rows /\ m.last \in rows /\ Series[m.first] = Series[m.last]
      /\ from_start(rows, m.first) = 1 /\ from_end(rows, m.last) = 1
      /\ Cardinality(T) >= 2
  BY <1>2 DEF Joins
<1>4. \A k \in rows : Day[k] \in Int
  BY <1>1, ColumnsAreNumbers
<1>5. \A k \in T : Day[k] >= Day[m.first]
  BY <1>1, <1>3, EndsAreEnds
<1>6. \A k \in T : Day[k] <= Day[m.last]
  <2>1. \A k \in T : k \in rows /\ Series[k] = Series[m.last]
    BY <1>3
  <2> HIDE DEF T
  <2> QED
    BY <1>1, <1>3, <2>1, EndsAreEnds
<1>7. ASSUME Day[m.first] = Day[m.last] PROVE FALSE
  <2>1. ASSUME NEW k \in T PROVE k = m.first
    <3>1. Day[k] = Day[m.first] /\ Series[k] = Series[m.first]
      BY <1>3, <1>4, <1>5, <1>6, <1>7
    <3> QED
      BY <1>1, <1>3, <3>1, OneRowADay
  <2>2. T \subseteq {m.first}
    BY <2>1
  <2> HIDE DEF T
  <2>3. Cardinality(T) \in Nat /\ Cardinality(T) <= 1
    BY <2>2, OneIsCounted
  <2> QED
    BY <1>3, <2>3
<1>8. Day[m.first] < Day[m.last]
  <2>1. Day[m.last] >= Day[m.first]
    BY <1>3, <1>5
  <2> QED
    BY <1>3, <1>4, <1>7, <2>1
<1>9. \A k \in rows : Series[k] = Series[m.first] => Day[k] \in Day[m.first]..Day[m.last]
  BY <1>3, <1>4, <1>5, <1>6
<1> QED
  BY <1>3, <1>8, <1>9 DEF rows

\* A series with two priced days has a move.
LEMMA SeriesWithTwoDaysMove ==
    ASSUME ReaderTyped, NEW to, NEW length,
           NEW e \in Priced(to, length), NEW l \in Priced(to, length),
           Series[e] = Series[l], Day[e] < Day[l]
    PROVE  \E m \in Moves(to, length) : Series[m.first] = Series[e]
<1> DEFINE rows == Priced(to, length)
           T == {k \in rows : Series[k] = Series[e]}
           D == {Day[k] : k \in T}
<1>1. IsFiniteSet(rows) /\ rows \subseteq Keys
  BY MovesAreFinite DEF Stored
<1>2. IsFiniteSet(T) /\ e \in T /\ l \in T
  BY <1>1, FS_Subset
<1>3. \A k \in T : k \in rows /\ Day[k] \in Int
  BY <1>1, ColumnsAreNumbers
<1>4. D # {} /\ D \subseteq Int /\ IsFiniteSet(D)
  <2> DEFINE h == [k \in T |-> Day[k]]
  <2>1. D # {} /\ D \subseteq Int
    BY <1>2, <1>3
  <2>2. h \in Surjection(T, D)
    BY DEF Surjection
  <2> HIDE DEF h, T, D
  <2> QED
    BY <1>2, <2>1, <2>2, FS_Surjection
<1>5. PICK f \in T, g \in T :
         \A k \in T : Day[f] <= Day[k] /\ Day[g] >= Day[k]
  <2>1. /\ Min(D) \in D /\ \A d \in D : Min(D) <= d
        /\ Max(D) \in D /\ \A d \in D : Max(D) >= d
    <3> HIDE DEF D
    <3> QED
      BY <1>4, FiniteMin, FiniteMax
  <2>2. PICK f \in T, g \in T : Day[f] = Min(D) /\ Day[g] = Max(D)
    <3> HIDE DEF T
    <3> QED
      BY <2>1, Zenon
  <2>3. \A k \in T : Day[k] \in D
    OBVIOUS
  <2> HIDE DEF T, D
  <2> QED
    BY <2>1, <2>2, <2>3
<1>6. from_start(rows, f) = 1 /\ from_end(rows, g) = 1
  <2>1. f \in rows /\ g \in rows /\ Series[f] = Series[e] /\ Series[g] = Series[e]
    OBVIOUS
  <2>2. \A k \in rows : Series[k] = Series[f] => Day[k] >= Day[f]
    BY <1>3, <1>5, <2>1
  <2>3. \A k \in rows : Series[k] = Series[g] => Day[k] <= Day[g]
    BY <1>3, <1>5, <2>1
  <2> HIDE DEF rows, T
  <2> QED
    BY <1>1, <2>1, <2>2, <2>3, EndsAreEnds
<1>7. Cardinality(T) >= 2
  <2>1. e # l
    BY <1>3, <1>2
  <2> HIDE DEF T
  <2>2. /\ IsFiniteSet(T \ {e}) /\ Cardinality(T \ {e}) = Cardinality(T) - 1
        /\ Cardinality(T) \in Nat
    BY <1>2, FS_RemoveElement, FS_CardinalityType
  <2>3. Cardinality(T \ {e}) >= 1
    BY <1>2, <2>1, <2>2, OneIsCounted
  <2> QED
    BY <2>2, <2>3
<1> DEFINE pair == <<f, g>>
<1>8. pair \in Ends(to, length)
  <2>1. {k \in rows : Series[k] = Series[f]} = T
    OBVIOUS
  <2>2. Series[f] = Series[g] /\ pair \in rows \X rows /\ pair[1] = f /\ pair[2] = g
    OBVIOUS
  <2> QED
    BY <1>6, <1>7, <2>1, <2>2 DEF Ends
<1>9. MoveOf(pair) \in Moves(to, length)
  BY <1>8, MovesAreFinite
<1>10. MoveOf(pair).first = f
  BY DEF MoveOf
<1> QED
  BY <1>9, <1>10

\* Whatever was published since the anchor was found, the movers shown go from
\* the first to the last priced day of their window, none is left out for want
\* of room but the smallest, and the largest comes first (list_movers).
THEOREM MoversAreRanked == ApiSpec => MoversCompareTheEnds
<1> DEFINE Compares ==
      SelectMovers =>
          LET shown == ToSet(items')
              rows == Priced(anchor, window_days)
          IN  /\ \A m \in shown :
                    /\ {m.first, m.last} \subseteq rows /\ Day[m.first] < Day[m.last]
                    /\ \A k \in rows : Series[k] = Series[m.first] =>
                          Day[k] \in Day[m.first]..Day[m.last]
              /\ \A e, l \in rows :
                    Series[e] = Series[l] /\ Day[e] < Day[l] =>
                       \/ Series[e] \in {Series[m.first] : m \in shown}
                       \/ Len(items') = Limit
              /\ \A i, j \in DOMAIN items' :
                    i < j => Share(items'[i], items'[j]) >= Share(items'[j], items'[i])
<1>1. ReaderTyped /\ [ApiNext]_vars => [Compares]_vars
  <2> SUFFICES ASSUME ReaderTyped, SelectMovers PROVE Compares
    OBVIOUS
  <2> DEFINE M == Moves(anchor, window_days)
             rows == Priced(anchor, window_days)
             shown == ToSet(items')
  <2>1. items' = Shown(anchor, window_days)
    BY DEF SelectMovers, Shown
  <2>2. /\ items' \in Seq(M)
        /\ \A i, j \in 1..Len(items') : i < j => Larger(items'[i], items'[j])
        /\ \/ Len(items') = Limit
           \/ \A m \in M : \E i \in 1..Len(items') : items'[i] = m
    BY <2>1, ShownInOrder
  <2> HIDE DEF M
  <2>3. DOMAIN items' = 1..Len(items') /\ \A i \in 1..Len(items') : items'[i] \in M
    BY <2>2
  <2>4. shown \subseteq M /\ \A i \in 1..Len(items') : items'[i] \in shown
    BY <2>3 DEF ToSet
  <2>5. \A m \in shown :
           /\ {m.first, m.last} \subseteq rows /\ Day[m.first] < Day[m.last]
           /\ \A k \in rows : Series[k] = Series[m.first] =>
                 Day[k] \in Day[m.first]..Day[m.last]
    <3> HIDE DEF shown
    <3> QED
      BY <2>4, MovesSpanTheirSeries DEF M
  <2>6. ASSUME NEW e \in rows, NEW l \in rows, Series[e] = Series[l], Day[e] < Day[l],
               Len(items') # Limit
        PROVE  Series[e] \in {Series[m.first] : m \in shown}
    <3>1. PICK m \in M : Series[m.first] = Series[e]
      BY <2>6, SeriesWithTwoDaysMove DEF M
    <3>2. m \in shown
      <4> HIDE DEF shown
      <4> QED
        BY <2>2, <2>4, <2>6
    <3> HIDE DEF shown
    <3> QED
      BY <3>1, <3>2
  <2>7. ASSUME NEW i \in DOMAIN items', NEW j \in DOMAIN items', i < j
        PROVE  Share(items'[i], items'[j]) >= Share(items'[j], items'[i])
    <3> DEFINE a == items'[i]
               b == items'[j]
    <3>1. a \in M /\ b \in M /\ Larger(a, b)
      BY <2>2, <2>3, <2>7
    <3> HIDE DEF a, b
    <3>2. /\ a.from \in Nat \ {0} /\ Change(a) \in Nat
          /\ b.from \in Nat \ {0} /\ Change(b) \in Nat
      BY <3>1, MovesAreMoves DEF Joins, M
    <3>3. Share(a, b) \in Nat /\ Share(b, a) \in Nat
      BY <3>2 DEF Share
    <3>4. Share(a, b) >= Share(b, a)
      BY <3>1, <3>3 DEF Larger
    <3> QED
      BY <3>4 DEF a, b
  <2> HIDE DEF shown, rows
  <2>8. \A e, l \in rows :
           Series[e] = Series[l] /\ Day[e] < Day[l] =>
              Series[e] \in {Series[m.first] : m \in shown} \/ Len(items') = Limit
    BY <2>6
  <2> QED
    BY <2>5, <2>7, <2>8 DEF shown, rows
<1> QED
  BY <1>1, TheReaderIsTyped, PTL DEF ApiSpec, MoversCompareTheEnds
-----------------------------------------------------------------------------
\* A reader of movers starts at the front, and its total is of the moves it is
\* about to be shown, until a commit tears the response.
MoversCounted ==
    /\ pc \in {"idle", "anchor", "count_movers", "movers"} => offset = 0
    /\ pc = "movers" /\ ~torn => total = Cardinality(Moves(anchor, window_days))

LEMMA MoversAreCounted == ApiSpec => []MoversCounted
<1>1. ApiInit => MoversCounted
  BY DEF ApiInit, MoversCounted
<1>2. MoversCounted /\ [ApiNext]_vars => MoversCounted'
  <2> SUFFICES ASSUME MoversCounted, [ApiNext]_vars PROVE MoversCounted'
    OBVIOUS
  <2>1. ASSUME UNCHANGED <<history, anchor, window_days>>
        PROVE  Moves(anchor, window_days)' = Moves(anchor, window_days)
    BY <2>1 DEF Moves, Priced, Stored, FigNow, from_start, from_end
  <2>2. ASSUME NEW f \in Files, Ingest(f) PROVE MoversCounted'
    <3>1. /\ UNCHANGED <<pc, offset, anchor, window_days, total>>
          /\ torn' = (torn \/ (pc \in {"page", "movers"} /\ history' # history))
      BY <2>2 DEF Ingest, request, response
    <3> QED
      BY <2>1, <3>1 DEF MoversCounted
  <2>3. CASE CountMovers
    BY <2>1, <2>3 DEF CountMovers, MoversCounted
  <2>4. CASE UNCHANGED vars
    BY <2>1, <2>4 DEF vars, request, response, MoversCounted
  <2>5. ASSUME pc' \notin {"idle", "anchor", "count_movers", "movers"} PROVE MoversCounted'
    BY <2>5 DEF MoversCounted
  <2>6. ASSUME NEW incl \in BOOLEAN, AskForObservations(incl) PROVE MoversCounted'
    BY <2>5, <2>6 DEF AskForObservations
  <2>7. CASE CountObservations \/ SelectObservations \/ SelectMovers
    BY <2>5, <2>7 DEF CountObservations, SelectObservations, SelectMovers
  <2>8. ASSUME NEW day, NEW length, AskForMovers(day, length) PROVE MoversCounted'
    BY <2>8 DEF AskForMovers, MoversCounted
  <2>9. CASE FindAnchor
    <3>1. pc = "anchor" /\ pc' = (IF anchor' = NoDay THEN "done" ELSE "count_movers")
          /\ offset' = offset
      BY <2>9 DEF FindAnchor
    <3> QED
      BY <3>1 DEF MoversCounted
  <2> QED
    BY <2>2, <2>3, <2>4, <2>6, <2>7, <2>8, <2>9 DEF ApiNext, ReadNext
<1> QED
  BY <1>1, <1>2, PTL DEF ApiSpec

\* What LIMIT and OFFSET leave of n rows, in the words of the property.
LEMMA RowsOfAPage ==
    ASSUME NEW n \in Nat, NEW from \in Nat
    PROVE  (IF n <= from THEN 0 ELSE IF n <= from + Limit THEN n - from ELSE Limit)
             = Max({0, Min({Limit, n - from})})
<1> DEFINE d == n - from
           m == IF Limit <= d THEN Limit ELSE d
<1>1. d \in Int /\ m \in Int /\ Limit \in Nat
  BY LimitIsPositive
<1>2. Min({Limit, d}) = m
  <2> HIDE DEF d
  <2> QED
    BY <1>1, MinOfTwo
<1>3. Max({0, m}) = IF 0 >= m THEN 0 ELSE m
  <2> HIDE DEF m
  <2> QED
    BY <1>1, MaxOfTwo
<1>4. (IF n <= from THEN 0 ELSE IF n <= from + Limit THEN n - from ELSE Limit)
        = IF 0 >= m THEN 0 ELSE m
  BY LimitIsPositive
<1> QED
  BY <1>2, <1>3, <1>4

\* Without a commit between its statements a response's total and page are of one
\* listing (_count takes the page's own statement as a subquery), on
\* /observations and on /movers.
THEOREM TotalsMatch == ApiSpec => TotalsMatchTheirPages
<1> DEFINE Matches ==
      (SelectObservations \/ SelectMovers) /\ ~torn =>
          Len(items') = Max({0, Min({Limit, total - offset})})
<1>1. ReaderTyped /\ Counted /\ MoversCounted /\ [ApiNext]_vars => [Matches]_vars
  <2> SUFFICES ASSUME ReaderTyped, Counted, MoversCounted, ~torn,
                      SelectObservations \/ SelectMovers
               PROVE  Len(items') = Max({0, Min({Limit, total - offset})})
    OBVIOUS
  <2>1. CASE SelectObservations
    <3> DEFINE S == Listed(include_unavailable)
    <3>1. IsFiniteSet(S) /\ S \subseteq Keys
      BY ListedIsFinite
    <3>2. items' = Selected(S, offset) /\ offset \in Nat
      BY <2>1 DEF SelectObservations, Listing, Selected, ReaderTyped
    <3>3. total = Cardinality(S) /\ Cardinality(S) \in Nat
      BY <2>1, <3>1, FS_CardinalityType DEF SelectObservations, Counted, _count
    <3> HIDE DEF S
    <3> QED
      BY <3>1, <3>2, <3>3, RowsAreInOrder, RowsOfAPage
  <2>2. CASE SelectMovers
    <3> DEFINE M == Moves(anchor, window_days)
    <3>1. items' = Shown(anchor, window_days) /\ offset = 0 /\ total = Cardinality(M)
      BY <2>2 DEF SelectMovers, Shown, MoversCounted
    <3>2. Cardinality(M) \in Nat
      BY MovesAreFinite, FS_CardinalityType
    <3>3. Len(Shown(anchor, window_days)) =
            IF Cardinality(M) <= 0 THEN 0
            ELSE IF Cardinality(M) <= 0 + Limit THEN Cardinality(M) - 0 ELSE Limit
      BY ShownInOrder
    <3> HIDE DEF M
    <3> QED
      BY <3>1, <3>2, <3>3, RowsOfAPage
  <2> QED
    BY <2>1, <2>2
<1> QED
  BY <1>1, TheReaderIsTyped, TotalsAreCounted, MoversAreCounted, PTL
     DEF ApiSpec, TotalsMatchTheirPages
-----------------------------------------------------------------------------
\* The store a reader reads is the one the observation store and the runner are
\* proved to implement: a file is published whole, and no request writes.
THEOREM ReadersWriteNothing == ApiSpec => Spec
<1>1. ApiInit => Init
  BY DEF ApiInit, Init
<1>2. [ApiNext]_vars => [Next]_history
  <2> SUFFICES ASSUME [ApiNext]_vars PROVE Next \/ UNCHANGED history
    OBVIOUS
  <2>1. ASSUME NEW f \in Files, Ingest(f) PROVE Next
    BY <2>1 DEF Ingest, Next
  <2>2. CASE ReadNext
    BY <2>2 DEF ReadNext, AskForObservations, CountObservations, SelectObservations,
                AskForMovers, FindAnchor, CountMovers, SelectMovers
  <2>3. CASE UNCHANGED vars
    BY <2>3 DEF vars
  <2> QED
    BY <2>1, <2>2, <2>3 DEF ApiNext
<1> QED
  BY <1>1, <1>2, PTL DEF ApiSpec, Spec
=============================================================================
