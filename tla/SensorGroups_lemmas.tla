------------------------ MODULE SensorGroups_lemmas -------------------------
(***************************************************************************)
(* Facts about the operators of module SensorGroups: what sorting, the     *)
(* clusters, the replacement of a group and the block of a group are.      *)
(***************************************************************************)
EXTENDS SensorGroups, TLAPS, FiniteSetTheorems, WellFoundedInduction, SequenceTheorems

-----------------------------------------------------------------------------
(***************************************************************************)
(* Numbers.                                                                *)
(***************************************************************************)
LEMMA LeastNumber ==
    ASSUME NEW T, T \subseteq Nat, T # {}
    PROVE  \E x \in T : \A y \in T : x <= y
<1>1. PICK x \in T : \A y \in T : ~(<<y, x>> \in OpToRel(<, Nat))
  BY WFMin, NatLessThanWellFounded
<1>2. \A y \in T : ~(y < x)
  BY <1>1 DEF OpToRel
<1>. QED BY <1>2

LEMMA MinIs ==
    ASSUME NEW T, T \subseteq Nat, T # {}
    PROVE  Min(T) \in T /\ \A y \in T : Min(T) <= y
BY LeastNumber DEF Min

LEMMA GreatestNumber ==
    ASSUME NEW T, T \subseteq Nat, T # {}, NEW b \in Nat, \A x \in T : x <= b
    PROVE  \E x \in T : \A y \in T : y <= x
<1>. DEFINE D == {m \in Nat : b - m \in T}
<1>1. PICK x \in T : TRUE
  OBVIOUS
<1>2. b - x \in Nat /\ b - (b - x) = x
  BY <1>1
<1>3. PICK m \in D : \A k \in D : m <= k
  <2>1. D \subseteq Nat /\ D # {}
    BY <1>2
  <2>. QED BY <2>1, LeastNumber
<1>4. \A y \in T : y <= b - m
  <2>. TAKE y \in T
  <2>1. y \in Nat /\ b - y \in Nat /\ b - (b - y) = y
    OBVIOUS
  <2>2. m <= b - y
    BY <1>3, <2>1
  <2>. QED BY <2>1, <2>2
<1>. QED BY <1>3, <1>4

\* A finite set of numbers has a greatest one, by induction on its size.
LEMMA FiniteHasGreatest ==
    ASSUME NEW T, T \subseteq Nat, T # {}, IsFiniteSet(T)
    PROVE  \E x \in T : \A y \in T : y <= x
<1>. DEFINE Bad(U) == U \subseteq Nat /\ U # {} /\ IsFiniteSet(U)
                      /\ ~ \E x \in U : \A y \in U : y <= x
            Sizes == {n \in Nat : \E U \in SUBSET Nat : Bad(U) /\ Cardinality(U) = n}
<1>. SUFFICES ASSUME Sizes # {}
              PROVE  FALSE
  BY FS_CardinalityType
<1>1. PICK n \in Sizes : \A m \in Sizes : n <= m
  BY LeastNumber
<1>2. PICK U \in SUBSET Nat : Bad(U) /\ Cardinality(U) = n
  BY <1>1
<1>3. PICK x \in U : TRUE
  BY <1>2
<1>. DEFINE V == U \ {x}
<1>4. IsFiniteSet(V) /\ Cardinality(V) = n - 1 /\ Cardinality(V) \in Nat
  BY <1>2, <1>3, FS_RemoveElement, FS_CardinalityType
<1>5. CASE V = {}
  BY <1>2, <1>3, <1>5
<1>6. CASE V # {}
  <2>1. ~Bad(V)
    <3>. SUFFICES ASSUME Bad(V) PROVE FALSE
      OBVIOUS
    <3>1. n - 1 \in Sizes
      BY <1>4
    <3>. QED BY <3>1, <1>1
  <2>2. PICK m \in V : \A y \in V : y <= m
    BY <2>1, <1>2, <1>4, <1>6
  <2>3. \E z \in U : \A y \in U : y <= z
    <3>1. CASE x <= m
      BY <3>1, <2>2
    <3>2. CASE ~(x <= m)
      <4>1. \A y \in U : y <= x
        BY <3>2, <2>2
      <4>. QED BY <4>1, <1>3
    <3>. QED BY <3>1, <3>2
  <2>. QED BY <2>3, <1>2
<1>. QED BY <1>5, <1>6

LEMMA MaxIs ==
    ASSUME NEW T, T \subseteq Nat, T # {}, IsFiniteSet(T)
    PROVE  Max(T) \in T /\ \A y \in T : y <= Max(T)
<1>1. \E x \in T : \A y \in T : x >= y
  BY FiniteHasGreatest
<1>. QED BY <1>1 DEF Max

-----------------------------------------------------------------------------
(***************************************************************************)
(* Sorting.                                                                *)
(***************************************************************************)
Increasing(f, n) == \A i, j \in 1..n : i < j => f[i] < f[j]

\* By induction on its size, a finite set of numbers can be sorted: its least element
\* goes first.
LEMMA CanBeSorted ==
    ASSUME NEW S, S \subseteq Nat, IsFiniteSet(S)
    PROVE  \E f \in [1..Cardinality(S) -> S] : Increasing(f, Cardinality(S))
<1>. DEFINE Bad(U) == /\ U \subseteq Nat /\ IsFiniteSet(U)
                      /\ ~ \E f \in [1..Cardinality(U) -> U] : Increasing(f, Cardinality(U))
            Sizes == {n \in Nat : \E U \in SUBSET Nat : Bad(U) /\ Cardinality(U) = n}
<1>. SUFFICES ASSUME Sizes # {}
              PROVE  FALSE
  BY FS_CardinalityType
<1>1. PICK n \in Sizes : \A m \in Sizes : n <= m
  BY LeastNumber
<1>2. PICK U \in SUBSET Nat : Bad(U) /\ Cardinality(U) = n
  BY <1>1
<1>3. CASE U = {}
  <2>1. n = 0
    BY <1>2, <1>3, FS_EmptySet
  <2>2. <<>> \in [1..n -> U] /\ Increasing(<<>>, n)
    BY <2>1 DEF Increasing
  <2>. QED BY <2>2, <1>2
<1>4. CASE U # {}
  <2>1. PICK x \in U : \A y \in U : x <= y
    BY <1>2, <1>4, LeastNumber
  <2>. DEFINE V == U \ {x}
              m == n - 1
  <2>2. IsFiniteSet(V) /\ Cardinality(V) = m /\ m \in Nat
    <3>1. Cardinality(U) = n /\ IsFiniteSet(U)
      BY <1>2
    <3>2. IsFiniteSet(V) /\ Cardinality(V) = n - 1
      BY <3>1, <2>1, FS_RemoveElement
    <3>. QED BY <3>2, FS_CardinalityType
  <2>3. ~Bad(V)
    <3>. SUFFICES ASSUME Bad(V) PROVE FALSE
      OBVIOUS
    <3>1. m \in Sizes
      BY <2>2
    <3>. QED BY <3>1, <1>1
  <2>4. PICK g \in [1..m -> V] : Increasing(g, m)
    BY <2>2, <2>3, <1>2
  <2>. DEFINE f == [i \in 1..n |-> IF i = 1 THEN x ELSE g[i - 1]]
  <2>5. \A i \in 1..n : i # 1 => i - 1 \in 1..m /\ f[i] = g[i - 1] /\ f[i] \in V
    BY <2>4
  <2>6. f \in [1..n -> U]
    BY <2>1, <2>5
  <2>7. \A v \in V : x < v
    BY <2>1, <1>2
  <2>8. \A i, j \in 1..n : i < j => f[i] < f[j]
    <3>. SUFFICES ASSUME NEW i \in 1..n, NEW j \in 1..n, i < j PROVE f[i] < f[j]
      OBVIOUS
    <3>1. j # 1 /\ j - 1 \in 1..m /\ f[j] = g[j - 1] /\ f[j] \in V
      BY <2>5
    <3>2. CASE i = 1
      BY <3>1, <3>2, <2>7
    <3>3. CASE i # 1
      BY <3>1, <3>3, <2>4, <2>5 DEF Increasing
    <3>. QED BY <3>2, <3>3
  <2>9. Increasing(f, n)
    BY <2>8 DEF Increasing
  <2>. HIDE DEF f
  <2>. QED BY <2>6, <2>9, <1>2
<1>. QED BY <1>3, <1>4

LEMMA SortedIs ==
    ASSUME NEW S, S \subseteq Nat, IsFiniteSet(S)
    PROVE  /\ Cardinality(S) \in Nat
           /\ Sorted(S) \in [1..Cardinality(S) -> S]
           /\ \A i, j \in 1..Cardinality(S) : i < j => Sorted(S)[i] < Sorted(S)[j]
           /\ \A x \in S : \E i \in 1..Cardinality(S) : Sorted(S)[i] = x
<1>. DEFINE n == Cardinality(S)
            f == Sorted(S)
<1>1. n \in Nat
  BY FS_CardinalityType
<1>2. PICK g \in [1..n -> S] : Increasing(g, n)
  BY CanBeSorted
<1>3. \A i, j \in DOMAIN g : i < j => g[i] < g[j]
  BY <1>2 DEF Increasing
<1>4. f \in [1..n -> S] /\ \A i, j \in DOMAIN f : i < j => f[i] < f[j]
  BY <1>2, <1>3 DEF Sorted
<1>. HIDE DEF f
<1>5. \A i, j \in 1..n : i < j => f[i] < f[j]
  BY <1>4
<1>6. \A i, j \in 1..n : i # j => f[i] # f[j]
  <2>. TAKE i, j \in 1..n
  <2>1. f[i] \in Nat /\ f[j] \in Nat
    BY <1>4
  <2>2. i < j \/ j < i \/ i = j
    BY <1>1
  <2>. QED BY <2>1, <2>2, <1>5
<1>7. f \in Injection(1..n, S)
  BY <1>4, <1>6 DEF Injection, IsInjective
<1>8. Cardinality(1..n) = n
  BY <1>1, FS_Interval
<1>9. f \in Surjection(1..n, S)
  BY <1>7, <1>8, FS_Injection
<1>10. \A x \in S : \E i \in 1..n : f[i] = x
  BY <1>9 DEF Surjection
<1>. QED BY <1>1, <1>4, <1>5, <1>10 DEF f

-----------------------------------------------------------------------------
(***************************************************************************)
(* Sensors and their registers.                                            *)
(***************************************************************************)
LEMMA RegsFacts ==
    ASSUME NEW s \in Sensors
    PROVE  /\ RegsOf[s] \subseteq Nat /\ RegsOf[s] # {} /\ IsFiniteSet(RegsOf[s])
           /\ RegsOf[s] \subseteq Registers
BY GroupsAssumption DEF Registers

LEMMA LoHi ==
    ASSUME NEW s \in Sensors
    PROVE  /\ Lo(s) \in RegsOf[s] /\ Lo(s) \in Nat
           /\ Hi(s) \in RegsOf[s] /\ Hi(s) \in Nat
           /\ \A q \in RegsOf[s] : q \in Nat /\ Lo(s) <= q /\ q <= Hi(s)
<1>1. Lo(s) \in RegsOf[s] /\ \A q \in RegsOf[s] : Lo(s) <= q
  BY RegsFacts, MinIs DEF Lo
<1>2. Hi(s) \in RegsOf[s] /\ \A q \in RegsOf[s] : q <= Hi(s)
  BY RegsFacts, MaxIs DEF Hi
<1>. QED BY <1>1, <1>2, RegsFacts

LEMMA RegistersFinite ==
    ASSUME NEW g \in SUBSET Sensors
    PROVE  /\ IsFiniteSet(g) /\ IsFiniteSet(RegistersOf(g))
           /\ RegistersOf(g) \subseteq Nat /\ RegistersOf(g) \subseteq Registers
<1>1. IsFiniteSet(g)
  BY FS_Subset, GroupsAssumption
<1>. DEFINE Sets == {RegsOf[s] : s \in g}
            f == [s \in g |-> RegsOf[s]]
<1>2. f \in Surjection(g, Sets)
  BY DEF Surjection
<1>3. IsFiniteSet(Sets)
  BY <1>1, <1>2, FS_Surjection
<1>4. \A T \in Sets : IsFiniteSet(T)
  BY RegsFacts
<1>5. IsFiniteSet(UNION Sets)
  BY <1>3, <1>4, FS_UNION
<1>6. RegistersOf(g) \subseteq Nat /\ RegistersOf(g) \subseteq Registers
  BY RegsFacts DEF RegistersOf
<1>. QED BY <1>1, <1>5, <1>6 DEF RegistersOf

LEMMA StartIs ==
    ASSUME NEW g \in SUBSET Sensors, g # {}
    PROVE  /\ StartRegister(g) \in RegistersOf(g) /\ StartRegister(g) \in Nat
           /\ StartRegister(g) \in Registers
           /\ \A q \in RegistersOf(g) : StartRegister(g) <= q
<1>. DEFINE T == {Lo(s) : s \in g}
<1>1. T \subseteq Nat /\ T # {}
  BY LoHi
<1>2. Min(T) \in T /\ \A y \in T : Min(T) <= y
  BY <1>1, MinIs
<1>3. StartRegister(g) = Min(T)
  BY DEF StartRegister
<1>4. StartRegister(g) \in RegistersOf(g)
  BY <1>2, <1>3, LoHi DEF RegistersOf
<1>5. ASSUME NEW q \in RegistersOf(g)
      PROVE  StartRegister(g) <= q
  <2>1. PICK s \in g : q \in RegsOf[s]
    BY DEF RegistersOf
  <2>2. Lo(s) <= q /\ Min(T) <= Lo(s) /\ Lo(s) \in Nat /\ q \in Nat /\ Min(T) \in Nat
    BY <2>1, <1>1, <1>2, LoHi
  <2>. QED BY <2>2, <1>3
<1>. QED BY <1>4, <1>5, RegistersFinite

\* The length of a block is the number of its registers, since sensors share none.
LEMMA CountIs ==
    ASSUME NEW g \in SUBSET Sensors
    PROVE  RegistrarCount(g) = Cardinality(RegistersOf(g))
<1>. DEFINE size(t) == Cardinality(RegistersOf(t))
            IsSum(f) == f = [t \in SUBSET g |->
                                IF t = {} THEN 0
                                ELSE LET x == CHOOSE x \in t : TRUE
                                     IN  Cardinality(RegsOf[x]) + f[t \ {x}]]
            sum == [t \in SUBSET g |-> size(t)]
            f == CHOOSE h : IsSum(h)
<1>1. RegistrarCount(g) = f[g]
  BY DEF RegistrarCount, MapThenSumSet, MapThenFoldSet
<1>2. size({}) = 0
  BY FS_EmptySet DEF RegistersOf
<1>3. ASSUME NEW t \in SUBSET g, NEW x \in t
      PROVE  size(t) = Cardinality(RegsOf[x]) + size(t \ {x})
  <2>1. RegistersOf(t) = RegsOf[x] \cup RegistersOf(t \ {x})
    BY DEF RegistersOf
  <2>2. RegsOf[x] \cap RegistersOf(t \ {x}) = {}
    BY GroupsAssumption DEF RegistersOf
  <2>3. IsFiniteSet(RegsOf[x]) /\ IsFiniteSet(RegistersOf(t \ {x}))
    BY RegsFacts, RegistersFinite
  <2>4. /\ Cardinality(RegsOf[x]) \in Nat
        /\ Cardinality(RegistersOf(t \ {x})) \in Nat
        /\ Cardinality(RegsOf[x] \cap RegistersOf(t \ {x})) = 0
    BY <2>2, <2>3, FS_CardinalityType, FS_EmptySet
  <2>5. size(t) = Cardinality(RegsOf[x]) + Cardinality(RegistersOf(t \ {x}))
                  - Cardinality(RegsOf[x] \cap RegistersOf(t \ {x}))
    BY <2>1, <2>3, FS_Union
  <2>. QED BY <2>4, <2>5
<1>. HIDE DEF size
<1>4. IsSum(sum)
  BY <1>2, <1>3
<1>5. IsSum(f)
  BY <1>4
<1>. HIDE DEF f
<1>6. ASSUME NEW t \in SUBSET g
      PROVE  f[t] = size(t)
  <2>. DEFINE Sizes == {n \in Nat : \E u \in SUBSET g : Cardinality(u) = n /\ f[u] # size(u)}
  <2>. SUFFICES ASSUME Sizes # {}
                PROVE  FALSE
    BY RegistersFinite, FS_CardinalityType
  <2>1. PICK n \in Sizes : \A m \in Sizes : n <= m
    BY LeastNumber
  <2>2. PICK u \in SUBSET g : Cardinality(u) = n /\ f[u] # size(u)
    BY <2>1
  <2>3. u # {}
    BY <2>2, <1>2, <1>5
  <2>. DEFINE x == CHOOSE x \in u : TRUE
              v == u \ {x}
  <2>4. x \in u
    BY <2>3
  <2>5. f[u] = Cardinality(RegsOf[x]) + f[v]
    BY <1>5, <2>3
  <2>6. Cardinality(v) = n - 1 /\ Cardinality(v) \in Nat
    <3>1. IsFiniteSet(u)
      BY RegistersFinite
    <3>2. IsFiniteSet(v) /\ Cardinality(v) = n - 1
      BY <3>1, <2>2, <2>4, FS_RemoveElement
    <3>. QED BY <3>2, FS_CardinalityType
  <2>. HIDE DEF x
  <2>7. v \in SUBSET g
    OBVIOUS
  <2>8. f[v] = size(v)
    BY <2>1, <2>6, <2>7
  <2>. QED BY <2>2, <2>4, <2>5, <2>8, <1>3
<1>. QED BY <1>1, <1>6 DEF size

LEMMA CountPositive ==
    ASSUME NEW g \in SUBSET Sensors, g # {}
    PROVE  RegistrarCount(g) \in Nat \ {0}
<1>1. RegistersOf(g) # {}
  BY StartIs
<1>. QED BY <1>1, CountIs, RegistersFinite, FS_CardinalityType, FS_EmptySet

LEMMA SolidBlock ==
    ASSUME NEW g \in SUBSET Sensors, g # {}, Solid(g)
    PROVE  RegistersOf(g) \subseteq Block(g)
<1>. DEFINE R == RegistersOf(g)
            lo == StartRegister(g)
            hi == Max(R)
<1>1. lo \in R /\ lo \in Nat /\ \A q \in R : lo <= q
  BY StartIs
<1>2. hi \in R /\ hi \in Nat /\ \A q \in R : q <= hi
  BY <1>1, RegistersFinite, MaxIs
<1>3. R = lo..hi
  <2>1. lo..hi \subseteq R
    BY <1>1, <1>2 DEF Solid
  <2>2. R \subseteq Nat
    BY RegistersFinite
  <2>3. R \subseteq lo..hi
    BY <1>1, <1>2, <2>2
  <2>. QED BY <2>1, <2>3
<1>4. RegistrarCount(g) = hi - lo + 1
  BY <1>1, <1>2, <1>3, CountIs, FS_Interval
<1>. HIDE DEF R, lo, hi
<1>5. Block(g) = lo..(lo + (hi - lo + 1) - 1)
  BY <1>4 DEF Block, Interval, lo
<1>. QED BY <1>1, <1>2, <1>3, <1>5 DEF R

-----------------------------------------------------------------------------
(***************************************************************************)
(* Clusters.                                                               *)
(***************************************************************************)
Groups == (SUBSET Sensors) \ {{}}

\* The groups of the poller: what is read once is without gaps.
Sound == {g \in Groups : g \subseteq Once => Solid(g)}

\* In a list of groups, a sensor is in exactly one, or in none.
PlacedAmong(list, n, s) == \E i \in 1..n : \A j \in 1..n : s \in list[j] <=> j = i
AbsentAmong(list, n, s) == \A j \in 1..n : s \notin list[j]
Placed(list, s) == PlacedAmong(list, Len(list), s)
Absent(list, s) == AbsentAmong(list, Len(list), s)

LEMMA LenIs ==
    ASSUME NEW G, NEW list \in Seq(G), NEW n \in Nat, DOMAIN list = 1..n
    PROVE  Len(list) = n
<1>. DEFINE m == Len(list)
<1>1. m \in Nat /\ 1..m = 1..n
  BY LenProperties
<1>. HIDE DEF m
<1>2. m = n
  <2>1. m \in 1..m \/ m = 0
    BY <1>1
  <2>2. n \in 1..n \/ n = 0
    BY <1>1
  <2>3. m <= n
    BY <1>1, <2>1
  <2>4. n <= m
    BY <1>1, <2>2
  <2>. QED BY <1>1, <2>3, <2>4
<1>. QED BY <1>2 DEF m

LEMMA StartsFinite ==
    ASSUME NEW S \in SUBSET Sensors
    PROVE  ClusterStarts(S) \subseteq Nat /\ IsFiniteSet(ClusterStarts(S))
<1>. DEFINE T == {t \in S : \A u \in S : Lo(u) < Lo(t) => Hi(u) + 1 < Lo(t)}
            f == [s \in T |-> Lo(s)]
<1>1. IsFiniteSet(T)
  BY FS_Subset, GroupsAssumption
<1>2. f \in Surjection(T, ClusterStarts(S))
  BY DEF Surjection, ClusterStarts
<1>3. IsFiniteSet(ClusterStarts(S))
  BY <1>1, <1>2, FS_Surjection
<1>4. ClusterStarts(S) \subseteq Nat
  BY LoHi DEF ClusterStarts
<1>. QED BY <1>3, <1>4

\* The clusters cover the sensors: each is in that of the last start before it.
LEMMA ClustersCover ==
    ASSUME NEW S \in SUBSET Sensors, NEW s \in S
    PROVE  \E x \in ClusterStarts(S) : s \in Cluster(S, x)
<1>. DEFINE Los == {Lo(t) : t \in S}
            Before == {x \in ClusterStarts(S) : x <= Lo(s)}
<1>1. Los \subseteq Nat /\ Los # {}
  BY LoHi
<1>2. PICK m \in Los : \A y \in Los : m <= y
  BY <1>1, LeastNumber
<1>3. PICK t \in S : Lo(t) = m
  BY <1>2
<1>4. \A u \in S : ~(Lo(u) < Lo(t))
  BY <1>1, <1>2, <1>3
<1>5. m \in ClusterStarts(S)
  BY <1>3, <1>4 DEF ClusterStarts
<1>6. m \in Before
  BY <1>2, <1>5
<1>7. Before \subseteq Nat /\ Lo(s) \in Nat
  BY StartsFinite, LoHi
<1>8. PICK x \in Before : \A y \in Before : y <= x
  BY <1>6, <1>7, GreatestNumber
<1>9. ASSUME NEW y \in ClusterStarts(S), x < y
      PROVE  Lo(s) < y
  <2>1. y \in Nat /\ x \in Nat /\ Lo(s) \in Nat
    BY <1>7, StartsFinite
  <2>2. y \notin Before
    BY <1>8, <1>9, <2>1
  <2>. QED BY <2>1, <2>2
<1>10. s \in Cluster(S, x)
  BY <1>8, <1>9 DEF Cluster
<1>. QED BY <1>8, <1>10

LEMMA ClustersApart ==
    ASSUME NEW S \in SUBSET Sensors, NEW s \in S,
           NEW x \in ClusterStarts(S), NEW y \in ClusterStarts(S),
           s \in Cluster(S, x), s \in Cluster(S, y)
    PROVE  x = y
<1>1. x \in Nat /\ y \in Nat /\ Lo(s) \in Nat
  BY StartsFinite, LoHi
<1>. QED BY <1>1 DEF Cluster

\* A register in a gap of a cluster would be followed by a start inside the cluster.
LEMMA ClusterSolid ==
    ASSUME NEW S \in SUBSET Sensors, NEW x \in ClusterStarts(S),
           Cluster(S, x) \subseteq Once
    PROVE  Solid(Cluster(S, x))
<1>. DEFINE C == Cluster(S, x)
<1>. SUFFICES ASSUME NEW lo \in RegistersOf(C), NEW hi \in RegistersOf(C), NEW y \in lo..hi,
                     y \notin RegistersOf(C)
              PROVE  FALSE
  BY DEF Solid
<1>1. PICK sl \in C, sh \in C : lo \in RegsOf[sl] /\ hi \in RegsOf[sh]
  BY DEF RegistersOf
<1>2. C \subseteq S /\ C \subseteq Sensors
  BY DEF Cluster
<1>3. x \in Nat /\ lo \in Nat /\ hi \in Nat /\ y \in Nat /\ x <= y
  <2>1. x \in Nat /\ x <= Lo(sl) /\ Lo(sl) \in Nat /\ Lo(sl) <= lo /\ lo \in Nat /\ hi \in Nat
    BY <1>1, <1>2, StartsFinite, LoHi, RegsFacts DEF Cluster
  <2>. QED BY <2>1
<1>4. \A s \in C : Lo(s)..Hi(s) \subseteq RegsOf[s]
  <2>. TAKE s \in C
  <2>1. Solid({s}) /\ RegistersOf({s}) = RegsOf[s]
    BY OnceAssumption DEF RegistersOf
  <2>. QED BY <2>1, <1>2, LoHi DEF Solid
<1>5. \A s \in C : Lo(s) > y \/ Hi(s) < y
  BY <1>2, <1>3, <1>4, LoHi DEF RegistersOf
<1>. DEFINE Above == {Lo(s) : s \in {t \in C : Lo(t) > y}}
<1>6. Lo(sh) \in Above
  <2>1. Hi(sh) >= hi /\ Hi(sh) \in Nat
    BY <1>1, <1>2, LoHi
  <2>. QED BY <2>1, <1>3, <1>5
<1>7. Above \subseteq Nat
  BY <1>2, LoHi
<1>8. PICK t \in C : Lo(t) > y /\ \A z \in Above : Lo(t) <= z
  BY <1>6, <1>7, LeastNumber
<1>9. ASSUME NEW u \in S, Lo(u) < Lo(t)
      PROVE  Hi(u) + 1 < Lo(t)
  <2>1. Lo(u) \in Nat /\ Hi(u) \in Nat /\ Lo(t) \in Nat
    BY <1>2, LoHi
  <2>2. CASE u \in C
    <3>1. ~(Lo(u) > y)
      <4>. SUFFICES ASSUME Lo(u) > y PROVE FALSE
        OBVIOUS
      <4>1. Lo(u) \in Above
        BY <2>2
      <4>. QED BY <4>1, <1>8, <1>9, <2>1
    <3>2. Hi(u) < y
      BY <3>1, <2>2, <1>5
    <3>. QED BY <3>2, <2>1, <1>3, <1>8
  <2>3. CASE u \notin C
    <3>1. Lo(u) < x
      <4>. SUFFICES ASSUME x <= Lo(u) PROVE FALSE
        BY <2>1, <1>3
      <4>1. \A z \in ClusterStarts(S) : x < z => Lo(u) < z
        <5>. TAKE z \in ClusterStarts(S)
        <5>. HAVE x < z
        <5>1. Lo(t) < z /\ z \in Nat
          BY StartsFinite DEF Cluster
        <5>. QED BY <5>1, <1>9, <2>1
      <4>. QED BY <4>1, <2>3 DEF Cluster
    <3>2. PICK v \in S : Lo(v) = x /\ \A w \in S : Lo(w) < Lo(v) => Hi(w) + 1 < Lo(v)
      BY DEF ClusterStarts
    <3>3. Hi(u) + 1 < x
      BY <3>1, <3>2
    <3>. QED BY <3>3, <2>1, <1>3, <1>8
  <2>. QED BY <2>2, <2>3
<1>10. Lo(t) \in ClusterStarts(S)
  BY <1>2, <1>8, <1>9 DEF ClusterStarts
<1>11. x < Lo(t) /\ Lo(t) \in Nat
  BY <1>2, <1>3, <1>8, LoHi
<1>12. Lo(t) < Lo(t)
  BY <1>8, <1>10, <1>11 DEF Cluster
<1>. QED BY <1>11, <1>12

LEMMA ClusterSound ==
    ASSUME NEW S \in SUBSET Sensors, NEW x \in ClusterStarts(S)
    PROVE  Cluster(S, x) \in Sound /\ Cluster(S, x) \subseteq S
<1>1. PICK s \in S : Lo(s) = x
  BY DEF ClusterStarts
<1>2. s \in Cluster(S, x)
  BY <1>1, LoHi DEF Cluster
<1>3. Cluster(S, x) \subseteq S
  BY DEF Cluster
<1>. QED BY <1>2, <1>3, ClusterSolid DEF Sound, Groups

LEMMA ClustersAre ==
    ASSUME NEW S \in SUBSET Sensors
    PROVE  /\ Clusters(S) \in Seq(Sound)
           /\ \A s \in S : Placed(Clusters(S), s)
           /\ \A s : s \notin S => Absent(Clusters(S), s)
<1>. DEFINE starts == Sorted(ClusterStarts(S))
            n == Cardinality(ClusterStarts(S))
            cs == [i \in 1..n |-> Cluster(S, starts[i])]
<1>1. /\ n \in Nat /\ starts \in [1..n -> ClusterStarts(S)]
      /\ \A i, j \in 1..n : i < j => starts[i] < starts[j]
      /\ \A x \in ClusterStarts(S) : \E i \in 1..n : starts[i] = x
  BY StartsFinite, SortedIs
<1>. HIDE DEF starts, n
<1>2. Clusters(S) = cs
  BY <1>1 DEF Clusters, starts
<1>3. \A i \in 1..n : cs[i] = Cluster(S, starts[i]) /\ starts[i] \in ClusterStarts(S)
  BY <1>1
<1>4. \A i \in 1..n : cs[i] \in Sound /\ cs[i] \subseteq S
  BY <1>3, ClusterSound
<1>5. cs \in [1..n -> Sound] /\ DOMAIN cs = 1..n
  BY <1>4
<1>. HIDE DEF cs
<1>6. cs \in Seq(Sound) /\ Len(cs) = n
  <2>1. cs \in Seq(Sound)
    BY <1>1, <1>5, SeqDef
  <2>. QED BY <2>1, <1>1, <1>5, LenIs
<1>7. ASSUME NEW s \in S
      PROVE  Placed(cs, s)
  <2>1. PICK x \in ClusterStarts(S) : s \in Cluster(S, x)
    BY ClustersCover
  <2>2. PICK i \in 1..n : starts[i] = x
    BY <1>1
  <2>3. ASSUME NEW j \in 1..n, s \in cs[j]
        PROVE  j = i
    <3>1. starts[j] = starts[i]
      BY <1>3, <2>1, <2>2, <2>3, ClustersApart
    <3>2. starts[i] \in Nat /\ starts[j] \in Nat
      BY <1>1, StartsFinite
    <3>. QED BY <1>1, <3>1, <3>2
  <2>4. s \in cs[i]
    BY <1>3, <2>1, <2>2
  <2>. QED BY <2>3, <2>4, <1>6 DEF Placed, PlacedAmong
<1>8. \A s : s \notin S => Absent(cs, s)
  BY <1>4, <1>6 DEF Absent, AbsentAmong
<1>. QED BY <1>2, <1>6, <1>7, <1>8

-----------------------------------------------------------------------------
(***************************************************************************)
(* Lists of groups.                                                        *)
(***************************************************************************)
\* c is a followed by b.
LEMMA PlacedJoin ==
    ASSUME NEW a, NEW b, NEW c, NEW n \in Nat, NEW m \in Nat, NEW s,
           \A i \in 1..n : c[i] = a[i],
           \A i \in 1..m : c[n + i] = b[i]
    PROVE  /\ AbsentAmong(a, n, s) /\ AbsentAmong(b, m, s) => AbsentAmong(c, n + m, s)
           /\ PlacedAmong(a, n, s) /\ AbsentAmong(b, m, s) => PlacedAmong(c, n + m, s)
           /\ AbsentAmong(a, n, s) /\ PlacedAmong(b, m, s) => PlacedAmong(c, n + m, s)
<1>. USE DEF AbsentAmong, PlacedAmong
<1>1. \A i \in 1..(n + m) : i \in 1..n \/ (i - n \in 1..m /\ n + (i - n) = i)
  OBVIOUS
<1>2. \A i \in 1..(n + m) : i \notin 1..n => c[i] = b[i - n] /\ i - n \in 1..m
  BY <1>1
<1>3. AbsentAmong(a, n, s) /\ AbsentAmong(b, m, s) => AbsentAmong(c, n + m, s)
  BY <1>1, <1>2
<1>4. ASSUME PlacedAmong(a, n, s), AbsentAmong(b, m, s)
      PROVE  PlacedAmong(c, n + m, s)
  <2>1. PICK k \in 1..n : \A j \in 1..n : s \in a[j] <=> j = k
    BY <1>4
  <2>2. \A j \in 1..(n + m) : s \in c[j] <=> j = k
    BY <2>1, <1>1, <1>2, <1>4
  <2>3. k \in 1..(n + m)
    OBVIOUS
  <2>. QED BY <2>2, <2>3
<1>5. ASSUME AbsentAmong(a, n, s), PlacedAmong(b, m, s)
      PROVE  PlacedAmong(c, n + m, s)
  <2>1. PICK k \in 1..m : \A j \in 1..m : s \in b[j] <=> j = k
    BY <1>5
  <2>2. n + k \in 1..(n + m)
    OBVIOUS
  <2>3. \A j \in 1..(n + m) : s \in c[j] <=> j = n + k
    <3>. TAKE j \in 1..(n + m)
    <3>1. CASE j \in 1..n
      BY <1>5, <3>1
    <3>2. CASE j \notin 1..n
      <4>1. c[j] = b[j - n] /\ j - n \in 1..m
        BY <1>2, <3>2
      <4>2. s \in b[j - n] <=> j - n = k
        BY <4>1, <2>1
      <4>. QED BY <4>1, <4>2
    <3>. QED BY <3>1, <3>2
  <2>. QED BY <2>2, <2>3
<1>. QED BY <1>3, <1>4, <1>5

LEMMA PlacedConcat ==
    ASSUME NEW G, NEW a \in Seq(G), NEW b \in Seq(G), NEW s
    PROVE  /\ Absent(a, s) /\ Absent(b, s) => Absent(a \o b, s)
           /\ Placed(a, s) /\ Absent(b, s) => Placed(a \o b, s)
           /\ Absent(a, s) /\ Placed(b, s) => Placed(a \o b, s)
<1>. DEFINE c == a \o b
            n == Len(a)
            m == Len(b)
<1>1. /\ c \in Seq(G) /\ Len(c) = n + m
      /\ \A i \in 1..(n + m) : c[i] = IF i <= n THEN a[i] ELSE b[i - n]
  BY ConcatProperties
<1>2. n \in Nat /\ m \in Nat
  BY LenProperties
<1>. HIDE DEF c, n, m
<1>3. \A i \in 1..n : c[i] = a[i]
  BY <1>1, <1>2
<1>4. \A i \in 1..m : c[n + i] = b[i]
  <2>. TAKE i \in 1..m
  <2>1. n + i \in 1..(n + m) /\ ~(n + i <= n)
    BY <1>2
  <2>2. (n + i) - n = i
    BY <1>2
  <2>. QED BY <1>1, <2>1, <2>2
<1>5. /\ AbsentAmong(a, n, s) /\ AbsentAmong(b, m, s) => AbsentAmong(c, n + m, s)
      /\ PlacedAmong(a, n, s) /\ AbsentAmong(b, m, s) => PlacedAmong(c, n + m, s)
      /\ AbsentAmong(a, n, s) /\ PlacedAmong(b, m, s) => PlacedAmong(c, n + m, s)
  BY <1>2, <1>3, <1>4, PlacedJoin
<1>6. Len(c) = n + m
  BY <1>1
<1>. QED BY <1>5, <1>6 DEF c, n, m, Placed, Absent

\* A list around its k-th group.
Before(list, k) == SubSeq(list, 1, k - 1)
After(list, k) == SubSeq(list, k + 1, Len(list))

LEMMA PartIs ==
    ASSUME NEW G, NEW list \in Seq(G), NEW lo \in 1..(Len(list) + 1), NEW hi \in 0..Len(list),
           lo <= hi + 1
    PROVE  /\ SubSeq(list, lo, hi) \in Seq(G)
           /\ Len(SubSeq(list, lo, hi)) = hi + 1 - lo
           /\ \A i \in 1..(hi + 1 - lo) : SubSeq(list, lo, hi)[i] = list[lo + i - 1]
<1>. DEFINE n == Len(list)
            part == SubSeq(list, lo, hi)
<1>1. n \in Nat /\ list \in [1..n -> G]
  BY LenProperties
<1>2. \A i \in lo..hi : list[i] \in G
  BY <1>1
<1>3. lo \in Int /\ hi \in Int
  BY <1>1
<1>4. /\ part \in Seq(G)
      /\ Len(part) = IF lo <= hi THEN hi - lo + 1 ELSE 0
      /\ \A i \in 1..(hi - lo + 1) : part[i] = list[lo + i - 1]
  BY <1>2, <1>3, SubSeqProperties
<1>. HIDE DEF part
<1>6. hi - lo + 1 = hi + 1 - lo
  BY <1>3
<1>7. Len(part) = hi + 1 - lo
  BY <1>3, <1>4
<1>8. \A i \in 1..(hi + 1 - lo) : part[i] = list[lo + i - 1]
  BY <1>4, <1>6
<1>. QED BY <1>4, <1>7, <1>8 DEF part

LEMMA AroundIs ==
    ASSUME NEW G, NEW list \in Seq(G), NEW k \in 1..Len(list)
    PROVE  /\ Before(list, k) \in Seq(G) /\ Len(Before(list, k)) = k - 1
           /\ After(list, k) \in Seq(G) /\ Len(After(list, k)) = Len(list) - k
           /\ \A i \in 1..(k - 1) : Before(list, k)[i] = list[i]
           /\ \A i \in 1..(Len(list) - k) : After(list, k)[i] = list[k + i]
<1>. DEFINE n == Len(list)
            a == Before(list, k)
            b == After(list, k)
<1>1. n \in Nat
  BY LenProperties
<1>2. 1 \in 1..(n + 1) /\ k - 1 \in 0..n /\ 1 <= (k - 1) + 1
  BY <1>1
<1>3. k + 1 \in 1..(n + 1) /\ n \in 0..n /\ k + 1 <= n + 1
  BY <1>1
<1>4. /\ a \in Seq(G) /\ Len(a) = (k - 1) + 1 - 1
      /\ \A i \in 1..((k - 1) + 1 - 1) : a[i] = list[1 + i - 1]
  BY <1>2, PartIs DEF Before
<1>5. /\ b \in Seq(G) /\ Len(b) = n + 1 - (k + 1)
      /\ \A i \in 1..(n + 1 - (k + 1)) : b[i] = list[(k + 1) + i - 1]
  BY <1>3, PartIs DEF After
<1>. HIDE DEF a, b
<1>6. (k - 1) + 1 - 1 = k - 1 /\ n + 1 - (k + 1) = n - k
  BY <1>1
<1>7. \A i \in 1..(k - 1) : 1 + i - 1 = i
  BY <1>1
<1>8. \A i \in 1..(n - k) : (k + 1) + i - 1 = k + i
  BY <1>1
<1>9. \A i \in 1..(k - 1) : a[i] = list[i]
  BY <1>4, <1>6, <1>7
<1>10. \A i \in 1..(n - k) : b[i] = list[k + i]
  BY <1>5, <1>6, <1>8
<1>. QED BY <1>4, <1>5, <1>6, <1>9, <1>10 DEF a, b

\* <<x>> is a part of a list when x is in it.
LEMMA OneElementPart ==
    ASSUME NEW G, NEW list \in Seq(G), NEW x
    PROVE  <<x>> \in SubSeqs(list) <=> \E k \in 1..Len(list) : list[k] = x
<1>. DEFINE n == Len(list)
<1>1. n \in Nat /\ list \in [1..n -> G]
  BY LenProperties
<1>2. ASSUME NEW k \in 1..n, list[k] = x
      PROVE  <<x>> \in SubSeqs(list)
  <2>1. k - 1 \in 0..n /\ k \in 0..n /\ (k - 1) + 1 = k /\ k \in 1..(n + 1) /\ k <= k + 1
    BY <1>1
  <2>2. /\ SubSeq(list, k, k) \in Seq(G) /\ Len(SubSeq(list, k, k)) = k + 1 - k
        /\ \A i \in 1..(k + 1 - k) : SubSeq(list, k, k)[i] = list[k + i - 1]
    BY <2>1, PartIs
  <2>3. SubSeq(list, k, k) = <<x>>
    <3>1. Len(SubSeq(list, k, k)) = 1 /\ SubSeq(list, k, k)[1] = x
      BY <2>2, <1>1, <1>2
    <3>2. x \in G /\ <<x>> \in Seq(G) /\ Len(<<x>>) = 1 /\ <<x>>[1] = x
      BY <1>1, <1>2
    <3>3. \A i \in 1..1 : i = 1
      OBVIOUS
    <3>. QED BY <2>2, <3>1, <3>2, <3>3, SeqEqual
  <2>4. <<x>> = SubSeq(list, (k - 1) + 1, k)
    BY <2>1, <2>3
  <2>5. \E i, j \in 0..n : SubSeq(list, (k - 1) + 1, k) = SubSeq(list, i + 1, j)
    <3>. WITNESS k - 1 \in 0..n, k \in 0..n
    <3>. QED OBVIOUS
  <2>. QED BY <2>4, <2>5 DEF SubSeqs
<1>3. ASSUME <<x>> \in SubSeqs(list)
      PROVE  \E k \in 1..n : list[k] = x
  <2>1. PICK i \in 0..n, j \in 0..n : <<x>> = SubSeq(list, i + 1, j)
    BY <1>3 DEF SubSeqs
  <2>2. /\ Len(SubSeq(list, i + 1, j)) = IF i + 1 <= j THEN j - (i + 1) + 1 ELSE 0
        /\ \A h \in 1..(j - (i + 1) + 1) : SubSeq(list, i + 1, j)[h] = list[(i + 1) + h - 1]
    <3>1. \A h \in (i + 1)..j : list[h] \in G
      BY <1>1
    <3>. QED BY <3>1, <1>1, SubSeqProperties
  <2>3. Len(<<x>>) = 1 /\ <<x>>[1] = x
    OBVIOUS
  <2>4. j = i + 1
    BY <2>1, <2>2, <2>3, <1>1
  <2>5. x = list[i + 1] /\ i + 1 \in 1..n
    BY <2>1, <2>2, <2>3, <2>4, <1>1
  <2>. QED BY <2>5
<1>. QED BY <1>2, <1>3

\* replace_sensor_group puts the new groups in the place of the old one, if it has one.
LEMMA ReplaceIs ==
    ASSUME NEW G, NEW list \in Seq(G), NEW old, NEW new
    PROVE  \/ /\ \A k \in 1..Len(list) : list[k] # old
              /\ ReplaceSensorGroup(list, old, new) = list
           \/ \E k \in 1..Len(list) :
                 /\ list[k] = old
                 /\ ReplaceSensorGroup(list, old, new) = Before(list, k) \o new \o After(list, k)
<1>. DEFINE n == Len(list)
            P(i) == <<old>> \in SubSeqs(SubSeq(list, 1, i))
            last == CHOOSE i \in 0..n : P(i) /\ \A j \in 0..(i - 1) : ~P(j)
<1>1. n \in Nat /\ list \in [1..n -> G]
  BY LenProperties
<1>2. <<old>> \in SubSeqs(list) <=> \E k \in 1..n : list[k] = old
  BY OneElementPart
<1>3. CASE ~ \E k \in 1..n : list[k] = old
  BY <1>2, <1>3 DEF ReplaceSensorGroup, ReplaceFirstSubSeq
<1>4. ASSUME NEW k0 \in 1..n, list[k0] = old
      PROVE  \E k \in 1..n : /\ list[k] = old
                              /\ ReplaceSensorGroup(list, old, new)
                                    = Before(list, k) \o new \o After(list, k)
  <2>1. ASSUME NEW i \in 0..n
        PROVE  P(i) <=> \E k \in 1..i : list[k] = old
    <3>. DEFINE t == SubSeq(list, 1, i)
    <3>1. \A h \in 1..i : list[h] \in G
      BY <1>1
    <3>2. /\ t \in Seq(G) /\ Len(t) = i
          /\ \A h \in 1..i : t[h] = list[h]
      <4>1. /\ t \in Seq(G) /\ Len(t) = IF 1 <= i THEN i - 1 + 1 ELSE 0
            /\ \A h \in 1..(i - 1 + 1) : t[h] = list[1 + h - 1]
        BY <3>1, <1>1, SubSeqProperties
      <4>. QED BY <4>1, <1>1
    <3>3. P(i) <=> \E k \in 1..i : t[k] = old
      BY <3>2, OneElementPart
    <3>. HIDE DEF t
    <3>. QED BY <3>2, <3>3 DEF t
  <2>. HIDE DEF P
  <2>2. PICK m \in {k \in 1..n : list[k] = old} : \A k \in {h \in 1..n : list[h] = old} : m <= k
    <3>1. {k \in 1..n : list[k] = old} # {} /\ {k \in 1..n : list[k] = old} \subseteq Nat
      BY <1>4, <1>1
    <3>. QED BY <3>1, LeastNumber
  <2>3. m \in 0..n /\ P(m) /\ \A j \in 0..(m - 1) : ~P(j)
    <3>1. m \in 1..n /\ list[m] = old
      BY <2>2
    <3>2. P(m)
      BY <3>1, <2>1, <1>1
    <3>3. ASSUME NEW j \in 0..(m - 1)
          PROVE  ~P(j)
      <4>1. j \in 0..n
        BY <3>1, <1>1
      <4>2. \A h \in 1..j : h \in 1..n /\ h < m
        BY <3>1, <1>1
      <4>3. \A h \in 1..j : list[h] # old
        BY <4>2, <2>2, <3>1, <1>1
      <4>. QED BY <4>1, <4>3, <2>1
    <3>. QED BY <3>1, <3>2, <3>3, <1>1
  <2>4. last \in 0..n /\ P(last) /\ \A j \in 0..(last - 1) : ~P(j)
    BY <2>3
  <2>. HIDE DEF last
  <2>5. last \in 1..n /\ list[last] = old
    <3>1. PICK k \in 1..last : list[k] = old
      BY <2>1, <2>4
    <3>2. k \in 0..n /\ P(k)
      BY <3>1, <2>1, <2>4, <1>1
    <3>3. ~(k < last)
      BY <3>2, <2>4, <1>1
    <3>. QED BY <3>1, <3>3, <2>4, <1>1
  <2>6. Len(<<old>>) = 1
    OBVIOUS
  <2>7. IndexFirstSubSeq(<<old>>, list) = last
    <3>1. IndexFirstSubSeq(<<old>>, list) = last - (Len(<<old>>) - 1)
      BY DEF IndexFirstSubSeq, last, P
    <3>. QED BY <3>1, <2>5, <2>6, <1>1
  <2>8. ReplaceSensorGroup(list, old, new) = ReplaceSubSeqAt(last, new, <<old>>, list)
    BY <2>7, <1>2, <1>4 DEF ReplaceSensorGroup, ReplaceFirstSubSeq
  <2>9. ReplaceSubSeqAt(last, new, <<old>>, list) = Before(list, last) \o new \o After(list, last)
    BY <2>6 DEF ReplaceSubSeqAt, Before, After
  <2>. QED BY <2>5, <2>8, <2>9
<1>. QED BY <1>3, <1>4

\* A sensor of the old group is placed where the new groups place it; others stay.
LEMMA ReplaceKeeps ==
    ASSUME NEW G, NEW list \in Seq(G), NEW new \in Seq(G), NEW old
    PROVE  /\ ReplaceSensorGroup(list, old, new) \in Seq(G)
           /\ \A s : Placed(list, s) /\ (s \in old => Placed(new, s))
                     /\ (s \notin old => Absent(new, s))
                     => Placed(ReplaceSensorGroup(list, old, new), s)
           /\ \A s : Absent(list, s) /\ (s \notin old => Absent(new, s))
                     => Absent(ReplaceSensorGroup(list, old, new), s)
<1>. DEFINE n == Len(list)
            result == ReplaceSensorGroup(list, old, new)
<1>1. n \in Nat /\ list \in [1..n -> G] /\ DOMAIN list = 1..n
  BY LenProperties
<1>2. CASE result = list /\ \A k \in 1..n : list[k] # old
  <2>1. result \in Seq(G)
    BY <1>2
  <2>. QED BY <2>1, <1>2
<1>3. ASSUME NEW k \in 1..n, list[k] = old,
             result = Before(list, k) \o new \o After(list, k)
      PROVE  /\ result \in Seq(G)
             /\ \A s : Placed(list, s) /\ (s \in old => Placed(new, s))
                       /\ (s \notin old => Absent(new, s))
                       => Placed(result, s)
             /\ \A s : Absent(list, s) /\ (s \notin old => Absent(new, s))
                       => Absent(result, s)
  <2>. DEFINE a == Before(list, k)
              b == After(list, k)
              an == a \o new
  <2>1. /\ a \in Seq(G) /\ b \in Seq(G) /\ Len(a) = k - 1 /\ Len(b) = n - k
        /\ \A i \in 1..(k - 1) : a[i] = list[i]
        /\ \A i \in 1..(n - k) : b[i] = list[k + i]
    BY AroundIs
  <2>9. Len(a) = k - 1 /\ Len(b) = n - k
    BY <2>1
  <2>2. ASSUME NEW s
        PROVE  /\ (\A j \in 1..(k - 1) : s \notin list[j]) => Absent(a, s)
               /\ (\A j \in 1..(n - k) : s \notin list[k + j]) => Absent(b, s)
               /\ \A h \in 1..(k - 1) :
                     (\A j \in 1..(k - 1) : s \in list[j] <=> j = h) => Placed(a, s)
               /\ \A h \in 1..(n - k) :
                     (\A j \in 1..(n - k) : s \in list[k + j] <=> j = h) => Placed(b, s)
    <3>. HIDE DEF a, b
    <3>1. (\A j \in 1..(k - 1) : s \notin list[j]) => Absent(a, s)
      BY <2>1, <2>9 DEF Absent, AbsentAmong
    <3>2. (\A j \in 1..(n - k) : s \notin list[k + j]) => Absent(b, s)
      BY <2>1, <2>9 DEF Absent, AbsentAmong
    <3>3. ASSUME NEW h \in 1..(k - 1), \A j \in 1..(k - 1) : s \in list[j] <=> j = h
          PROVE  Placed(a, s)
      <4>1. \A j \in 1..(k - 1) : s \in a[j] <=> j = h
        BY <2>1, <3>3
      <4>2. h \in 1..Len(a) /\ \A j \in 1..Len(a) : s \in a[j] <=> j = h
        BY <2>9, <4>1
      <4>. QED BY <4>2 DEF Placed, PlacedAmong
    <3>4. ASSUME NEW h \in 1..(n - k), \A j \in 1..(n - k) : s \in list[k + j] <=> j = h
          PROVE  Placed(b, s)
      <4>1. \A j \in 1..(n - k) : s \in b[j] <=> j = h
        BY <2>1, <3>4
      <4>2. h \in 1..Len(b) /\ \A j \in 1..Len(b) : s \in b[j] <=> j = h
        BY <2>9, <4>1
      <4>. QED BY <4>2 DEF Placed, PlacedAmong
    <3>. QED BY <3>1, <3>2, <3>3, <3>4
  <2>3. an \in Seq(G) /\ an \o b \in Seq(G)
    BY <2>1, ConcatProperties
  <2>4. result = an \o b
    BY <1>3
  <2>. HIDE DEF a, b, result
  <2>5. ASSUME NEW s, Absent(list, s)
        PROVE  Absent(a, s) /\ Absent(b, s) /\ s \notin old
    <3>1. \A j \in 1..n : s \notin list[j]
      BY <2>5 DEF Absent, AbsentAmong
    <3>2. (\A j \in 1..(k - 1) : j \in 1..n) /\ (\A j \in 1..(n - k) : k + j \in 1..n)
      BY <1>1
    <3>. QED BY <2>2, <3>1, <3>2, <1>3
  <2>6. ASSUME NEW s, NEW h \in 1..n, \A j \in 1..n : s \in list[j] <=> j = h
        PROVE  \/ h = k /\ s \in old /\ Absent(a, s) /\ Absent(b, s)
               \/ s \notin old /\ Placed(a, s) /\ Absent(b, s)
               \/ s \notin old /\ Absent(a, s) /\ Placed(b, s)
    <3>0. /\ \A j \in 1..(k - 1) : j \in 1..n /\ j # k
          /\ \A j \in 1..(n - k) : k + j \in 1..n /\ k + j # k
      BY <1>1
    <3>1. CASE h = k
      BY <2>2, <2>6, <3>0, <3>1, <1>3
    <3>2. CASE h < k
      <4>1. h \in 1..(k - 1) /\ \A j \in 1..(k - 1) : s \in list[j] <=> j = h
        BY <2>6, <3>0, <3>2, <1>1
      <4>2. \A j \in 1..(n - k) : k + j # h
        BY <3>2, <1>1
      <4>3. s \notin old /\ \A j \in 1..(n - k) : s \notin list[k + j]
        BY <2>6, <3>0, <3>2, <4>2, <1>1, <1>3
      <4>. QED BY <4>1, <4>3, <2>2
    <3>3. CASE h > k
      <4>1. h - k \in 1..(n - k)
        BY <3>3, <1>1
      <4>2. \A j \in 1..(n - k) : k + j = h <=> j = h - k
        BY <3>3, <1>1
      <4>3. \A j \in 1..(n - k) : s \in list[k + j] <=> j = h - k
        BY <2>6, <3>0, <4>2
      <4>4. \A j \in 1..(k - 1) : j # h
        BY <3>3, <1>1
      <4>5. s \notin old /\ \A j \in 1..(k - 1) : s \notin list[j]
        BY <2>6, <3>0, <3>3, <4>4, <1>1, <1>3
      <4>. QED BY <4>1, <4>3, <4>5, <2>2
    <3>. QED BY <3>1, <3>2, <3>3, <1>1
  <2>7. ASSUME NEW s, Absent(list, s), s \notin old => Absent(new, s)
        PROVE  Absent(result, s)
    <3>1. Absent(a, s) /\ Absent(new, s) /\ Absent(b, s)
      BY <2>5, <2>7
    <3>2. Absent(an, s)
      BY <3>1, <2>1, PlacedConcat
    <3>. QED BY <3>1, <3>2, <2>1, <2>3, <2>4, PlacedConcat
  <2>8. ASSUME NEW s, Placed(list, s), s \in old => Placed(new, s), s \notin old => Absent(new, s)
        PROVE  Placed(result, s)
    <3>. DEFINE IsIn(x) == Placed(x, s)
                IsOut(x) == Absent(x, s)
    <3>1. PICK h \in 1..n : \A j \in 1..n : s \in list[j] <=> j = h
      BY <2>8 DEF Placed, PlacedAmong
    <3>2. CASE IsIn(new) /\ IsOut(a) /\ IsOut(b)
      BY <3>2, <2>1, <2>3, <2>4, PlacedConcat
    <3>3. CASE IsOut(new) /\ IsIn(a) /\ IsOut(b)
      BY <3>3, <2>1, <2>3, <2>4, PlacedConcat
    <3>4. CASE IsOut(new) /\ IsOut(a) /\ IsIn(b)
      BY <3>4, <2>1, <2>3, <2>4, PlacedConcat
    <3>. QED BY <3>1, <3>2, <3>3, <3>4, <2>6, <2>8
  <2>. QED BY <2>3, <2>4, <2>7, <2>8
<1>. QED BY <1>2, <1>3, ReplaceIs

LEMMA NotDoneIs ==
    ASSUME NEW G, NEW list \in Seq(G), NEW done
    PROVE  /\ NotDone(list, done) \in Seq(G)
           /\ \A s : Absent(list, s) => Absent(NotDone(list, done), s)
           /\ \A s : Placed(list, s) => \/ Placed(NotDone(list, done), s)
                                       \/ /\ Absent(NotDone(list, done), s)
                                          /\ \E g \in done : s \in g
<1>. DEFINE n == Len(list)
            K == {i \in DOMAIN list : list[i] \notin done}
            kept == Sorted(K)
            m == Cardinality(K)
            result == [i \in 1..m |-> list[kept[i]]]
<1>1. n \in Nat /\ list \in [1..n -> G] /\ DOMAIN list = 1..n
  BY LenProperties
<1>2. CASE done = {}
  <2>1. NotDone(list, done) = list
    BY <1>2 DEF NotDone
  <2>. QED BY <2>1
<1>3. CASE done # {}
  <2>1. K \subseteq Nat /\ IsFiniteSet(K)
    <3>1. K \in SUBSET (1..n) /\ IsFiniteSet(1..n)
      BY <1>1, FS_Interval
    <3>. QED BY <3>1, <1>1, FS_Subset
  <2>2. /\ m \in Nat /\ kept \in [1..m -> K]
        /\ \A i, j \in 1..m : i < j => kept[i] < kept[j]
        /\ \A x \in K : \E i \in 1..m : kept[i] = x
    BY <2>1, SortedIs
  <2>. HIDE DEF kept, m
  <2>3. NotDone(list, done) = result
    BY <1>3, <2>2 DEF NotDone, kept
  <2>4. /\ DOMAIN result = 1..m
        /\ \A i \in 1..m : /\ result[i] = list[kept[i]]
                            /\ kept[i] \in 1..n /\ list[kept[i]] \notin done
    BY <2>2, <1>1
  <2>5. result \in Seq(G)
    <3>1. result \in [1..m -> G]
      BY <2>2, <1>1
    <3>. QED BY <3>1, <2>2, SeqDef
  <2>. HIDE DEF result
  <2>8. Len(result) = m
    BY <2>2, <2>4, <2>5, LenIs
  <2>6. \A s : Absent(list, s) => Absent(result, s)
    BY <2>4, <2>8 DEF Absent, AbsentAmong
  <2>7. ASSUME NEW s, Placed(list, s)
        PROVE  Placed(result, s) \/ (Absent(result, s) /\ \E g \in done : s \in g)
    <3>1. PICK h \in 1..n : \A j \in 1..n : s \in list[j] <=> j = h
      BY <2>7 DEF Placed, PlacedAmong
    <3>2. CASE h \in K
      <4>1. PICK i \in 1..m : kept[i] = h
        BY <2>2, <3>2
      <4>2. \A j \in 1..m : kept[j] = kept[i] => j = i
        <5>. TAKE j \in 1..m
        <5>1. kept[i] \in Nat /\ kept[j] \in Nat
          BY <2>4, <1>1
        <5>. QED BY <5>1, <2>2
      <4>3. \A j \in 1..m : s \in result[j] <=> j = i
        BY <4>1, <4>2, <3>1, <2>4
      <4>. QED BY <4>3, <2>8 DEF Placed, PlacedAmong
    <3>3. CASE h \notin K
      <4>1. list[h] \in done /\ s \in list[h]
        BY <3>1, <3>3, <1>1
      <4>2. \A j \in 1..m : s \notin result[j]
        BY <4>1, <3>1, <2>4
      <4>. QED BY <4>1, <4>2, <2>8 DEF Absent, AbsentAmong
    <3>. QED BY <3>2, <3>3
  <2>. QED BY <2>3, <2>5, <2>6, <2>7
<1>. QED BY <1>2, <1>3
=============================================================================
