----------------------------- MODULE KVStoreProofs -----------------------------
(***************************************************************************)
(* What holds of KVStore for every choice of its constants: first facts     *)
(* about the operators of SSTables (the youngest table exists, cutting a    *)
(* merge yields well-formed tables, ranks are 0, 1, 2 and so on), then      *)
(* types, then the order of the levels: their sizes, the ages of their      *)
(* tables, and their key ranges.  TypeOK is not inductive by itself: a      *)
(* compaction needs to know that there is something to compact, which the   *)
(* step that set pc made sure of.                                           *)
(***************************************************************************)
EXTENDS KVStore, FiniteSetTheorems, WellFoundedInduction, SequenceTheorems, TLAPS

------------------------------------------------------------------------------
(* Minimum and maximum *)

(* A non-empty set of naturals has a least element. *)
LEMMA MinInSet ==
  ASSUME NEW S \in SUBSET Nat, S # {}
  PROVE  Min(S) \in S /\ \A x \in S : Min(S) <= x
<1> DEFINE Below == {0 .. x : x \in S}
<1>1. Below \subseteq FiniteSubsetsOf(Nat)
  <2> SUFFICES ASSUME NEW x \in S
               PROVE  0 .. x \in FiniteSubsetsOf(Nat)
    OBVIOUS
  <2>1. x \in Int /\ 0 .. x \in SUBSET Nat
    OBVIOUS
  <2> QED BY <2>1, FS_Interval DEF FiniteSubsetsOf
<1>2. Below # {}
  OBVIOUS
<1>3. PICK B \in Below : \A C \in Below : <<C, B>> \notin StrictSubsetOrdering(Nat)
  <2> HIDE DEF Below
  <2> QED BY <1>1, <1>2, FS_StrictSubsetOrderingWellFounded, WFMin
<1>4. PICK m \in S : B = 0 .. m
  OBVIOUS
<1>5. \A x \in S : m <= x
  <2> TAKE x \in S
  <2>1. SUFFICES ASSUME x < m PROVE FALSE
    OBVIOUS
  <2>2. 0 .. x \in SUBSET Nat /\ B \in SUBSET Nat
    BY <1>4
  <2>3. 0 .. x \subseteq B /\ 0 .. x # B
    BY <1>4, <2>1
  <2> QED BY <1>3, <2>2, <2>3 DEF StrictSubsetOrdering
<1> QED BY <1>5 DEF Min

(* A non-empty bounded set of naturals has a greatest element. *)
LEMMA MaxInSet ==
  ASSUME NEW S \in SUBSET Nat, S # {}, NEW b \in Nat, \A x \in S : x <= b
  PROVE  Max(S) \in S /\ \A x \in S : x <= Max(S)
<1> DEFINE T == {b - x : x \in S}
<1>1. T \in SUBSET Nat /\ T # {}
  <2>1. \A x \in S : b - x \in Nat
    OBVIOUS
  <2>2. PICK x \in S : TRUE
    OBVIOUS
  <2>3. b - x \in T
    OBVIOUS
  <2> QED BY <2>1, <2>3
<1> HIDE DEF T
<1>2. Min(T) \in T /\ \A y \in T : Min(T) <= y
  BY <1>1, MinInSet
<1>3. PICK m \in S : Min(T) = b - m
  BY <1>2 DEF T
<1>4. \A x \in S : x <= m
  <2> TAKE x \in S
  <2>1. b - m <= b - x
    BY <1>2, <1>3 DEF T
  <2> QED BY <2>1
<1> QED BY <1>4 DEF Max

------------------------------------------------------------------------------
(* Tables *)

Items == [off: Int, vlen: {0, 1}]

(* The bounds of a table are keys of it and bound its keys. *)
LEMMA TableFacts ==
  ASSUME NEW b \in Nat, NEW K \in SUBSET (0 .. b), NEW n \in Nat,
         NEW t, IsTable(t, K, n)
  PROVE  /\ t.timeId \in Nat /\ t.timeId < n
         /\ KeysOf(t) \in SUBSET K /\ KeysOf(t) \in SUBSET Nat
         /\ t.items \in [KeysOf(t) -> Items]
         /\ Smallest(t) \in KeysOf(t) /\ Smallest(t) \in Nat
         /\ Largest(t) \in KeysOf(t) /\ Largest(t) \in Nat
         /\ \A k \in KeysOf(t) : Smallest(t) <= k /\ k <= Largest(t)
<1>1. /\ t.timeId \in 0 .. n - 1
      /\ KeysOf(t) \in SUBSET K /\ KeysOf(t) # {}
      /\ t.items \in [KeysOf(t) -> Items]
  BY DEF IsTable, Items
<1> DEFINE D == KeysOf(t)
<1>2. D \in SUBSET Nat /\ D # {} /\ \A k \in D : k <= b
  <2> HIDE DEF D
  <2>1. D \in SUBSET K /\ D # {}
    BY <1>1 DEF D
  <2> QED BY <2>1
<1> HIDE DEF D
<1>3. Min(D) \in D /\ \A k \in D : Min(D) <= k
  BY <1>2, MinInSet
<1>4. Max(D) \in D /\ \A k \in D : k <= Max(D)
  BY <1>2, MaxInSet
<1> QED BY <1>1, <1>2, <1>3, <1>4 DEF Smallest, Largest, D

(* Being older is a strict order. *)
LEMMA OlderTransitive ==
  ASSUME NEW b \in Nat, NEW K \in SUBSET (0 .. b), NEW n \in Nat,
         NEW t, IsTable(t, K, n), NEW u, IsTable(u, K, n), NEW w, IsTable(w, K, n)
  PROVE  /\ Older(t, u) /\ Older(u, w) => Older(t, w)
         /\ Older(t, u) => ~Older(u, t)
         /\ ~Older(t, t)
<1>1. \A x \in {t, u, w} : x.timeId \in Nat /\ Smallest(x) \in Nat
  BY TableFacts
<1> QED BY <1>1 DEF Older

(* The youngest of some tables is one of them, and none is younger. *)
LEMMA NewestInSet ==
  ASSUME NEW b \in Nat, NEW K \in SUBSET (0 .. b), NEW n \in Nat,
         NEW S, S # {}, \A t \in S : IsTable(t, K, n)
  PROVE  Newest(S) \in S /\ \A u \in S : ~Older(Newest(S), u)
<1>1. \A t \in S : /\ t.timeId \in Nat /\ t.timeId <= n
                   /\ Smallest(t) \in Nat /\ Smallest(t) <= b
  <2> TAKE t \in S
  <2>1. /\ t.timeId \in Nat /\ t.timeId < n
        /\ Smallest(t) \in KeysOf(t) /\ KeysOf(t) \in SUBSET K /\ Smallest(t) \in Nat
    BY TableFacts
  <2> QED BY <2>1
<1> DEFINE Ages == {t.timeId : t \in S}
<1>2. Ages \in SUBSET Nat /\ Ages # {} /\ \A a \in Ages : a <= n
  BY <1>1
<1>3. Max(Ages) \in Ages /\ \A a \in Ages : a <= Max(Ages)
  <2> HIDE DEF Ages
  <2> QED BY <1>2, MaxInSet
<1> DEFINE T == {t \in S : t.timeId = Max(Ages)}
           Firsts == {Smallest(t) : t \in T}
<1>4. Firsts \in SUBSET Nat /\ Firsts # {} /\ \A f \in Firsts : f <= b
  <2>1. T # {} BY <1>3
  <2> QED BY <1>1, <2>1
<1>5. Max(Firsts) \in Firsts /\ \A f \in Firsts : f <= Max(Firsts)
  <2> HIDE DEF Firsts
  <2> QED BY <1>4, MaxInSet
<1>6. PICK t \in T : Smallest(t) = Max(Firsts)
  BY <1>5
<1>7. \A u \in S : ~Older(t, u)
  <2> SUFFICES ASSUME NEW u \in S, Older(t, u) PROVE FALSE
    OBVIOUS
  <2>1. u.timeId \in Ages /\ u.timeId <= t.timeId
    BY <1>3
  <2>2. t.timeId = u.timeId /\ Smallest(t) < Smallest(u)
    BY <2>1, <1>1 DEF Older
  <2>3. Smallest(u) \in Firsts
    BY <2>2
  <2>4. Smallest(u) <= Smallest(t)
    <3> HIDE DEF Firsts
    <3> QED BY <2>3, <1>5, <1>6
  <2> QED BY <2>2, <2>4, <1>1
<1> QED BY <1>7 DEF Newest

(* The youngest time stamp of some tables. *)
LEMMA MaxTimeIdInSet ==
  ASSUME NEW b \in Nat, NEW K \in SUBSET (0 .. b), NEW n \in Nat,
         NEW S, S # {}, \A t \in S : IsTable(t, K, n)
  PROVE  /\ MaxTimeId(S) \in 0 .. n - 1
         /\ \E t \in S : MaxTimeId(S) = t.timeId
         /\ \A t \in S : t.timeId <= MaxTimeId(S)
<1> DEFINE Ages == {t.timeId : t \in S}
<1>1. \A t \in S : t.timeId \in Nat /\ t.timeId < n
  BY TableFacts
<1>2. Ages \in SUBSET Nat /\ Ages # {} /\ \A a \in Ages : a <= n
  BY <1>1
<1>3. Max(Ages) \in Ages /\ \A a \in Ages : a <= Max(Ages)
  <2> HIDE DEF Ages
  <2> QED BY <1>2, MaxInSet
<1>4. PICK t \in S : t.timeId = Max(Ages)
  BY <1>3
<1>5. MaxTimeId(S) = t.timeId
  BY <1>4 DEF MaxTimeId
<1>6. \A u \in S : u.timeId <= t.timeId
  BY <1>3, <1>4
<1>7. t.timeId \in 0 .. n - 1
  BY <1>1
<1> HIDE DEF Ages
<1> QED BY <1>4, <1>5, <1>6, <1>7

(* Among some tables there is one no other is older than. *)
LEMMA OldestExists ==
  ASSUME NEW b \in Nat, NEW K \in SUBSET (0 .. b), NEW n \in Nat,
         NEW S, S # {}, \A t \in S : IsTable(t, K, n)
  PROVE  \E t \in S : \A u \in S : ~Older(u, t)
<1>1. \A t \in S : t.timeId \in Nat /\ Smallest(t) \in Nat
  BY TableFacts
<1> DEFINE Ages == {t.timeId : t \in S}
<1>2. Ages \in SUBSET Nat /\ Ages # {}
  BY <1>1
<1>3. Min(Ages) \in Ages /\ \A a \in Ages : Min(Ages) <= a
  <2> HIDE DEF Ages
  <2> QED BY <1>2, MinInSet
<1> DEFINE T == {t \in S : t.timeId = Min(Ages)}
           Firsts == {Smallest(t) : t \in T}
<1>4. Firsts \in SUBSET Nat /\ Firsts # {}
  <2>1. T # {} BY <1>3
  <2> QED BY <1>1, <2>1
<1>5. Min(Firsts) \in Firsts /\ \A f \in Firsts : Min(Firsts) <= f
  <2> HIDE DEF Firsts
  <2> QED BY <1>4, MinInSet
<1>6. PICK t \in T : Smallest(t) = Min(Firsts)
  BY <1>5
<1>7. \A u \in S : ~Older(u, t)
  <2> SUFFICES ASSUME NEW u \in S, Older(u, t) PROVE FALSE
    OBVIOUS
  <2>1. u.timeId \in Ages /\ t.timeId <= u.timeId
    BY <1>3
  <2>2. t.timeId = u.timeId /\ Smallest(u) < Smallest(t)
    BY <2>1, <1>1 DEF Older
  <2>3. Smallest(u) \in Firsts
    BY <2>2
  <2>4. Smallest(t) <= Smallest(u)
    <3> HIDE DEF Firsts
    <3> QED BY <2>3, <1>5, <1>6
  <2> QED BY <2>2, <2>4, <1>1
<1> QED BY <1>7

(* Of more tables than the limit, at least the very oldest is to be moved. *)
LEMMA OldestNotEmpty ==
  ASSUME NEW b \in Nat, NEW K \in SUBSET (0 .. b), NEW n \in Nat,
         NEW S, S # {}, \A t \in S : IsTable(t, K, n),
         NEW limit, Cardinality(S) > limit
  PROVE  Oldest(S, limit) # {}
<1>1. PICK t \in S : \A u \in S : ~Older(u, t)
  BY OldestExists
<1>2. {u \in S : ~Older(u, t)} = S
  BY <1>1
<1> QED BY <1>2 DEF Oldest

(* The tables that stay are no older than those that are moved. *)
LEMMA OldestAreOlder ==
  ASSUME NEW b \in Nat, NEW K \in SUBSET (0 .. b), NEW n \in Nat,
         NEW S, IsFiniteSet(S), \A t \in S : IsTable(t, K, n),
         NEW limit \in Nat,
         NEW t \in Oldest(S, limit), NEW r \in S \ Oldest(S, limit)
  PROVE  t.timeId <= r.timeId
<1> DEFINE NoOlder(x) == {u \in S : ~Older(u, x)}
<1>1. t \in S /\ Cardinality(NoOlder(t)) > limit /\ ~(Cardinality(NoOlder(r)) > limit)
  BY DEF Oldest
<1>2. t.timeId \in Nat /\ r.timeId \in Nat
  BY <1>1, TableFacts
<1>3. SUFFICES ASSUME Older(r, t) PROVE FALSE
  BY <1>2 DEF Older
<1>4. NoOlder(t) \subseteq NoOlder(r)
  <2> SUFFICES ASSUME NEW u \in S, Older(u, r) PROVE Older(u, t)
    OBVIOUS
  <2> QED BY <1>1, <1>3, OlderTransitive
<1>5. /\ IsFiniteSet(NoOlder(r)) /\ IsFiniteSet(NoOlder(t))
      /\ NoOlder(t) \in SUBSET NoOlder(r)
  <2>1. NoOlder(r) \in SUBSET S /\ NoOlder(t) \in SUBSET S
    OBVIOUS
  <2> HIDE DEF NoOlder
  <2> QED BY <1>4, <2>1, FS_Subset
<1> HIDE DEF NoOlder
<1>6. /\ Cardinality(NoOlder(r)) \in Nat /\ Cardinality(NoOlder(t)) \in Nat
      /\ Cardinality(NoOlder(t)) <= Cardinality(NoOlder(r))
  BY <1>5, FS_Subset, FS_CardinalityType
<1> QED BY <1>1, <1>6

(* No more tables stay than the limit. *)
LEMMA OldestLeaveLimit ==
  ASSUME NEW b \in Nat, NEW K \in SUBSET (0 .. b), NEW n \in Nat,
         NEW S, IsFiniteSet(S), \A t \in S : IsTable(t, K, n),
         NEW limit \in Nat
  PROVE  Cardinality(S \ Oldest(S, limit)) <= limit
<1> DEFINE R == S \ Oldest(S, limit)
<1>1. IsFiniteSet(R) /\ R \in SUBSET S
  <2>1. R \in SUBSET S
    OBVIOUS
  <2> HIDE DEF R
  <2> QED BY <2>1, FS_Subset
<1>2. CASE R = {}
  BY <1>2, FS_EmptySet
<1>3. CASE R # {}
  <2>1. PICK r \in R : \A u \in R : ~Older(u, r)
    <3> HIDE DEF R
    <3> QED BY <1>1, <1>3, OldestExists
  <2> DEFINE N == {u \in S : ~Older(u, r)}
  <2>2. R \in SUBSET N /\ N \in SUBSET S /\ ~(Cardinality(N) > limit)
    BY <2>1 DEF Oldest
  <2> HIDE DEF R, N
  <2>3. /\ IsFiniteSet(N) /\ Cardinality(N) \in Nat
        /\ Cardinality(R) <= Cardinality(N) /\ Cardinality(R) \in Nat
    BY <1>1, <2>2, FS_Subset, FS_CardinalityType
  <2>4. Cardinality(R) <= limit
    BY <2>2, <2>3
  <2> QED BY <2>4 DEF R
<1> QED BY <1>2, <1>3

(* Writing tables one over the other gives each of their keys an item. *)
LEMMA MergedItems ==
  ASSUME NEW b \in Nat, NEW K \in SUBSET (0 .. b), NEW n \in Nat,
         NEW S, \A t \in S : IsTable(t, K, n)
  PROVE  /\ Merged(S) \in [UNION {KeysOf(t) : t \in S} -> Items]
         /\ UNION {KeysOf(t) : t \in S} \subseteq K
<1>1. ASSUME NEW k \in UNION {KeysOf(t) : t \in S}
      PROVE  Newest(Holding(S, k)).items[k] \in Items
  <2>1. Holding(S, k) # {} /\ \A t \in Holding(S, k) : IsTable(t, K, n)
    BY <1>1 DEF Holding
  <2>2. Newest(Holding(S, k)) \in Holding(S, k)
    BY <2>1, NewestInSet
  <2>3. PICK t \in S : t = Newest(Holding(S, k)) /\ k \in KeysOf(t)
    BY <2>2 DEF Holding
  <2>4. t.items \in [KeysOf(t) -> Items]
    BY TableFacts
  <2> QED BY <2>3, <2>4
<1>2. \A t \in S : KeysOf(t) \subseteq K
  BY TableFacts
<1> QED BY <1>1, <1>2 DEF Merged

LEMMA OverridingItems ==
  ASSUME NEW K, NEW D \in SUBSET K, NEW E \in SUBSET K,
         NEW f \in [D -> Items], NEW g \in [E -> Items]
  PROVE  D \cup E \subseteq K /\ Overriding(f, g) \in [D \cup E -> Items]
BY DEF Overriding

LEMMA KeptItems ==
  ASSUME NEW K, NEW D \in SUBSET K, NEW f \in [D -> Items], NEW isLastLevel
  PROVE  \E E \in SUBSET K : E \subseteq D /\ Kept(f, isLastLevel) \in [E -> Items]
<1> DEFINE E == {k \in D : ~(isLastLevel /\ f[k].vlen = 0)}
<1>1. E \subseteq D /\ Kept(f, isLastLevel) \in [E -> Items]
  BY DEF Kept, Restrict
<1> QED BY <1>1

------------------------------------------------------------------------------
(* Ranks and cutting *)

(* Ranks start at 0 and rise with the keys. *)
LEMMA RankRises ==
  ASSUME NEW b \in Nat, NEW D \in SUBSET (0 .. b)
  PROVE  /\ IsFiniteSet(D) /\ Cardinality(D) \in Nat
         /\ \A k \in D : Rank(D, k) \in Nat /\ Rank(D, k) < Cardinality(D)
         /\ \A j, k \in D : j < k => Rank(D, j) < Rank(D, k)
<1> DEFINE Lower(x) == {j \in D : j < x}
<1>1. IsFiniteSet(D) /\ Cardinality(D) \in Nat
  <2>1. IsFiniteSet(0 .. b)
    BY FS_Interval
  <2> QED BY <2>1, FS_Subset, FS_CardinalityType
<1>2. \A x \in D : /\ IsFiniteSet(Lower(x)) /\ Cardinality(Lower(x)) \in Nat
                   /\ Cardinality(Lower(x)) < Cardinality(D)
  <2> TAKE x \in D
  <2>1. Lower(x) \in SUBSET D /\ Lower(x) # D
    OBVIOUS
  <2> HIDE DEF Lower
  <2> QED BY <1>1, <2>1, FS_Subset, FS_CardinalityType
<1>3. ASSUME NEW j \in D, NEW k \in D, j < k
      PROVE  Cardinality(Lower(j)) < Cardinality(Lower(k))
  <2>1. Lower(j) \in SUBSET Lower(k) /\ Lower(j) # Lower(k)
    <3>1. D \subseteq Int
      OBVIOUS
    <3>2. j \in Lower(k) /\ j \notin Lower(j)
      BY <1>3, <3>1
    <3>3. \A x \in Lower(j) : x \in Lower(k)
      BY <1>3, <3>1
    <3> QED BY <3>2, <3>3
  <2> HIDE DEF Lower
  <2> QED BY <1>2, <2>1, FS_Subset, FS_CardinalityType
<1> QED BY <1>1, <1>2, <1>3 DEF Rank

(* Every rank below the number of keys is the rank of a key. *)
LEMMA RankOnto ==
  ASSUME NEW b \in Nat, NEW D \in SUBSET (0 .. b),
         NEW i \in 0 .. Cardinality(D) - 1
  PROVE  \E k \in D : Rank(D, k) = i
<1> DEFINE R == 0 .. Cardinality(D) - 1
           f == [k \in D |-> Rank(D, k)]
<1>1. IsFiniteSet(D) /\ Cardinality(D) \in Nat
  BY RankRises
<1>2. IsFiniteSet(R) /\ Cardinality(R) = Cardinality(D)
  BY <1>1, FS_Interval
<1>3. f \in Injection(D, R)
  <2>1. f \in [D -> R]
    <3>1. \A k \in D : Rank(D, k) \in Nat /\ Rank(D, k) < Cardinality(D)
      BY RankRises
    <3> QED BY <1>1, <3>1
  <2>2. ASSUME NEW j \in D, NEW k \in D, f[j] = f[k]
        PROVE  j = k
    <3>1. Rank(D, j) = Rank(D, k) /\ j \in Nat /\ k \in Nat
      BY <2>2
    <3>2. /\ Rank(D, j) \in Nat
          /\ j < k => Rank(D, j) < Rank(D, k)
          /\ k < j => Rank(D, k) < Rank(D, j)
      BY RankRises
    <3> QED BY <3>1, <3>2
  <2> QED BY <2>1, <2>2 DEF Injection, IsInjective
<1>4. f \in Surjection(D, R)
  <2> HIDE DEF f, R
  <2> QED BY <1>2, <1>3, FS_Injection
<1> QED BY <1>4 DEF Surjection

(* Cutting items yields well-formed tables that share no key and keep every *)
(* item; of two of them one has only smaller keys than the other.           *)
LEMMA SplitTables ==
  ASSUME NEW b \in Nat, NEW K \in SUBSET (0 .. b), NEW n \in Nat,
         NEW D \in SUBSET K, NEW items \in [D -> Items], NEW a \in 0 .. n - 1
  PROVE  \A t \in Split(items, a) : IsTable(t, K, n) /\ t.timeId = a /\ KeysOf(t) \subseteq D
<1> SUFFICES ASSUME NEW k \in D
             PROVE  LET t == Table(a, Restrict(items, ChunkOf(D, k)))
                    IN  IsTable(t, K, n) /\ t.timeId = a /\ KeysOf(t) \subseteq D
  BY DEF Split
<1>1. ChunkOf(D, k) \subseteq D /\ k \in ChunkOf(D, k)
  BY DEF ChunkOf
<1> QED BY <1>1 DEF Table, Restrict, IsTable, KeysOf, Items

LEMMA SplitFinite ==
  ASSUME NEW D, IsFiniteSet(D), NEW items \in [D -> Items], NEW a
  PROVE  IsFiniteSet(Split(items, a))
<1> DEFINE f == [k \in D |-> Table(a, Restrict(items, ChunkOf(D, k)))]
<1>1. f \in Surjection(D, Split(items, a))
  BY DEF Surjection, Split
<1> QED BY <1>1, FS_Surjection

(* Two tables whose key ranges do not meet. *)
Apart(t, u) == Largest(t) < Smallest(u) \/ Largest(u) < Smallest(t)

(* Ranks order keys. *)
LEMMA RankOrders ==
  ASSUME NEW b \in Nat, NEW D \in SUBSET (0 .. b), NEW j \in D, NEW k \in D,
         Rank(D, j) < Rank(D, k)
  PROVE  j < k
<1>1. /\ \A x \in D : Rank(D, x) \in Nat
      /\ \A x, y \in D : x < y => Rank(D, x) < Rank(D, y)
  BY RankRises
<1>2. j \in Nat /\ k \in Nat /\ Rank(D, j) \in Nat /\ Rank(D, k) \in Nat
  BY <1>1
<1>3. k < j => Rank(D, k) < Rank(D, j)
  BY <1>1
<1> QED BY <1>2, <1>3

(* Of two different tables cut from the same items one has only keys below  *)
(* those of the other.                                                      *)
LEMMA SplitApart ==
  ASSUME NEW b \in Nat, NEW K \in SUBSET (0 .. b), NEW n \in Nat,
         NEW D \in SUBSET K, NEW items \in [D -> Items], NEW a \in 0 .. n - 1,
         NEW t \in Split(items, a), NEW u \in Split(items, a), t # u
  PROVE  Apart(t, u)
<1> DEFINE Part(k) == Rank(D, k) \div MemtableThreshold
<1>1. PICK j \in D : t = Table(a, Restrict(items, ChunkOf(D, j)))
  BY DEF Split
<1>2. PICK k \in D : u = Table(a, Restrict(items, ChunkOf(D, k)))
  BY DEF Split
<1>3. /\ KeysOf(t) = {x \in D : Part(x) = Part(j)}
      /\ KeysOf(u) = {x \in D : Part(x) = Part(k)}
  BY <1>1, <1>2 DEF KeysOf, Table, Restrict, ChunkOf
<1>4. Part(j) # Part(k)
  BY <1>1, <1>2 DEF ChunkOf
<1>5. D \in SUBSET (0 .. b) /\ \A x \in D : Rank(D, x) \in Nat
  BY RankRises
<1>6. \A x \in D : Part(x) \in Int
  BY <1>5, SSTablesAssumption
<1>7. ASSUME NEW x \in D, NEW y \in D, Part(x) < Part(y)
      PROVE  x < y
  <2>1. Rank(D, x) < Rank(D, y)
    <3>1. SUFFICES ASSUME Rank(D, y) <= Rank(D, x) PROVE FALSE
      BY <1>5
    <3>2. Part(y) <= Part(x)
      <4>1. Rank(D, y) \in Nat /\ Rank(D, x) \in Nat /\ MemtableThreshold \in Nat \ {0}
        BY <1>5, SSTablesAssumption
      <4> QED BY <4>1, <3>1
    <3> QED BY <1>6, <1>7, <3>2
  <2> QED BY <1>5, <2>1, RankOrders
<1>8. /\ Smallest(t) \in KeysOf(t) /\ Largest(t) \in KeysOf(t)
      /\ Smallest(u) \in KeysOf(u) /\ Largest(u) \in KeysOf(u)
  <2>1. IsTable(t, K, n) /\ IsTable(u, K, n)
    BY SplitTables
  <2> QED BY <2>1, TableFacts
<1> HIDE DEF Part
<1>9. /\ Smallest(t) \in D /\ Part(Smallest(t)) = Part(j)
      /\ Largest(t) \in D /\ Part(Largest(t)) = Part(j)
      /\ Smallest(u) \in D /\ Part(Smallest(u)) = Part(k)
      /\ Largest(u) \in D /\ Part(Largest(u)) = Part(k)
  BY <1>3, <1>8
<1>10. Part(j) < Part(k) \/ Part(k) < Part(j)
  BY <1>4, <1>6
<1> QED BY <1>7, <1>9, <1>10 DEF Apart

AllApart(S) == \A t, u \in S : t # u => Apart(t, u)

(* new is what becomes of the tables from above and of those of the level   *)
(* that meet their key range.                                               *)
Replaces(level, from, into, new, K, n) ==
  /\ \A k \in K : AsInt(k) = k
  /\ \A t \in level \cup from \cup new : IsTable(t, K, n)
  /\ from # {} /\ into = Overlapping(level, from)
  /\ AllApart(level) /\ AllApart(new)
  /\ \A t \in new : KeysOf(t) \subseteq UNION {KeysOf(u) : u \in from \cup into}

(* Replacing the tables of a level that meet the key range of the tables    *)
(* from above by tables cut from all their keys leaves the level free of    *)
(* overlaps.                                                                *)
LEMMA ReplacedApart ==
  ASSUME NEW b \in Nat, NEW K \in SUBSET (0 .. b), NEW n \in Nat,
         NEW level, NEW from, NEW into, NEW new, Replaces(level, from, into, new, K, n)
  PROVE  AllApart((level \ into) \cup new)
<1>0. /\ \A k \in K : AsInt(k) = k
      /\ \A t \in level \cup from \cup new : IsTable(t, K, n)
      /\ from # {} /\ into = Overlapping(level, from)
      /\ \A t, u \in level : t # u => Apart(t, u)
      /\ \A t, u \in new : t # u => Apart(t, u)
      /\ \A t \in new : KeysOf(t) \subseteq UNION {KeysOf(u) : u \in from \cup into}
  BY DEF Replaces, AllApart
<1>1. \A t \in level \cup from \cup new :
        /\ Smallest(t) \in KeysOf(t) /\ Smallest(t) \in Nat
        /\ Largest(t) \in KeysOf(t) /\ Largest(t) \in Nat
        /\ Smallest(t) \in K /\ Largest(t) \in K
        /\ KeysOf(t) \in SUBSET Nat
        /\ \A k \in KeysOf(t) : Smallest(t) <= k /\ k <= Largest(t)
  BY <1>0, TableFacts
<1>2. into = {t \in level : /\ \E u \in from : Smallest(t) <= Largest(u)
                            /\ \E u \in from : Largest(t) >= Smallest(u)}
  BY <1>0, <1>1 DEF Overlapping
<1>3. ASSUME NEW r \in level \ into, NEW t \in new
      PROVE  Apart(r, t)
  <2>1. PICK w \in from \cup into : Smallest(t) \in KeysOf(w)
    BY <1>0, <1>1
  <2>2. PICK x \in from \cup into : Largest(t) \in KeysOf(x)
    BY <1>0, <1>1
  <2>3. CASE \A u \in from : Smallest(r) > Largest(u)
    <3>1. \A y \in from \cup into : Largest(y) < Smallest(r)
      <4>1. ASSUME NEW y \in into
            PROVE  Largest(y) < Smallest(r)
        <5>1. y \in level /\ y # r /\ \E u \in from : Smallest(y) <= Largest(u)
          BY <1>0, <1>2, <1>3
        <5>2. Smallest(y) < Smallest(r)
          BY <2>3, <5>1, <1>1
        <5>3. Apart(y, r)
          BY <1>0, <1>3, <5>1
        <5> QED BY <5>1, <5>2, <5>3, <1>1 DEF Apart
      <4> QED BY <2>3, <4>1, <1>1
    <3>2. x \in level \cup from
      BY <1>2
    <3>3. Largest(t) <= Largest(x) /\ Largest(x) < Smallest(r)
      BY <2>2, <3>1, <3>2, <1>1
    <3> QED BY <3>2, <3>3, <1>1 DEF Apart
  <2>4. CASE \A u \in from : Largest(r) < Smallest(u)
    <3>1. \A y \in from \cup into : Largest(r) < Smallest(y)
      <4>1. ASSUME NEW y \in into
            PROVE  Largest(r) < Smallest(y)
        <5>1. y \in level /\ y # r /\ \E u \in from : Largest(y) >= Smallest(u)
          BY <1>0, <1>2, <1>3
        <5>2. Largest(r) < Largest(y)
          BY <2>4, <5>1, <1>1
        <5>3. Apart(y, r)
          BY <1>0, <1>3, <5>1
        <5> QED BY <5>1, <5>2, <5>3, <1>1 DEF Apart
      <4> QED BY <2>4, <4>1, <1>1
    <3>2. w \in level \cup from
      BY <1>2
    <3>3. Smallest(w) <= Smallest(t) /\ Largest(r) < Smallest(w)
      BY <2>1, <3>1, <3>2, <1>1
    <3> QED BY <3>2, <3>3, <1>1 DEF Apart
  <2>5. (\A u \in from : Smallest(r) > Largest(u)) \/ (\A u \in from : Largest(r) < Smallest(u))
    <3>1. r \in level /\ r \notin into
      BY <1>3
    <3> QED BY <3>1, <1>1, <1>2
  <2> QED BY <2>3, <2>4, <2>5
<1> QED BY <1>0, <1>3 DEF Apart, AllApart

------------------------------------------------------------------------------
(* The types of KVStore *)

(* What the step that starts a compaction leaves behind. *)
CompactionDue ==
  /\ pc = "compactLevel0" => level0 # <<>>
  /\ pc = "compact" =>
       depth \in DOMAIN levels /\ Cardinality(levels[depth]) > LevelLimit(depth)

Inv == TypeOK /\ CompactionDue

------------------------------------------------------------------------------
(* Constants and sequences *)

MaxKey == WordSpan - 1

LEMMA KeysBounded == MaxKey \in Nat /\ Keys \in SUBSET (0 .. MaxKey)
BY SSTablesAssumption, KVStoreAssumption DEF MaxKey

(* The limit of a level is a natural number. *)
LEMMA LimitIsNat ==
  ASSUME NEW l \in Nat
  PROVE  LevelLimit(l) \in Nat
<1>1. 1 .. l + 1 \in SUBSET Int /\ l + 1 \in Nat
  OBVIOUS
<1>2. IsFiniteSet(1 .. l + 1) /\ Cardinality(1 .. l + 1) = l + 1
  BY FS_Interval
<1>3. 2 ^ (l + 1) \in Nat
  BY <1>2, FS_SUBSET, FS_CardinalityType
<1> QED BY <1>3, KVStoreAssumption DEF LevelLimit

LEMMA SeqFacts ==
  ASSUME NEW s, s \in Seq(Range(s))
  PROVE  /\ Len(s) \in Nat /\ DOMAIN s = 1 .. Len(s)
         /\ s # <<>> <=> Len(s) > 0
BY LenProperties, EmptySeq

(* Appending and replacing an element. *)
LEMMA AppendFacts ==
  ASSUME NEW s, s \in Seq(Range(s)), NEW e
  PROVE  /\ Append(s, e) \in Seq(Range(Append(s, e)))
         /\ DOMAIN Append(s, e) = 1 .. Len(s) + 1
         /\ Append(s, e) # <<>>
         /\ Len(Append(s, e)) = Len(s) + 1
         /\ \A i \in 1 .. Len(s) + 1 :
              Append(s, e)[i] = IF i = Len(s) + 1 THEN e ELSE s[i]
<1> DEFINE S == Range(s) \cup {e}
<1>1. s \in Seq(S) /\ e \in S
  BY SeqMonotonic
<1> HIDE DEF S
<1>2. /\ Append(s, e) \in Seq(S) /\ Append(s, e) # <<>>
      /\ Len(Append(s, e)) = Len(s) + 1
      /\ \A i \in 1 .. Len(s) : Append(s, e)[i] = s[i]
      /\ Append(s, e)[Len(s) + 1] = e
  BY <1>1, AppendProperties
<1>3. Append(s, e) \in Seq(Range(Append(s, e)))
  BY <1>2, SeqOfRange
<1>4. Len(s) \in Nat /\ DOMAIN Append(s, e) = 1 .. Len(Append(s, e))
  BY <1>1, <1>2, LenProperties
<1> QED BY <1>2, <1>3, <1>4

LEMMA ReplaceFacts ==
  ASSUME NEW s, s \in Seq(Range(s)), NEW i \in DOMAIN s, NEW e
  PROVE  /\ [s EXCEPT ![i] = e] \in Seq(Range([s EXCEPT ![i] = e]))
         /\ DOMAIN [s EXCEPT ![i] = e] = DOMAIN s
         /\ Len([s EXCEPT ![i] = e]) = Len(s)
         /\ \A j \in DOMAIN s : [s EXCEPT ![i] = e][j] = IF j = i THEN e ELSE s[j]
<1> DEFINE S == Range(s) \cup {e}
           r == [s EXCEPT ![i] = e]
<1>1. s \in Seq(S) /\ e \in S /\ DOMAIN s = 1 .. Len(s) /\ Len(s) \in Nat
  BY SeqMonotonic, LenProperties
<1>2. r \in [1 .. Len(s) -> S]
  <2>1. s \in [1 .. Len(s) -> S]
    BY <1>1, LenProperties
  <2> QED BY <1>1, <2>1
<1>3. r \in Seq(S) /\ Len(r) = Len(s)
  <2>1. r \in Seq(S)
    BY <1>1, <1>2, SeqDef
  <2>2. DOMAIN r = 1 .. Len(r) /\ Len(r) \in Nat /\ DOMAIN r = 1 .. Len(s)
    BY <1>1, <2>1, LenProperties
  <2> QED BY <1>1, <2>1, <2>2
<1>4. r \in Seq(Range(r))
  BY <1>3, SeqOfRange
<1> QED BY <1>1, <1>3, <1>4

------------------------------------------------------------------------------
(* Steps of the memory table *)

(* What TypeOK says of every group of variables. *)
MemOK == /\ DOMAIN memtable \subseteq Keys
         /\ memtable \in [DOMAIN memtable -> PutValues \cup {Tombstone, Empty}]
TablesOK ==
  /\ timeId \in Nat
  /\ level0 \in Seq(Range(level0)) /\ \A i \in DOMAIN level0 : Made(level0[i])
  /\ levels \in Seq(Range(levels)) /\ \A l \in DOMAIN levels : \A t \in levels[l] : Made(t)
LogOK == /\ DOMAIN vlog \subseteq 0 .. tail - 1
         /\ vlog \in [DOMAIN vlog -> LogRecord]
         /\ tail \in Nat
         /\ streamOk \in BOOLEAN
ControlOK ==
  /\ pc \in {"idle", "flush", "compactLevel0", "compact", "clean",
             "gc", "punch", "return"}
  /\ after \in {"return", "gc", "punch"}
  /\ depth \in Nat
  /\ gc \in [start: Nat, off: Nat, left: Nat]
  /\ call \in API!Calls \cup {API!NoCall}

LEMMA TypeParts == TypeOK <=> MemOK /\ TablesOK /\ LogOK /\ ControlOK
BY DEF TypeOK, MemOK, TablesOK, LogOK, ControlOK

LEMMA UnchangedParts ==
  /\ UNCHANGED memtable /\ MemOK => MemOK'
  /\ UNCHANGED <<tables, timeId>> /\ TablesOK => TablesOK'
  /\ UNCHANGED log /\ LogOK => LogOK'
BY DEF MemOK, TablesOK, LogOK, Made, Stamps, tables, log

LEMMA MemPutTypes ==
  ASSUME MemOK, ControlOK,
         NEW k \in Keys, NEW v \in PutValues \cup {Tombstone, Empty},
         NEW next \in {"return", "gc"}, MemPut(k, v, next)
  PROVE  /\ MemOK'
         /\ pc' \in {"flush", next} /\ after' \in {"return", "gc", "punch"}
<1>1. memtable' = Overriding([j \in {k} |-> v], memtable)
  BY DEF MemPut
<1>2. MemOK'
  BY <1>1 DEF MemOK, Overriding
<1> QED BY <1>2 DEF MemPut, ControlOK

LEMMA CallTypes ==
  /\ \A k \in Keys, v \in PutValues : API!PutCall(k, v) \in API!Calls
  /\ \A k \in Keys : API!DelCall(k) \in API!Calls
  /\ \A c \in GcChunks : API!GcCall(c) \in API!Calls
  /\ API!ResetCall \in API!Calls
BY DEF API!Calls

------------------------------------------------------------------------------
(* Flush *)

LEMMA FlushTypes ==
  ASSUME Inv, Flush
  PROVE  TypeOK' /\ CompactionDue'
<1>1. /\ MemOK /\ TablesOK /\ LogOK /\ ControlOK
  BY TypeParts DEF Inv
<1> DEFINE n == Cardinality(Logged)
<1>2. MaxKey \in Nat /\ Logged \in SUBSET (0 .. MaxKey) /\ Logged \subseteq DOMAIN memtable
  BY <1>1, KeysBounded DEF Logged, MemOK
<1>3. /\ IsFiniteSet(Logged) /\ n \in Nat
      /\ \A k \in Logged : Rank(Logged, k) \in Nat /\ Rank(Logged, k) < n
  BY <1>2, RankRises
<1>4. LogOK'
  <2>1. CASE streamOk
    <3>1. ASSUME NEW off \in tail .. tail + n - 1
          PROVE  NewRecords[off] \in LogRecord
      <4>1. \E k \in Logged : Rank(Logged, k) = off - tail
        <5>1. off - tail \in 0 .. n - 1
          BY <1>1, <1>3 DEF LogOK
        <5> QED BY <1>2, <5>1, RankOnto
      <4> DEFINE k == CHOOSE j \in Logged : Rank(Logged, j) = off - tail
      <4>2. k \in Logged
        BY <4>1
      <4>3. NewRecords[off] = [key |-> k, val |-> memtable[k]]
        BY DEF NewRecords
      <4> HIDE DEF k
      <4>4. k \in Keys /\ memtable[k] \in PutValues \cup {Empty}
        BY <4>2, <1>1 DEF Logged, MemOK
      <4> QED BY <4>3, <4>4 DEF LogRecord
    <3>2. DOMAIN NewRecords = tail .. tail + n - 1
      BY DEF NewRecords
    <3>3. vlog' = Overriding(vlog, NewRecords) /\ tail' = tail + n /\ streamOk' = streamOk
      BY <2>1 DEF Flush
    <3>4. DOMAIN vlog' = DOMAIN vlog \cup (tail .. tail + n - 1)
      BY <3>2, <3>3 DEF Overriding
    <3>5. \A off \in DOMAIN vlog' : vlog'[off] \in LogRecord
      BY <3>1, <3>2, <3>3, <1>1 DEF Overriding, LogOK
    <3>6. vlog' = [off \in DOMAIN vlog' |-> vlog'[off]]
      BY <3>3 DEF Overriding
    <3>7. vlog' \in [DOMAIN vlog' -> LogRecord]
      BY <3>5, <3>6
    <3>8. tail' \in Nat /\ DOMAIN vlog' \subseteq 0 .. tail' - 1
      BY <3>3, <3>4, <1>1, <1>3 DEF LogOK
    <3> QED BY <3>3, <3>7, <3>8, <1>1 DEF LogOK, LogRecord
  <2>2. CASE ~streamOk
    BY <2>2, <1>1 DEF LogOK, Flush, LogRecord
  <2> QED BY <2>1, <2>2
<1>5. IsTable(NewTable, Keys, Stamps)
  <2>1. ASSUME NEW k \in DOMAIN memtable
        PROVE  /\ NewOffset(k) \in Int
               /\ VLen(memtable[k]) \in {0, 1}
    BY <1>1, <1>3 DEF NewOffset, VLen, NoOffset, LogOK
  <2>2. DOMAIN memtable # {} /\ DOMAIN memtable \subseteq Keys /\ timeId \in 0 .. Stamps - 1
    BY <1>1 DEF Flush, MemOK, TablesOK, Stamps
  <2> QED BY <2>1, <2>2 DEF IsTable, NewTable, Table, KeysOf
<1>6. TablesOK' /\ level0' # <<>>
  <2>1. level0' = Append(level0, NewTable) /\ timeId' = timeId + 1 /\ levels' = levels
    BY DEF Flush
  <2>2. \A t : IsTable(t, Keys, Stamps) => IsTable(t, Keys, Stamps')
    BY <1>1, <2>1 DEF IsTable, TablesOK, Stamps
  <2>3. level0 \in Seq(Range(level0)) /\ Len(level0) \in Nat /\ DOMAIN level0 = 1 .. Len(level0)
    BY <1>1, SeqFacts DEF TablesOK
  <2>4. /\ level0' \in Seq(Range(level0')) /\ level0' # <<>>
        /\ DOMAIN level0' = 1 .. Len(level0) + 1
        /\ \A i \in 1 .. Len(level0) + 1 :
             level0'[i] = IF i = Len(level0) + 1 THEN NewTable ELSE level0[i]
    BY <2>1, <2>3, AppendFacts
  <2>5. \A i \in DOMAIN level0' : IsTable(level0'[i], Keys, Stamps')
    BY <2>2, <2>3, <2>4, <1>1, <1>5 DEF TablesOK, Made
  <2> QED BY <2>1, <2>2, <2>4, <2>5, <1>1 DEF TablesOK, Made
<1>7. MemOK' /\ ControlOK' /\ pc' \in {"compactLevel0", "clean"}
  BY <1>1 DEF Flush, MemOK, ControlOK
<1> QED BY <1>4, <1>6, <1>7, TypeParts DEF CompactionDue, TypeOK, MemOK, TablesOK, LogOK, ControlOK

------------------------------------------------------------------------------
(* Compactions *)

LEMMA GrownFacts ==
  ASSUME TablesOK, NEW l \in Nat, l > 0, l <= Len(levels) + 1
  PROVE  /\ Grown(l) \in Seq(Range(Grown(l)))
         /\ DOMAIN levels \subseteq DOMAIN Grown(l) /\ l \in DOMAIN Grown(l)
         /\ \A i \in DOMAIN Grown(l) : \/ i \in DOMAIN levels /\ Grown(l)[i] = levels[i]
                                       \/ i = l /\ l \notin DOMAIN levels /\ Grown(l)[i] = {}
         /\ \A i \in DOMAIN Grown(l) : \A t \in Grown(l)[i] : Made(t)
<1>1. levels \in Seq(Range(levels)) /\ Len(levels) \in Nat /\ DOMAIN levels = 1 .. Len(levels)
  BY SeqFacts DEF TablesOK
<1>2. CASE Len(levels) < l
  <2>1. /\ Append(levels, {}) \in Seq(Range(Append(levels, {})))
        /\ DOMAIN Append(levels, {}) = 1 .. Len(levels) + 1
        /\ \A i \in 1 .. Len(levels) + 1 :
             Append(levels, {})[i] = IF i = Len(levels) + 1 THEN {} ELSE levels[i]
    BY <1>1, AppendFacts
  <2>2. Grown(l) = Append(levels, {}) /\ l = Len(levels) + 1
    BY <1>1, <1>2 DEF Grown
  <2> QED BY <1>1, <2>1, <2>2 DEF TablesOK
<1>3. CASE ~(Len(levels) < l)
  <2>1. Grown(l) = levels /\ l \in DOMAIN levels
    BY <1>1, <1>3 DEF Grown
  <2> QED BY <1>1, <2>1 DEF TablesOK
<1> QED BY <1>2, <1>3

(* The tables of the level a compaction goes into.                          *)
Lower0 == Grown(1)[1]
Lower  == Grown(depth + 1)[depth + 1]

(* New tables are cut from items of the tables S, all with one time stamp.  *)
CutFrom(tabs, S, stamp) ==
  \E E \in SUBSET Keys : \E f \in [E -> Items] :
    tabs = Split(f, stamp) /\ E \subseteq UNION {KeysOf(t) : t \in S}

LEMMA CutTables ==
  ASSUME Stamps \in Nat, NEW stamp \in 0 .. Stamps - 1, NEW S, NEW tabs,
         CutFrom(tabs, S, stamp)
  PROVE  /\ IsFiniteSet(tabs)
         /\ \A t \in tabs : /\ Made(t) /\ t.timeId = stamp
                            /\ KeysOf(t) \subseteq UNION {KeysOf(u) : u \in S}
         /\ \A t, u \in tabs : t # u => Apart(t, u)
<1>1. MaxKey \in Nat /\ Keys \in SUBSET (0 .. MaxKey)
  BY KeysBounded
<1>2. PICK E \in SUBSET Keys : \E f \in [E -> Items] :
        tabs = Split(f, stamp) /\ E \subseteq UNION {KeysOf(t) : t \in S}
  BY DEF CutFrom
<1>3. PICK f \in [E -> Items] :
        tabs = Split(f, stamp) /\ E \subseteq UNION {KeysOf(t) : t \in S}
  BY <1>2
<1>4. IsFiniteSet(tabs)
  <2>1. E \in SUBSET (0 .. MaxKey)
    BY <1>1
  <2>2. IsFiniteSet(E)
    BY <1>1, <2>1, RankRises
  <2> QED BY <1>3, <2>2, SplitFinite
<1>5. \A t \in tabs : IsTable(t, Keys, Stamps) /\ t.timeId = stamp /\ KeysOf(t) \subseteq E
  BY <1>1, <1>3, SplitTables
<1>6. \A t, u \in tabs : t # u => Apart(t, u)
  BY <1>1, <1>3, SplitApart
<1> QED BY <1>3, <1>4, <1>5, <1>6 DEF Made

(* What compactLevel0 does to the levels.                                   *)
LEMMA CompactLevel0Shape ==
  ASSUME Inv, CompactLevel0
  PROVE  /\ From0 # {} /\ \A t \in From0 \cup Lower0 : Made(t)
         /\ MaxTimeId(From0 \cup Into0) \in 0 .. Stamps - 1
         /\ CutFrom(New0, From0 \cup Into0, MaxTimeId(From0 \cup Into0))
         /\ levels' \in Seq(Range(levels')) /\ DOMAIN levels \subseteq DOMAIN levels'
         /\ 1 \in DOMAIN levels' /\ levels'[1] = (Lower0 \ Into0) \cup New0
         /\ (1 \in DOMAIN levels /\ Lower0 = levels[1]) \/ (1 \notin DOMAIN levels /\ Lower0 = {})
         /\ \A i \in DOMAIN levels' : i = 1 \/ (i \in DOMAIN levels /\ levels'[i] = levels[i])
<1>1. TablesOK
  BY TypeParts DEF Inv
<1>2. MaxKey \in Nat /\ Keys \in SUBSET (0 .. MaxKey) /\ Stamps \in Nat
  BY <1>1, KeysBounded DEF TablesOK, Stamps
<1>3. From0 # {} /\ \A t \in From0 : Made(t)
  <2>1. level0 # <<>>
    BY DEF CompactLevel0, Inv, CompactionDue
  <2>2. DOMAIN level0 # {}
    BY <2>1, <1>1, SeqFacts DEF TablesOK
  <2> QED BY <2>2, <1>1 DEF From0, Range, TablesOK
<1>4. /\ Grown(1) \in Seq(Range(Grown(1))) /\ 1 \in DOMAIN Grown(1)
      /\ DOMAIN levels \subseteq DOMAIN Grown(1)
      /\ \A i \in DOMAIN Grown(1) : \/ i \in DOMAIN levels /\ Grown(1)[i] = levels[i]
                                    \/ i = 1 /\ 1 \notin DOMAIN levels /\ Grown(1)[i] = {}
      /\ \A i \in DOMAIN Grown(1) : \A t \in Grown(1)[i] : Made(t)
  <2>1. 1 <= Len(levels) + 1
    BY <1>1, SeqFacts DEF TablesOK
  <2> QED BY <1>1, <2>1, GrownFacts
<1>5. \A t \in From0 \cup Lower0 : Made(t)
  BY <1>3, <1>4 DEF Lower0
<1> DEFINE S == From0 \cup Into0
           D == UNION {KeysOf(t) : t \in S}
<1>6. S # {} /\ \A t \in S : IsTable(t, Keys, Stamps)
  BY <1>3, <1>5 DEF Made, Into0, Lower0, Overlapping
<1> HIDE DEF S
<1>7. Merged(S) \in [D -> Items] /\ D \in SUBSET Keys
  BY <1>2, <1>6, MergedItems
<1>8. MaxTimeId(S) \in 0 .. Stamps - 1
  BY <1>2, <1>6, MaxTimeIdInSet
<1>9. CutFrom(New0, S, MaxTimeId(S))
  <2> DEFINE last == Len(levels) = 0
  <2>1. New0 = Split(Kept(Merged(S), last), MaxTimeId(S))
    BY DEF New0, S
  <2> HIDE DEF D, last
  <2>2. PICK E \in SUBSET Keys : E \subseteq D /\ Kept(Merged(S), last) \in [E -> Items]
    BY <1>7, KeptItems
  <2>3. E \subseteq UNION {KeysOf(t) : t \in S}
    BY <2>2 DEF D
  <2> QED BY <2>1, <2>2, <2>3 DEF CutFrom
<1> DEFINE level == (Lower0 \ Into0) \cup New0
<1>10. levels' = [Grown(1) EXCEPT ![1] = level]
  BY DEF CompactLevel0, Lower0, From0, Into0, New0
<1> HIDE DEF level
<1>11. /\ levels' \in Seq(Range(levels')) /\ DOMAIN levels' = DOMAIN Grown(1)
       /\ \A i \in DOMAIN levels' : levels'[i] = IF i = 1 THEN level ELSE Grown(1)[i]
  BY <1>4, <1>10, ReplaceFacts
<1>12. /\ 1 \in DOMAIN levels' /\ levels'[1] = level
       /\ \A i \in DOMAIN levels' : i = 1 \/ (i \in DOMAIN levels /\ levels'[i] = levels[i])
  <2>1. 1 \in DOMAIN levels' /\ levels'[1] = level
    BY <1>4, <1>11
  <2>2. ASSUME NEW i \in DOMAIN levels', i # 1
        PROVE  i \in DOMAIN levels /\ levels'[i] = levels[i]
    <3>1. i \in DOMAIN Grown(1) /\ levels'[i] = Grown(1)[i]
      BY <1>11, <2>2
    <3> QED BY <1>4, <2>2, <3>1
  <2> QED BY <2>1, <2>2
<1>13. (1 \in DOMAIN levels /\ Lower0 = levels[1]) \/ (1 \notin DOMAIN levels /\ Lower0 = {})
  BY <1>4 DEF Lower0
<1> QED BY <1>3, <1>4, <1>5, <1>8, <1>9, <1>11, <1>12, <1>13 DEF S, level

(* What compact does to the levels.                                         *)
LEMMA CompactShape ==
  ASSUME Inv, Compact
  PROVE  /\ depth \in DOMAIN levels /\ depth \in Nat /\ depth > 0
         /\ From # {} /\ From \subseteq levels[depth]
         /\ \A t \in levels[depth] \cup Lower : Made(t)
         /\ MaxTimeId(From) \in 0 .. Stamps - 1
         /\ CutFrom(New, From \cup Into, MaxTimeId(From))
         /\ levels' \in Seq(Range(levels')) /\ DOMAIN levels \subseteq DOMAIN levels'
         /\ depth \in DOMAIN levels' /\ levels'[depth] = levels[depth] \ From
         /\ depth + 1 \in DOMAIN levels' /\ levels'[depth + 1] = (Lower \ Into) \cup New
         /\ \/ depth + 1 \in DOMAIN levels /\ Lower = levels[depth + 1]
            \/ depth + 1 \notin DOMAIN levels /\ Lower = {}
         /\ \A i \in DOMAIN levels' :
              \/ i \in {depth, depth + 1}
              \/ i \in DOMAIN levels /\ levels'[i] = levels[i]
<1>1. TablesOK
  BY TypeParts DEF Inv
<1> DEFINE l == depth
<1>2. MaxKey \in Nat /\ Keys \in SUBSET (0 .. MaxKey) /\ Stamps \in Nat
  BY <1>1, KeysBounded DEF TablesOK, Stamps
<1>3. /\ l \in DOMAIN levels /\ l \in Nat /\ l > 0 /\ l <= Len(levels)
      /\ Len(levels) \in Nat
      /\ Cardinality(levels[l]) > LevelLimit(l)
  <2>1. Len(levels) \in Nat /\ DOMAIN levels = 1 .. Len(levels)
    BY <1>1, SeqFacts DEF TablesOK
  <2>2. l \in DOMAIN levels /\ Cardinality(levels[l]) > LevelLimit(l)
    BY DEF Compact, Inv, CompactionDue
  <2> QED BY <2>1, <2>2
<1>4. From # {} /\ From \subseteq levels[l] /\ \A t \in levels[l] : IsTable(t, Keys, Stamps)
  <2>1. levels[l] # {}
    <3>1. LevelLimit(l) \in Nat /\ Cardinality({}) = 0
      BY <1>3, LimitIsNat, FS_EmptySet
    <3> QED BY <1>3, <3>1
  <2>2. \A t \in levels[l] : IsTable(t, Keys, Stamps)
    BY <1>1, <1>3 DEF TablesOK, Made
  <2>3. From # {}
    BY <1>2, <1>3, <2>1, <2>2, OldestNotEmpty DEF From
  <2> QED BY <2>2, <2>3 DEF From, Oldest
<1> DEFINE G == Grown(l + 1)
<1>5. /\ G \in Seq(Range(G)) /\ l + 1 \in DOMAIN G
      /\ DOMAIN levels \subseteq DOMAIN G
      /\ \A i \in DOMAIN G : \/ i \in DOMAIN levels /\ G[i] = levels[i]
                             \/ i = l + 1 /\ l + 1 \notin DOMAIN levels /\ G[i] = {}
      /\ \A i \in DOMAIN G : \A t \in G[i] : Made(t)
  <2>1. l + 1 \in Nat /\ l + 1 > 0 /\ l + 1 <= Len(levels) + 1
    BY <1>3
  <2> HIDE DEF l
  <2> QED BY <1>1, <1>3, <2>1, GrownFacts
<1>6. Lower = G[l + 1]
  BY DEF Lower
<1> HIDE DEF G
<1>7. \A t \in levels[l] \cup Lower : IsTable(t, Keys, Stamps)
  BY <1>4, <1>5, <1>6 DEF Made
<1> DEFINE D == UNION {KeysOf(t) : t \in From}
           E == UNION {KeysOf(t) : t \in Into}
           merged == Overriding(Merged(From), Merged(Into))
<1>8. /\ \A t \in From : IsTable(t, Keys, Stamps)
      /\ \A t \in Into : IsTable(t, Keys, Stamps)
  BY <1>4, <1>7 DEF Into, Lower, Overlapping
<1>9. Merged(From) \in [D -> Items] /\ D \in SUBSET Keys
  BY <1>2, <1>8, MergedItems
<1>10. Merged(Into) \in [E -> Items] /\ E \in SUBSET Keys
  BY <1>2, <1>8, MergedItems
<1> DEFINE B == D \cup E
<1>11. B \subseteq UNION {KeysOf(t) : t \in From \cup Into}
  OBVIOUS
<1> HIDE DEF D, E
<1>12. merged \in [B -> Items] /\ B \in SUBSET Keys
  BY <1>9, <1>10, OverridingItems
<1> HIDE DEF B
<1>13. MaxTimeId(From) \in 0 .. Stamps - 1
  BY <1>2, <1>4, <1>8, MaxTimeIdInSet
<1>14. CutFrom(New, From \cup Into, MaxTimeId(From))
  <2> DEFINE last == Len(levels) = l
  <2>1. New = Split(Kept(merged, last), MaxTimeId(From))
    BY DEF New
  <2> HIDE DEF merged, last
  <2>2. PICK F \in SUBSET Keys : F \subseteq B /\ Kept(merged, last) \in [F -> Items]
    BY <1>12, KeptItems
  <2> QED BY <1>11, <2>1, <2>2 DEF CutFrom
<1> DEFINE upper == G[l] \ From
           lower == (Lower \ Into) \cup New
           between == [G EXCEPT ![l] = upper]
<1>15. levels' = [G EXCEPT ![l] = upper, ![l + 1] = (@ \ Into) \cup New]
  BY DEF Compact, G, From, Lower, Into, New
<1>16. /\ between \in Seq(Range(between)) /\ DOMAIN between = DOMAIN G
       /\ \A i \in DOMAIN between : between[i] = IF i = l THEN upper ELSE G[i]
  <2> HIDE DEF upper
  <2> QED BY <1>3, <1>5, ReplaceFacts
<1>17. levels' = [between EXCEPT ![l + 1] = lower]
  <2>1. between[l + 1] = Lower
    <3>1. l + 1 # l
      BY <1>3
    <3> HIDE DEF between, upper, l
    <3> QED BY <1>5, <1>6, <1>16, <3>1
  <2> HIDE DEF upper, l
  <2> QED BY <1>6, <1>15, <2>1
<1> HIDE DEF lower, between
<1>18. /\ levels' \in Seq(Range(levels')) /\ DOMAIN levels' = DOMAIN G
       /\ \A i \in DOMAIN levels' :
            levels'[i] = IF i = l + 1 THEN lower ELSE between[i]
  BY <1>5, <1>16, <1>17, ReplaceFacts
<1>19. /\ l \in DOMAIN levels' /\ levels'[l] = levels[l] \ From
       /\ l + 1 \in DOMAIN levels' /\ levels'[l + 1] = lower
  BY <1>3, <1>5, <1>16, <1>18
<1>20. \A i \in DOMAIN levels' : \/ i \in {l, l + 1}
                                 \/ i \in DOMAIN levels /\ levels'[i] = levels[i]
  BY <1>5, <1>16, <1>18
<1>21. \/ l + 1 \in DOMAIN levels /\ Lower = levels[l + 1]
       \/ l + 1 \notin DOMAIN levels /\ Lower = {}
  <2> DEFINE next == l + 1
  <2>1. next \in DOMAIN G /\ Lower = G[next]
    BY <1>5, <1>6
  <2>2. \A i \in DOMAIN G : \/ i \in DOMAIN levels /\ G[i] = levels[i]
                            \/ i = next /\ next \notin DOMAIN levels /\ G[i] = {}
    BY <1>5
  <2> HIDE DEF next
  <2>3. \/ next \in DOMAIN levels /\ Lower = levels[next]
        \/ next \notin DOMAIN levels /\ Lower = {}
    BY <2>1, <2>2
  <2> QED BY <2>3 DEF next
<1> QED BY <1>3, <1>4, <1>5, <1>7, <1>13, <1>14, <1>18, <1>19, <1>20, <1>21 DEF lower, Made

LEMMA CascadeTypes ==
  ASSUME NEW l \in Nat, l \in DOMAIN levels', Cascade(l)
  PROVE  pc' \in {"compact", "clean"} /\ depth' \in Nat /\ CompactionDue'
<1>1. CASE Cardinality(levels'[l]) > LevelLimit(l)
  BY <1>1 DEF Cascade, CompactionDue, LevelLimit
<1>2. CASE ~(Cardinality(levels'[l]) > LevelLimit(l))
  BY <1>2 DEF Cascade, CompactionDue
<1> QED BY <1>1, <1>2

LEMMA CompactLevel0Types ==
  ASSUME Inv, CompactLevel0
  PROVE  TypeOK' /\ CompactionDue'
<1>1. MemOK /\ TablesOK /\ LogOK /\ ControlOK
  BY TypeParts DEF Inv
<1>2. \A t \in New0 : Made(t)
  <2>1. Stamps \in Nat
    BY <1>1 DEF TablesOK, Stamps
  <2> QED BY <2>1, CompactLevel0Shape, CutTables
<1>3. \A i \in DOMAIN levels' : \A t \in levels'[i] : Made(t)
  BY <1>1, <1>2, CompactLevel0Shape DEF TablesOK
<1>4. level0' = <<>> /\ UNCHANGED <<memtable, timeId, log, after, gc, call>> /\ Cascade(1)
  BY DEF CompactLevel0
<1>5. TablesOK'
  <2>1. <<>> \in Seq(Range(<<>>)) /\ DOMAIN <<>> = {}
    BY EmptySeq
  <2>2. levels' \in Seq(Range(levels'))
    BY CompactLevel0Shape
  <2> QED BY <1>1, <1>3, <1>4, <2>1, <2>2 DEF TablesOK, Made, Stamps
<1>6. pc' \in {"compact", "clean"} /\ depth' \in Nat /\ CompactionDue'
  BY <1>4, CompactLevel0Shape, CascadeTypes
<1>7. MemOK' /\ LogOK' /\ ControlOK'
  BY <1>1, <1>4, <1>6, UnchangedParts DEF ControlOK
<1> QED BY <1>5, <1>6, <1>7 DEF TypeOK, MemOK, TablesOK, LogOK, ControlOK

LEMMA CompactTypes ==
  ASSUME Inv, Compact
  PROVE  TypeOK' /\ CompactionDue'
<1>1. MemOK /\ TablesOK /\ LogOK /\ ControlOK
  BY TypeParts DEF Inv
<1>2. \A t \in New : Made(t)
  <2>1. Stamps \in Nat
    BY <1>1 DEF TablesOK, Stamps
  <2> QED BY <2>1, CompactShape, CutTables
<1>3. \A i \in DOMAIN levels' : \A t \in levels'[i] : Made(t)
  BY <1>1, <1>2, CompactShape DEF TablesOK
<1>4. UNCHANGED <<memtable, level0, timeId, log, after, gc, call>> /\ Cascade(depth + 1)
  BY DEF Compact
<1>5. TablesOK'
  <2>1. levels' \in Seq(Range(levels'))
    BY CompactShape
  <2> QED BY <1>1, <1>3, <1>4, <2>1 DEF TablesOK, Made, Stamps
<1>6. pc' \in {"compact", "clean"} /\ depth' \in Nat /\ CompactionDue'
  <2>1. depth + 1 \in Nat /\ depth + 1 \in DOMAIN levels'
    BY CompactShape
  <2> QED BY <1>4, <2>1, CascadeTypes
<1>7. MemOK' /\ LogOK' /\ ControlOK'
  BY <1>1, <1>4, <1>6, UnchangedParts DEF ControlOK
<1> QED BY <1>5, <1>6, <1>7 DEF TypeOK, MemOK, TablesOK, LogOK, ControlOK

------------------------------------------------------------------------------
(* Calls and garbage collection *)

(* A step that leaves the tables alone and does not start a compaction.     *)
LEMMA TablesUnchanged ==
  ASSUME Inv, UNCHANGED <<tables, timeId>>,
         MemOK', LogOK', ControlOK', pc' \notin {"compactLevel0", "compact"}
  PROVE  TypeOK' /\ CompactionDue'
BY TypeParts, UnchangedParts
   DEF Inv, TypeOK, MemOK, TablesOK, LogOK, ControlOK, CompactionDue

LEMMA InvokeTypes ==
  ASSUME Inv, Invoke
  PROVE  TypeOK' /\ CompactionDue'
<1>1. MemOK /\ TablesOK /\ LogOK /\ ControlOK
  BY TypeParts DEF Inv
<1>2. ASSUME NEW k \in Keys, NEW v \in PutValues, Put(k, v)
      PROVE  TypeOK' /\ CompactionDue'
  <2>1. MemOK' /\ pc' \in {"flush", "return"} /\ after' \in {"return", "gc", "punch"}
    BY <1>1, <1>2, MemPutTypes DEF Put
  <2>2. LogOK' /\ ControlOK'
    BY <1>1, <1>2, <2>1, UnchangedParts, CallTypes DEF Put, ControlOK
  <2> QED BY <1>2, <2>1, <2>2, TablesUnchanged DEF Put
<1>3. ASSUME NEW k \in DelKeys, Del(k)
      PROVE  TypeOK' /\ CompactionDue'
  <2>1. k \in Keys
    BY KVStoreAssumption
  <2>2. MemOK' /\ pc' \in {"flush", "return"} /\ after' \in {"return", "gc", "punch"}
    <3>1. CASE View(k) = Empty
      BY <1>1, <1>3, <3>1, UnchangedParts DEF Del, ControlOK
    <3>2. CASE View(k) # Empty
      BY <1>1, <1>3, <2>1, <3>2, MemPutTypes DEF Del
    <3> QED BY <3>1, <3>2
  <2>3. LogOK' /\ ControlOK'
    BY <1>1, <1>3, <2>1, <2>2, UnchangedParts, CallTypes DEF Del, ControlOK
  <2> QED BY <1>3, <2>2, <2>3, TablesUnchanged DEF Del
<1>4. ASSUME NEW chunk \in GcChunks, GcNothing(chunk)
      PROVE  TypeOK' /\ CompactionDue'
  <2>1. MemOK' /\ LogOK' /\ ControlOK'
    BY <1>1, <1>4, UnchangedParts, CallTypes DEF GcNothing, ControlOK
  <2> QED BY <1>4, <2>1, TablesUnchanged DEF GcNothing
<1>5. ASSUME NEW chunk \in GcChunks, GcStart(chunk)
      PROVE  TypeOK' /\ CompactionDue'
  <2>1. DOMAIN vlog \in SUBSET Nat /\ tail \in Nat /\ chunk \in Nat
    BY <1>1, KVStoreAssumption DEF LogOK
  <2>2. (IF DOMAIN vlog = {} THEN tail ELSE Min(DOMAIN vlog)) \in Nat
    BY <2>1, MinInSet
  <2>3. gc' \in [start: Nat, off: Nat, left: Nat]
    BY <1>5, <2>1, <2>2 DEF GcStart
  <2>4. streamOk' \in BOOLEAN /\ UNCHANGED <<vlog, tail>>
    BY <1>1, <1>5 DEF GcStart, LogOK
  <2>5. MemOK' /\ LogOK' /\ ControlOK'
    BY <1>1, <1>5, <2>3, <2>4, UnchangedParts, CallTypes
       DEF GcStart, ControlOK, LogOK, LogRecord
  <2> QED BY <1>5, <2>5, TablesUnchanged DEF GcStart
<1>6. ASSUME Reset
      PROVE  TypeOK' /\ CompactionDue'
  <2>1. <<>> \in Seq(Range(<<>>)) /\ DOMAIN <<>> = {}
    BY EmptySeq
  <2>2. TablesOK'
    BY <1>1, <1>6, <2>1 DEF Reset, TablesOK
  <2>3. MemOK'
    BY <1>6 DEF Reset, MemOK, EmptyMap
  <2>4. LogOK'
    BY <1>6, <2>1 DEF Reset, LogOK
  <2>5. ControlOK' /\ CompactionDue'
    BY <1>1, <1>6, CallTypes DEF Reset, ControlOK, CompactionDue
  <2> QED BY <2>2, <2>3, <2>4, <2>5 DEF TypeOK, MemOK, TablesOK, LogOK, ControlOK
<1> QED BY <1>2, <1>3, <1>4, <1>5, <1>6 DEF Invoke

LEMMA AdvanceTypes ==
  ASSUME ControlOK, NEW n \in Nat, Advance(n)
  PROVE  gc' \in [start: Nat, off: Nat, left: Nat]
<1>1. gc \in [start: Nat, off: Nat, left: Nat]
  BY DEF ControlOK
<1> DEFINE rest == IF n > gc.left THEN 0 ELSE gc.left - n
<1>2. gc.off + n \in Nat /\ rest \in Nat
  BY <1>1
<1>3. gc' = [gc EXCEPT !.off = gc.off + n, !.left = rest]
  BY DEF Advance
<1> HIDE DEF rest
<1> QED BY <1>1, <1>2, <1>3

LEMMA GcTypes ==
  ASSUME Inv, GcMove \/ GcSkip \/ GcReadFails \/ GcFlush \/ GcPunch
  PROVE  TypeOK' /\ CompactionDue'
<1>1. MemOK /\ TablesOK /\ LogOK /\ ControlOK
  BY TypeParts DEF Inv
<1>2. ASSUME GcMove
      PROVE  TypeOK' /\ CompactionDue'
  <2>1. vlog[gc.off].key \in Keys /\ vlog[gc.off].val \in PutValues \cup {Tombstone, Empty}
    BY <1>1, <1>2 DEF GcMove, LogOK, LogRecord
  <2>2. MemPut(vlog[gc.off].key, vlog[gc.off].val, "gc")
    BY <1>2 DEF GcMove
  <2>3. MemOK' /\ pc' \in {"flush", "gc"} /\ after' \in {"return", "gc", "punch"}
    BY <1>1, <2>1, <2>2, MemPutTypes
  <2>4. LogOK' /\ gc' \in [start: Nat, off: Nat, left: Nat]
    BY <1>1, <1>2, AdvanceTypes, UnchangedParts DEF GcMove
  <2>5. ControlOK'
    BY <1>1, <1>2, <2>3, <2>4 DEF GcMove, ControlOK
  <2> QED BY <1>2, <2>3, <2>4, <2>5, TablesUnchanged DEF GcMove
<1>3. ASSUME GcSkip
      PROVE  TypeOK' /\ CompactionDue'
  <2>1. gc' \in [start: Nat, off: Nat, left: Nat]
    BY <1>1, <1>3, AdvanceTypes DEF GcSkip
  <2>2. MemOK' /\ LogOK' /\ ControlOK' /\ pc' = "gc"
    BY <1>1, <1>3, <2>1, UnchangedParts DEF GcSkip, ControlOK
  <2> QED BY <1>3, <2>2, TablesUnchanged DEF GcSkip
<1>4. ASSUME GcReadFails
      PROVE  TypeOK' /\ CompactionDue'
  <2>1. PICK k \in Keys, n \in 1 .. LogBound :
          /\ Advance(n)
          /\ IF InUse(k, gc.off)
             THEN MemPut(k, Empty, "gc")
             ELSE UNCHANGED <<memtable, pc, after>>
    BY <1>4 DEF GcReadFails
  <2>2. gc' \in [start: Nat, off: Nat, left: Nat]
    BY <1>1, <2>1, AdvanceTypes
  <2>3. MemOK' /\ pc' \in {"flush", "gc"} /\ after' \in {"return", "gc", "punch"}
    <3>1. CASE InUse(k, gc.off)
      BY <1>1, <2>1, <3>1, MemPutTypes
    <3>2. CASE ~InUse(k, gc.off)
      BY <1>1, <1>4, <2>1, <3>2, UnchangedParts DEF GcReadFails, ControlOK
    <3> QED BY <3>1, <3>2
  <2>4. LogOK' /\ ControlOK'
    BY <1>1, <1>4, <2>2, <2>3 DEF GcReadFails, LogOK, LogRecord, ControlOK
  <2> QED BY <1>4, <2>3, <2>4, TablesUnchanged DEF GcReadFails
<1>5. ASSUME GcFlush
      PROVE  TypeOK' /\ CompactionDue'
  <2>1. MemOK' /\ LogOK' /\ ControlOK' /\ pc' = "flush"
    BY <1>1, <1>5, UnchangedParts DEF GcFlush, ControlOK
  <2> QED BY <1>5, <2>1, TablesUnchanged DEF GcFlush
<1>6. ASSUME GcPunch
      PROVE  TypeOK' /\ CompactionDue'
  <2>1. vlog' = Restrict(vlog, DOMAIN vlog \ (gc.start .. gc.off - 1))
    BY <1>6 DEF GcPunch
  <2>2. LogOK'
    <3>1. UNCHANGED <<tail, streamOk>>
      BY <1>6 DEF GcPunch
    <3> QED BY <1>1, <2>1, <3>1 DEF LogOK, Restrict, LogRecord
  <2>3. MemOK' /\ ControlOK' /\ pc' = "return"
    BY <1>1, <1>6, UnchangedParts DEF GcPunch, ControlOK, NoGc
  <2> QED BY <1>6, <2>2, <2>3, TablesUnchanged DEF GcPunch
<1> QED BY <1>2, <1>3, <1>4, <1>5, <1>6

LEMMA CleanTypes ==
  ASSUME Inv, FlushNothing \/ Clean \/ Return
  PROVE  TypeOK' /\ CompactionDue'
<1>1. MemOK /\ TablesOK /\ LogOK /\ ControlOK
  BY TypeParts DEF Inv
<1>2. CASE FlushNothing
  <2>1. MemOK' /\ LogOK' /\ ControlOK' /\ pc' = "clean"
    BY <1>1, <1>2, UnchangedParts DEF FlushNothing, ControlOK
  <2> QED BY <1>2, <2>1, TablesUnchanged DEF FlushNothing
<1>3. CASE Clean
  <2>1. MemOK'
    BY <1>3 DEF Clean, MemOK, EmptyMap
  <2>2. LogOK' /\ ControlOK' /\ pc' \in {"return", "gc", "punch"}
    BY <1>1, <1>3, UnchangedParts DEF Clean, ControlOK
  <2> QED BY <1>3, <2>1, <2>2, TablesUnchanged DEF Clean
<1>4. CASE Return
  <2>1. MemOK' /\ LogOK' /\ ControlOK' /\ pc' = "idle"
    BY <1>1, <1>4, UnchangedParts DEF Return, ControlOK
  <2> QED BY <1>4, <2>1, TablesUnchanged DEF Return
<1> QED BY <1>2, <1>3, <1>4

------------------------------------------------------------------------------
(* Theorems *)

LEMMA InitTypes == Init => Inv
<1> SUFFICES ASSUME Init PROVE Inv
  OBVIOUS
<1>1. <<>> \in Seq(Range(<<>>)) /\ DOMAIN <<>> = {}
  BY EmptySeq
<1>2. TablesOK
  BY <1>1 DEF Init, TablesOK
<1>3. MemOK /\ LogOK
  BY <1>1 DEF Init, MemOK, EmptyMap, LogOK
<1>4. ControlOK /\ CompactionDue
  BY DEF Init, ControlOK, CompactionDue, NoGc
<1> QED BY <1>2, <1>3, <1>4, TypeParts DEF Inv

LEMMA NextTypes == Inv /\ [Next]_vars => Inv'
<1> SUFFICES ASSUME Inv, [Next]_vars PROVE Inv'
  OBVIOUS
<1>1. CASE Invoke
  BY <1>1, InvokeTypes DEF Inv
<1>2. CASE FlushNothing \/ Clean \/ Return
  BY <1>2, CleanTypes DEF Inv
<1>3. CASE Flush
  BY <1>3, FlushTypes DEF Inv
<1>4. CASE CompactLevel0
  BY <1>4, CompactLevel0Types DEF Inv
<1>5. CASE Compact
  BY <1>5, CompactTypes DEF Inv
<1>6. CASE GcMove \/ GcSkip \/ GcReadFails \/ GcFlush \/ GcPunch
  BY <1>6, GcTypes DEF Inv
<1>7. CASE UNCHANGED vars
  BY <1>7 DEF vars, tables, log, Inv, TypeOK, Made, Stamps, CompactionDue, LevelLimit
<1> QED BY <1>1, <1>2, <1>3, <1>4, <1>5, <1>6, <1>7 DEF Next, Continue

(* Every variable keeps its type, and no table is empty or has a time stamp *)
(* that was not given out: put, del, reset, gc, the flush and both          *)
(* compactions, however many keys, values, levels and tables there are.     *)
THEOREM TypeCorrect == Spec => []TypeOK
<1>1. Init => Inv
  BY InitTypes
<1>2. Inv /\ [Next]_vars => Inv'
  BY NextTypes
<1>3. Inv => TypeOK
  BY DEF Inv
<1> QED BY <1>1, <1>2, <1>3, PTL DEF Spec

------------------------------------------------------------------------------
(* The levels of KVStore *)

FiniteLevels == \A l \in DOMAIN levels : IsFiniteSet(levels[l])

(* Only a flush, a compaction and reset change tables; any other step       *)
(* leaves a compaction that is due alone by not being enabled.              *)
Quiet == /\ UNCHANGED <<level0, levels, timeId>>
         /\ pc \notin {"compactLevel0", "compact"} \/ UNCHANGED <<pc, depth>>

LEMMA StepCases ==
  ASSUME [Next]_vars
  PROVE  Flush \/ CompactLevel0 \/ Compact \/ Reset \/ Quiet
<1>1. CASE UNCHANGED vars
  BY <1>1 DEF vars, tables, control, Quiet
<1>2. CASE \E k \in Keys, v \in PutValues : Put(k, v)
  BY <1>2 DEF Put, Ready, Quiet, tables
<1>3. CASE \E k \in DelKeys : Del(k)
  BY <1>3 DEF Del, Ready, Quiet, tables
<1>4. CASE \E chunk \in GcChunks : GcNothing(chunk) \/ GcStart(chunk)
  BY <1>4 DEF GcNothing, GcStart, Ready, Quiet, tables
<1>5. CASE GcMove \/ GcSkip \/ GcReadFails \/ GcFlush \/ GcPunch
  BY <1>5 DEF GcMove, GcSkip, GcReadFails, GcFlush, GcPunch, Quiet, tables
<1>6. CASE FlushNothing \/ Clean \/ Return
  BY <1>6 DEF FlushNothing, Clean, Return, Quiet, tables
<1> QED BY <1>1, <1>2, <1>3, <1>4, <1>5, <1>6 DEF Next, Invoke, Continue

LEMMA NoTables == <<>> \in Seq({}) /\ Len(<<>>) = 0 /\ DOMAIN <<>> = {}
BY EmptySeq

(* The same compaction, its outcome in terms of cut tables. *)
LEMMA NewFacts ==
  ASSUME Inv
  PROVE  /\ CompactLevel0 =>
              /\ IsFiniteSet(New0)
              /\ \A t \in New0 : /\ Made(t) /\ t.timeId = MaxTimeId(From0 \cup Into0)
                                 /\ KeysOf(t) \subseteq UNION {KeysOf(u) : u \in From0 \cup Into0}
              /\ \A t, u \in New0 : t # u => Apart(t, u)
         /\ Compact =>
              /\ IsFiniteSet(New)
              /\ \A t \in New : /\ Made(t) /\ t.timeId = MaxTimeId(From)
                                /\ KeysOf(t) \subseteq UNION {KeysOf(u) : u \in From \cup Into}
              /\ \A t, u \in New : t # u => Apart(t, u)
<1>1. Stamps \in Nat
  BY TypeParts DEF Inv, TablesOK, Stamps
<1>2. ASSUME CompactLevel0
      PROVE  /\ MaxTimeId(From0 \cup Into0) \in 0 .. Stamps - 1
             /\ CutFrom(New0, From0 \cup Into0, MaxTimeId(From0 \cup Into0))
  BY <1>2, CompactLevel0Shape
<1>3. ASSUME Compact
      PROVE  /\ MaxTimeId(From) \in 0 .. Stamps - 1
             /\ CutFrom(New, From \cup Into, MaxTimeId(From))
  BY <1>3, CompactShape
<1>4. ASSUME CompactLevel0
      PROVE  /\ IsFiniteSet(New0)
             /\ \A t \in New0 : /\ Made(t) /\ t.timeId = MaxTimeId(From0 \cup Into0)
                                /\ KeysOf(t) \subseteq UNION {KeysOf(u) : u \in From0 \cup Into0}
             /\ \A t, u \in New0 : t # u => Apart(t, u)
  BY <1>1, <1>2, <1>4, CutTables
<1>5. ASSUME Compact
      PROVE  /\ IsFiniteSet(New)
             /\ \A t \in New : /\ Made(t) /\ t.timeId = MaxTimeId(From)
                               /\ KeysOf(t) \subseteq UNION {KeysOf(u) : u \in From \cup Into}
             /\ \A t, u \in New : t # u => Apart(t, u)
  BY <1>1, <1>3, <1>5, CutTables
<1> QED BY <1>4, <1>5

LEMMA FiniteStep ==
  ASSUME Inv, FiniteLevels, [Next]_vars
  PROVE  FiniteLevels'
<1>1. CASE CompactLevel0
  <2>1. IsFiniteSet(Lower0) /\ IsFiniteSet(New0)
    BY <1>1, CompactLevel0Shape, NewFacts, FS_EmptySet DEF FiniteLevels
  <2>2. IsFiniteSet((Lower0 \ Into0) \cup New0)
    BY <2>1, FS_Difference, FS_Union
  <2> QED BY <1>1, <2>2, CompactLevel0Shape DEF FiniteLevels
<1>2. CASE Compact
  <2>1. IsFiniteSet(Lower) /\ IsFiniteSet(New) /\ IsFiniteSet(levels[depth])
    BY <1>2, CompactShape, NewFacts, FS_EmptySet DEF FiniteLevels
  <2>2. IsFiniteSet((Lower \ Into) \cup New) /\ IsFiniteSet(levels[depth] \ From)
    BY <2>1, FS_Difference, FS_Union
  <2> QED BY <1>2, <2>2, CompactShape DEF FiniteLevels
<1>3. CASE Flush \/ Quiet
  BY <1>3 DEF Flush, Quiet, FiniteLevels
<1>4. CASE Reset
  BY <1>4, NoTables DEF Reset, FiniteLevels
<1> QED BY <1>1, <1>2, <1>3, <1>4, StepCases

LevelsInv == Inv /\ FiniteLevels

LEMMA LevelsInvInductive ==
  /\ Init => LevelsInv
  /\ LevelsInv /\ [Next]_vars => LevelsInv'
<1>1. Init => FiniteLevels
  BY NoTables DEF Init, FiniteLevels
<1> QED BY <1>1, InitTypes, NextTypes, FiniteStep DEF LevelsInv

------------------------------------------------------------------------------
(* Key ranges *)

(* No key is changed by passing through an int.                             *)
NarrowKeys == \A k \in Keys : AsInt(k) = k

LEMMA DisjointIsApart ==
  LevelsDisjoint <=> \A l \in DOMAIN levels : \A t, u \in levels[l] : t # u => Apart(t, u)
BY DEF LevelsDisjoint, Apart

LEMMA DisjointStep ==
  ASSUME NarrowKeys, LevelsInv, LevelsDisjoint, [Next]_vars
  PROVE  LevelsDisjoint'
<1>1. MaxKey \in Nat /\ Keys \in SUBSET (0 .. MaxKey) /\ Stamps \in Nat
  BY KeysBounded, TypeParts DEF LevelsInv, Inv, TablesOK, Stamps
<1>2. \A l \in DOMAIN levels : \A t, u \in levels[l] : t # u => Apart(t, u)
  BY DisjointIsApart
<1>3. SUFFICES \A l \in DOMAIN levels' : \A t, u \in levels'[l] : t # u => Apart(t, u)
  BY DEF LevelsDisjoint, Apart, Smallest, Largest, KeysOf
<1>4. CASE CompactLevel0
  <2>1. \A t \in Lower0 \cup From0 \cup New0 : IsTable(t, Keys, Stamps)
    BY <1>4, CompactLevel0Shape, NewFacts DEF LevelsInv, Made
  <2>2. \A t, u \in Lower0 : t # u => Apart(t, u)
    BY <1>2, <1>4, CompactLevel0Shape DEF LevelsInv
  <2>3. /\ From0 # {} /\ \A t, u \in New0 : t # u => Apart(t, u)
        /\ \A t \in New0 : KeysOf(t) \subseteq UNION {KeysOf(u) : u \in From0 \cup Into0}
    BY <1>4, CompactLevel0Shape, NewFacts DEF LevelsInv
  <2>4. Replaces(Lower0, From0, Into0, New0, Keys, Stamps)
    <3>1. Into0 = Overlapping(Lower0, From0) /\ \A k \in Keys : AsInt(k) = k
      BY DEF Into0, Lower0, NarrowKeys
    <3>2. \A t \in Lower0 \cup From0 \cup New0 : IsTable(t, Keys, Stamps)
      BY <2>1
    <3> QED BY <2>2, <2>3, <3>1, <3>2 DEF Replaces, AllApart
  <2>6. AllApart((Lower0 \ Into0) \cup New0)
    BY <1>1, <2>4, ReplacedApart
  <2> QED BY <1>2, <1>4, <2>6, CompactLevel0Shape DEF LevelsInv, AllApart
<1>5. CASE Compact
  <2>1. \A t \in Lower \cup From \cup New : IsTable(t, Keys, Stamps)
    BY <1>5, CompactShape, NewFacts DEF LevelsInv, Made
  <2>2. \A t, u \in Lower : t # u => Apart(t, u)
    BY <1>2, <1>5, CompactShape DEF LevelsInv
  <2>3. /\ From # {} /\ \A t, u \in New : t # u => Apart(t, u)
        /\ \A t \in New : KeysOf(t) \subseteq UNION {KeysOf(u) : u \in From \cup Into}
    BY <1>5, CompactShape, NewFacts DEF LevelsInv
  <2>4. Replaces(Lower, From, Into, New, Keys, Stamps)
    <3>1. Into = Overlapping(Lower, From) /\ \A k \in Keys : AsInt(k) = k
      BY DEF Into, Lower, NarrowKeys
    <3>2. \A t \in Lower \cup From \cup New : IsTable(t, Keys, Stamps)
      BY <2>1
    <3> QED BY <2>2, <2>3, <3>1, <3>2 DEF Replaces, AllApart
  <2>6. AllApart((Lower \ Into) \cup New)
    BY <1>1, <2>4, ReplacedApart
  <2>5. \A t, u \in levels[depth] \ From : t # u => Apart(t, u)
    BY <1>2, <1>5, CompactShape DEF LevelsInv
  <2> QED BY <1>2, <1>5, <2>5, <2>6, CompactShape DEF LevelsInv, AllApart
<1>6. CASE Flush \/ Quiet
  BY <1>2, <1>6 DEF Flush, Quiet
<1>7. CASE Reset
  BY <1>7, NoTables DEF Reset
<1> QED BY <1>4, <1>5, <1>6, <1>7, StepCases

(* As long as keys fit an int, no two tables of a level below level 0       *)
(* overlap, whatever compactLevel0 and compact merge, cut and push down.    *)
THEOREM NarrowKeysKeepLevelsDisjoint ==
  ASSUME NarrowKeys
  PROVE  Spec => []LevelsDisjoint
<1>1. Init => LevelsDisjoint
  BY NoTables DEF Init, LevelsDisjoint
<1>2. LevelsInv /\ LevelsDisjoint /\ [Next]_vars => LevelsDisjoint'
  BY DisjointStep
<1> QED BY <1>1, <1>2, LevelsInvInductive, PTL DEF Spec

------------------------------------------------------------------------------
(* Ages *)

(* The parts of AgesDescend for tables below level 0.                       *)
NewestOnTop == \A i \in DOMAIN level0 : \A l \in DOMAIN levels : \A t \in levels[l] :
                 t.timeId < level0[i].timeId
FreshBelow == \A l \in DOMAIN levels : \A t \in levels[l] : t.timeId < timeId
LevelsDescend == \A l, m \in DOMAIN levels : l < m =>
                   \A t \in levels[l], u \in levels[m] : u.timeId <= t.timeId

LEMMA AgesDescendStep ==
  ASSUME LevelsInv, AgesDescend, [Next]_vars
  PROVE  AgesDescend'
<1>1. MaxKey \in Nat /\ Keys \in SUBSET (0 .. MaxKey) /\ Stamps \in Nat
  BY KeysBounded, TypeParts DEF LevelsInv, Inv, TablesOK, Stamps
<1>2. /\ \A i \in DOMAIN level0 : level0[i].timeId \in Nat /\ level0[i].timeId < timeId
      /\ \A l \in DOMAIN levels : \A t \in levels[l] : t.timeId \in Nat /\ t.timeId < timeId
      /\ DOMAIN levels \subseteq Nat /\ DOMAIN level0 = 1 .. Len(level0) /\ Len(level0) \in Nat
      /\ timeId \in Nat
  <2>1. TablesOK
    BY TypeParts DEF LevelsInv, Inv
  <2>2. /\ \A i \in DOMAIN level0 : IsTable(level0[i], Keys, Stamps)
        /\ \A l \in DOMAIN levels : \A t \in levels[l] : IsTable(t, Keys, Stamps)
    BY <2>1 DEF TablesOK, Made
  <2>3. /\ \A i \in DOMAIN level0 : level0[i].timeId \in Nat
        /\ \A l \in DOMAIN levels : \A t \in levels[l] : t.timeId \in Nat
    BY <1>1, <2>2, TableFacts
  <2> QED BY <2>1, <2>3, SeqFacts DEF TablesOK, AgesDescend
<1>3. CASE CompactLevel0
  <2> DEFINE stamp == MaxTimeId(From0 \cup Into0)
  <2>1. level0' = <<>> /\ UNCHANGED timeId
    BY <1>3 DEF CompactLevel0
  <2>2. /\ stamp \in Nat
        /\ \A t \in New0 : t.timeId = stamp
        /\ levels'[1] = (Lower0 \ Into0) \cup New0
        /\ (1 \in DOMAIN levels /\ Lower0 = levels[1]) \/ Lower0 = {}
        /\ \A i \in DOMAIN levels' : i = 1 \/ (i \in DOMAIN levels /\ levels'[i] = levels[i])
    <3> HIDE DEF stamp
    <3>1. Inv
      BY DEF LevelsInv
    <3>2. stamp \in Nat
      BY <1>1, <1>3, <3>1, CompactLevel0Shape DEF stamp
    <3>3. \A t \in New0 : t.timeId = stamp
      BY <1>3, <3>1, NewFacts DEF stamp
    <3> QED BY <1>3, <3>1, <3>2, <3>3, CompactLevel0Shape
  <2>3. \A l \in DOMAIN levels : \A u \in levels[l] : u.timeId <= stamp
    <3> SUFFICES ASSUME NEW l \in DOMAIN levels, NEW u \in levels[l]
                 PROVE  u.timeId <= stamp
      OBVIOUS
    <3>1. PICK t \in From0 : \E i \in DOMAIN level0 : t = level0[i]
      BY <1>3, CompactLevel0Shape DEF LevelsInv, From0, Range
    <3>2. t.timeId \in Nat /\ u.timeId \in Nat /\ u.timeId < t.timeId
      BY <1>2, <3>1 DEF AgesDescend
    <3>3. \A w \in From0 \cup Into0 : IsTable(w, Keys, Stamps)
      BY <1>3, CompactLevel0Shape DEF LevelsInv, Into0, Lower0, Overlapping, Made
    <3>4. t.timeId <= stamp
      BY <1>1, <3>3, MaxTimeIdInSet
    <3> QED BY <2>2, <3>2, <3>4
  <2>4. FreshBelow'
    <3>1. \A w \in From0 \cup Into0 : IsTable(w, Keys, Stamps)
      BY <1>3, CompactLevel0Shape DEF LevelsInv, Into0, Lower0, Overlapping, Made
    <3>2. From0 \cup Into0 # {}
      BY <1>3, CompactLevel0Shape DEF LevelsInv
    <3>3. PICK w \in From0 \cup Into0 : stamp = w.timeId
      BY <1>1, <3>1, <3>2, MaxTimeIdInSet
    <3>4. w.timeId < timeId
      <4>1. CASE w \in From0
        BY <1>2, <4>1 DEF From0, Range
      <4>2. CASE w \in Into0
        BY <1>2, <2>2, <4>2 DEF Into0, Lower0, Overlapping
      <4> QED BY <4>1, <4>2
    <3>5. ASSUME NEW l \in DOMAIN levels', NEW t \in levels'[l]
          PROVE  (l \in DOMAIN levels /\ t \in levels[l]) \/ t.timeId = stamp
      BY <2>2, <3>5
    <3> QED BY <1>2, <2>1, <3>3, <3>4, <3>5 DEF FreshBelow
  <2>5. LevelsDescend'
    <3> SUFFICES ASSUME NEW l \in DOMAIN levels', NEW m \in DOMAIN levels', l < m,
                        NEW t \in levels'[l], NEW u \in levels'[m]
                 PROVE  u.timeId <= t.timeId
      BY DEF LevelsDescend
    <3>1. DOMAIN levels' \subseteq Nat /\ ~(0 \in DOMAIN levels')
      BY <1>3, CompactLevel0Shape, SeqFacts DEF LevelsInv
    <3>2. m # 1 /\ m \in DOMAIN levels /\ u \in levels[m]
      BY <2>2, <3>1
    <3>3. CASE l = 1 /\ t \in New0
      BY <2>2, <2>3, <3>2, <3>3
    <3>4. CASE ~(l = 1 /\ t \in New0)
      <4>1. l \in DOMAIN levels /\ t \in levels[l]
        BY <2>2, <3>4
      <4> QED BY <3>2, <4>1 DEF AgesDescend
    <3> QED BY <3>3, <3>4
  <2> QED BY <2>1, <2>4, <2>5, NoTables DEF AgesDescend, FreshBelow, LevelsDescend
<1>4. CASE Compact
  <2> DEFINE stamp == MaxTimeId(From)
  <2>1. UNCHANGED <<level0, timeId>>
    BY <1>4 DEF Compact
  <2>2. /\ depth \in Nat /\ depth \in DOMAIN levels
        /\ From \subseteq levels[depth] /\ From # {} /\ stamp \in Nat
        /\ \A t \in New : t.timeId = stamp
        /\ levels'[depth] = levels[depth] \ From
        /\ levels'[depth + 1] = (Lower \ Into) \cup New
        /\ (depth + 1 \in DOMAIN levels /\ Lower = levels[depth + 1]) \/ Lower = {}
        /\ \A i \in DOMAIN levels' :
             i \in {depth, depth + 1} \/ (i \in DOMAIN levels /\ levels'[i] = levels[i])
    BY <1>1, <1>4, CompactShape, NewFacts DEF LevelsInv
  <2>3. \A t \in levels[depth] : IsTable(t, Keys, Stamps)
    BY <1>4, CompactShape DEF LevelsInv, Made
  <2>4. PICK f \in From : stamp = f.timeId
    BY <1>1, <2>2, <2>3, MaxTimeIdInSet
  <2>5. \A t \in levels[depth] \ From : stamp <= t.timeId
    <3>1. IsFiniteSet(levels[depth]) /\ LevelLimit(depth) \in Nat
      BY <2>2, LimitIsNat DEF LevelsInv, FiniteLevels
    <3> DEFINE S == levels[depth]
               limit == LevelLimit(depth)
    <3>2. From = Oldest(S, limit)
      BY DEF From
    <3>3. IsFiniteSet(S) /\ limit \in Nat /\ \A t \in S : IsTable(t, Keys, Stamps)
      BY <2>3, <3>1
    <3> HIDE DEF S, limit
    <3>4. \A t \in S \ From : f.timeId <= t.timeId
      BY <1>1, <3>2, <3>3, OldestAreOlder
    <3> QED BY <2>4, <3>4 DEF S
  (* Every table after the step is no older than one before it that was no  *)
  (* deeper, and no younger than one that was no higher.                    *)
  <2>6. ASSUME NEW i \in DOMAIN levels', NEW t \in levels'[i]
        PROVE  \/ i \in DOMAIN levels /\ t \in levels[i]
               \/ i = depth + 1 /\ t.timeId = stamp
    <3>1. CASE i = depth + 1
      BY <2>2, <2>6, <3>1
    <3>2. CASE i = depth
      BY <2>2, <2>6, <3>2
    <3>3. CASE i \notin {depth, depth + 1}
      BY <2>2, <2>6, <3>3
    <3> QED BY <3>1, <3>2, <3>3
  <2>7. NewestOnTop'
    <3> SUFFICES ASSUME NEW i \in DOMAIN level0, NEW l \in DOMAIN levels', NEW t \in levels'[l]
                 PROVE  t.timeId < level0[i].timeId
      BY <2>1 DEF NewestOnTop
    <3>1. CASE l \in DOMAIN levels /\ t \in levels[l]
      BY <3>1 DEF AgesDescend
    <3>2. CASE t.timeId = stamp
      BY <2>2, <2>4, <3>2 DEF AgesDescend
    <3> QED BY <2>6, <3>1, <3>2
  <2>8. LevelsDescend'
    <3> SUFFICES ASSUME NEW l \in DOMAIN levels', NEW m \in DOMAIN levels', l < m,
                        NEW t \in levels'[l], NEW u \in levels'[m]
                 PROVE  u.timeId <= t.timeId
      BY DEF LevelsDescend
    <3>0. DOMAIN levels' \subseteq Nat
      BY <1>4, CompactShape, SeqFacts DEF LevelsInv
    <3>1. CASE (l \in DOMAIN levels /\ t \in levels[l]) /\ (m \in DOMAIN levels /\ u \in levels[m])
      BY <3>1 DEF AgesDescend
    <3>2. CASE (l \in DOMAIN levels /\ t \in levels[l]) /\ (m = depth + 1 /\ u.timeId = stamp)
      <4>1. l < depth \/ l = depth
        BY <2>2, <3>0, <3>2
      <4>2. CASE l < depth
        BY <2>2, <2>4, <3>2, <4>2 DEF AgesDescend
      <4>3. CASE l = depth
        BY <2>2, <2>5, <3>2, <4>3
      <4> QED BY <4>1, <4>2, <4>3
    <3>3. CASE (l = depth + 1 /\ t.timeId = stamp) /\ (m \in DOMAIN levels /\ u \in levels[m])
      <4>1. depth < m
        BY <2>2, <3>0, <3>3
      <4> QED BY <2>2, <2>4, <3>3, <4>1 DEF AgesDescend
    <3>4. CASE l = depth + 1 /\ m = depth + 1
      BY <2>2, <3>4
    <3> QED BY <2>6, <3>1, <3>2, <3>3, <3>4
  <2>9. FreshBelow'
    BY <1>2, <2>1, <2>2, <2>4, <2>6 DEF FreshBelow
  <2> QED BY <2>1, <2>7, <2>8, <2>9 DEF AgesDescend, NewestOnTop, FreshBelow, LevelsDescend
<1>5. CASE Flush
  <2>1. level0' = Append(level0, NewTable) /\ timeId' = timeId + 1 /\ levels' = levels
    BY <1>5 DEF Flush
  <2>2. NewTable.timeId = timeId
    BY DEF NewTable, Table
  <2>3. /\ DOMAIN level0' = 1 .. Len(level0) + 1
        /\ \A i \in 1 .. Len(level0) + 1 :
             level0'[i] = IF i = Len(level0) + 1 THEN NewTable ELSE level0[i]
    BY <2>1, AppendFacts, TypeParts DEF LevelsInv, Inv, TablesOK
  <2>4. \A i \in DOMAIN level0' : level0'[i].timeId < timeId'
    BY <1>1, <1>2, <2>1, <2>2, <2>3
  <2>5. \A i, j \in DOMAIN level0' : i < j => level0'[i].timeId < level0'[j].timeId
    BY <1>2, <2>2, <2>3 DEF AgesDescend
  <2>6. NewestOnTop'
    BY <1>2, <2>1, <2>2, <2>3 DEF AgesDescend, NewestOnTop
  <2>7. FreshBelow'
    BY <1>2, <2>1 DEF FreshBelow
  <2> QED BY <2>1, <2>4, <2>5, <2>6, <2>7 DEF AgesDescend, NewestOnTop, FreshBelow
<1>6. CASE Quiet
  BY <1>6 DEF Quiet, AgesDescend
<1>7. CASE Reset
  BY <1>7, NoTables DEF Reset, AgesDescend
<1> QED BY <1>3, <1>4, <1>5, <1>6, <1>7, StepCases

(* The levels stay ordered by age, however compactions merge time stamps:   *)
(* what get finds first is never older than what it would find further      *)
(* down.                                                                    *)
THEOREM AgesStayDescending == Spec => []AgesDescend
<1>1. Init => AgesDescend
  BY NoTables DEF Init, AgesDescend
<1>2. LevelsInv /\ AgesDescend /\ [Next]_vars => AgesDescend'
  BY AgesDescendStep
<1> QED BY <1>1, <1>2, LevelsInvInductive, PTL DEF Spec

------------------------------------------------------------------------------
(* Sizes *)

(* Only the level that is being compacted may exceed its limit.             *)
SizesInv ==
  /\ Len(level0) > 2 => pc = "compactLevel0"
  /\ \A l \in DOMAIN levels :
       (pc = "compact" /\ depth = l) \/ Cardinality(levels[l]) <= LevelLimit(l)

LEMMA CascadeSizes ==
  ASSUME LevelsInv', NEW l \in Nat, l \in DOMAIN levels', Cascade(l), Len(level0') <= 2,
         \A i \in DOMAIN levels' : i = l \/ Cardinality(levels'[i]) <= LevelLimit(i)
  PROVE  SizesInv'
<1>1. Len(level0') \in Nat /\ Cardinality(levels'[l]) \in Nat /\ LevelLimit(l) \in Nat
  <2>1. IsFiniteSet(levels'[l])
    BY DEF LevelsInv, FiniteLevels
  <2>2. Len(level0') \in Nat
    BY SeqFacts DEF LevelsInv, Inv, TypeOK
  <2> QED BY <2>1, <2>2, FS_CardinalityType, LimitIsNat
<1>2. CASE Cardinality(levels'[l]) > LevelLimit(l)
  BY <1>1, <1>2 DEF Cascade, SizesInv, LevelLimit
<1>3. CASE Cardinality(levels'[l]) <= LevelLimit(l)
  BY <1>1, <1>3 DEF SizesInv, LevelLimit
<1> QED BY <1>1, <1>2, <1>3

LEMMA SizesStep ==
  ASSUME LevelsInv, SizesInv, [Next]_vars
  PROVE  SizesInv'
<1>0. LevelsInv'
  BY LevelsInvInductive
<1>1. CASE CompactLevel0
  <2>1. level0' = <<>> /\ Cascade(1) /\ pc = "compactLevel0"
    BY <1>1 DEF CompactLevel0
  <2>2. /\ 1 \in DOMAIN levels'
        /\ \A i \in DOMAIN levels' : i = 1 \/ (i \in DOMAIN levels /\ levels'[i] = levels[i])
    BY <1>1, CompactLevel0Shape DEF LevelsInv
  <2>3. \A i \in DOMAIN levels' : i = 1 \/ Cardinality(levels'[i]) <= LevelLimit(i)
    BY <2>1, <2>2 DEF SizesInv
  <2>4. Len(level0') <= 2
    BY <2>1, NoTables
  <2> QED BY <1>0, <2>1, <2>2, <2>3, <2>4, CascadeSizes
<1>2. CASE Compact
  <2>1. UNCHANGED level0 /\ Cascade(depth + 1) /\ pc = "compact"
    BY <1>2 DEF Compact
  <2>2. /\ depth \in Nat /\ depth \in DOMAIN levels
        /\ levels'[depth] = levels[depth] \ From
        /\ depth + 1 \in DOMAIN levels'
        /\ \A i \in DOMAIN levels' :
             i \in {depth, depth + 1} \/ (i \in DOMAIN levels /\ levels'[i] = levels[i])
        /\ \A t \in levels[depth] : IsTable(t, Keys, Stamps)
    BY <1>2, CompactShape DEF LevelsInv, Made
  <2>3. Cardinality(levels[depth] \ From) <= LevelLimit(depth)
    <3>1. MaxKey \in Nat /\ Keys \in SUBSET (0 .. MaxKey) /\ Stamps \in Nat
      BY KeysBounded, TypeParts DEF LevelsInv, Inv, TablesOK, Stamps
    <3>2. IsFiniteSet(levels[depth]) /\ LevelLimit(depth) \in Nat
      BY <2>2, LimitIsNat DEF LevelsInv, FiniteLevels
    <3> QED BY <2>2, <3>1, <3>2, OldestLeaveLimit DEF From
  <2>4. \A i \in DOMAIN levels' : i = depth + 1 \/ Cardinality(levels'[i]) <= LevelLimit(i)
    <3> SUFFICES ASSUME NEW i \in DOMAIN levels', i # depth + 1
                 PROVE  Cardinality(levels'[i]) <= LevelLimit(i)
      OBVIOUS
    <3>1. CASE i = depth
      BY <2>2, <2>3, <3>1
    <3>2. CASE i # depth
      BY <2>2, <3>2 DEF SizesInv
    <3> QED BY <3>1, <3>2
  <2>5. Len(level0') <= 2
    BY <2>1, SeqFacts DEF SizesInv, LevelsInv, Inv, TypeOK
  <2> QED BY <1>0, <2>1, <2>2, <2>4, <2>5, CascadeSizes
<1>3. CASE Flush
  BY <1>3 DEF Flush, SizesInv, LevelLimit
<1>4. CASE Quiet
  BY <1>4 DEF Quiet, SizesInv, LevelLimit
<1>5. CASE Reset
  BY <1>5, NoTables DEF Reset, SizesInv
<1> QED BY <1>1, <1>2, <1>3, <1>4, <1>5, StepCases

(* No call returns while a level is over its limit: a compaction that       *)
(* overfills the next level is followed by one of that level, down to a     *)
(* level that has room.                                                     *)
THEOREM LimitsKept == Spec => []WithinLimits
<1>1. Init => SizesInv
  BY NoTables DEF Init, SizesInv
<1>2. LevelsInv /\ SizesInv /\ [Next]_vars => SizesInv'
  BY SizesStep
<1>3. LevelsInv /\ SizesInv => WithinLimits
  <2>1. ASSUME LevelsInv PROVE Len(level0) \in Nat
    BY <2>1, SeqFacts DEF LevelsInv, Inv, TypeOK
  <2> QED BY <2>1 DEF SizesInv, WithinLimits
<1> QED BY <1>1, <1>2, <1>3, LevelsInvInductive, PTL DEF Spec

==============================================================================
