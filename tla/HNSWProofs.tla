------------------------------- MODULE HNSWProofs ------------------------------
(***************************************************************************)
(* The HNSW index, for any vectors, parameters and random levels: a search  *)
(* ends at the best it can see, links stay inside the layers their nodes    *)
(* have, and a link is one-sided only where a node is full of nearer ones.  *)
(***************************************************************************)
EXTENDS HNSW, FiniteSetTheorems, WellFoundedInduction, TLAPS

(* The nodes a search of the current layer may meet: the new node of an     *)
(* insertion has no links there yet.                                        *)
OnLayer == {n \in Nodes : n # job.node /\ lc <= maxLevel[n]}

GraphOK ==
  /\ IsFiniteSet(Nodes) /\ Nodes \subseteq Labels
  /\ maxLevel \in [Nodes -> Nat]
  /\ neighbors = [n \in Nodes |-> neighbors[n]]
  /\ \A n \in Nodes : neighbors[n] \in [0 .. maxLevel[n] -> SUBSET Nodes]
  /\ IF Nodes = {} THEN enterPoint = Nobody ELSE enterPoint \in Nodes

LinksFit ==
  \A n \in Nodes : \A l \in 0 .. maxLevel[n] :
    \A m \in neighbors[n][l] : m # n /\ l <= maxLevel[m]

(* Only a node still being inserted may be higher than the entry point.     *)
OnTop ==
  \A n \in Nodes : maxLevel[n] <= maxLevel[enterPoint] \/ (pc # "idle" /\ n = job.node)

CallOK ==
  /\ pc \in {"idle", "search", "visit", "found"}
  /\ pc # "idle" =>
       /\ Nodes # {} /\ job.vec \in Vectors /\ lc \in Nat /\ ef \in Nat \ {0}
       /\ Inserts => job.node \in Nodes /\ job.node # enterPoint

(* The new node is not linked on the layers still to be searched.           *)
NewUnlinked ==
  pc # "idle" /\ Inserts =>
    \A n \in Nodes : \A l \in 0 .. maxLevel[n] : l <= lc =>
      job.node \notin neighbors[n][l] /\ (n = job.node => neighbors[n][l] = {})

SearchOK ==
  pc # "idle" =>
    /\ visited \subseteq OnLayer /\ toVisit \subseteq OnLayer \ visited
    /\ nearestSet # {} /\ nearestSet \subseteq visited /\ candidateSet \subseteq visited

BestKept ==
  pc # "idle" =>
    /\ nearestSet = visited \/ Cardinality(nearestSet) = ef
    /\ Cardinality(nearestSet) <= ef
    /\ \A n \in nearestSet, m \in visited \ nearestSet : Dist(job.vec, n) <= Dist(job.vec, m)

(* A node is kept as a candidate until its neighbours are looked at.        *)
AllSeen ==
  pc # "idle" =>
    /\ pc # "visit" => toVisit = {}
    /\ \A n \in nearestSet : n \in candidateSet \/ neighbors[n][lc] \subseteq visited \cup toVisit
    /\ pc = "found" => nearestSet \cap candidateSet = {}

Graph  == GraphOK /\ LinksFit /\ LinksGivenUpWhenFull
Search == SearchOK /\ BestKept /\ AllSeen
Inv    == Graph /\ OnTop /\ CallOK /\ NewUnlinked /\ Search

------------------------------------------------------------------------------
(* Distances *)

(* A set of numbers has a smallest one. *)
LEMMA SmallestNat ==
  ASSUME NEW S \in SUBSET Nat, S # {}
  PROVE  \E m \in S : \A x \in S : m <= x
<1> DEFINE Below == {0 .. x : x \in S}
<1>1. Below \subseteq FiniteSubsetsOf(Nat)
  <2> SUFFICES ASSUME NEW x \in S
               PROVE  0 .. x \in FiniteSubsetsOf(Nat)
    OBVIOUS
  <2>1. x \in Int /\ 0 .. x \in SUBSET Nat
    OBVIOUS
  <2> QED BY <2>1, FS_Interval DEF FiniteSubsetsOf
<1>2. Below # {}
  OBVIOUS
<1>3. PICK B \in Below : \A C \in Below : <<C, B>> \notin StrictSubsetOrdering(Nat)
  <2> HIDE DEF Below
  <2> QED BY <1>1, <1>2, FS_StrictSubsetOrderingWellFounded, WFMin
<1>4. PICK m \in S : B = 0 .. m
  OBVIOUS
<1>5. \A x \in S : m <= x
  <2> SUFFICES ASSUME NEW x \in S, x < m
               PROVE  FALSE
    OBVIOUS
  <2>1. 0 .. x \in SUBSET Nat /\ B \in SUBSET Nat
    BY <1>4
  <2>2. 0 .. x \subseteq B /\ m \in B /\ m \notin 0 .. x
    BY <1>4
  <2>3. <<0 .. x, B>> \in StrictSubsetOrdering(Nat)
    BY <2>1, <2>2 DEF StrictSubsetOrdering
  <2> QED BY <1>3, <2>3
<1> QED BY <1>5

(* The sum over the components is an integer.  There is such a sum, and it  *)
(* is an integer, up to every component: the first for which this fails     *)
(* would follow one for which it holds.                                     *)
LEMMA l2distanceInt ==
  ASSUME NEW a \in Vectors, NEW b \in Vectors
  PROVE  l2distance(a, b) \in Int
<1> DEFINE Square(i)  == (a[i] - b[i]) * (a[i] - b[i])
           Sums(s, n) == s = [i \in 0 .. n |-> IF i = 0 THEN 0 ELSE s[i - 1] + Square(i)]
           Bad        == {n \in 0 .. dimension : ~ \E s : Sums(s, n)}
<1>1. dimension \in Nat /\ \A i \in 1 .. dimension : Square(i) \in Int
  <2>1. \A i \in 1 .. dimension : a[i] \in Int /\ b[i] \in Int
    BY DEF Vectors
  <2> QED BY <2>1, HNSWAssumption
<1> HIDE DEF Square
<1>2. Bad = {}
  <2> SUFFICES ASSUME Bad # {} PROVE FALSE
    OBVIOUS
  <2>1. PICK n \in Bad : \A m \in Bad : n <= m
    <3>1. Bad \in SUBSET Nat
      BY <1>1
    <3> HIDE DEF Bad
    <3> QED BY <3>1, SmallestNat
  <2>2. n \in 0 .. dimension /\ n \in Nat /\ ~ \E s : Sums(s, n)
    BY <1>1
  <2>3. CASE n = 0
    <3> DEFINE s == [i \in 0 .. 0 |-> 0]
    <3>1. \A i \in 0 .. 0 : i = 0
      OBVIOUS
    <3>2. Sums(s, 0)
      BY <3>1
    <3> QED BY <2>2, <2>3, <3>2
  <2>4. CASE n # 0
    <3>1. n - 1 \in 0 .. dimension /\ n - 1 < n
      BY <1>1, <2>2, <2>4
    <3>2. n - 1 \notin Bad
      BY <2>1, <2>2, <3>1
    <3>3. PICK s : Sums(s, n - 1)
      BY <3>1, <3>2
    <3> DEFINE t == [i \in 0 .. n |-> IF i = n THEN s[n - 1] + Square(n) ELSE s[i]]
    <3>4. s = [i \in 0 .. n - 1 |-> IF i = 0 THEN 0 ELSE s[i - 1] + Square(i)]
      BY <3>3
    <3>5. /\ \A i \in 0 .. n : i = n \/ i \in 0 .. n - 1
          /\ \A i \in 0 .. n : i # 0 => i - 1 \in 0 .. n /\ i - 1 # n
      BY <2>2, <2>4
    <3>6. \A i \in 0 .. n : t[i] = IF i = 0 THEN 0 ELSE t[i - 1] + Square(i)
      BY <2>2, <2>4, <3>4, <3>5
    <3>7. Sums(t, n)
      BY <3>6
    <3> QED BY <2>2, <3>7
  <2> QED BY <2>3, <2>4
<1> DEFINE dis == CHOOSE s : Sums(s, dimension)
<1>3. Sums(dis, dimension)
  <2>1. dimension \notin Bad
    <3> HIDE DEF Bad
    <3> QED BY <1>2
  <2>2. dimension \in 0 .. dimension
    BY <1>1
  <2> QED BY <2>1, <2>2
<1>4. l2distance(a, b) = dis[dimension]
  BY DEF l2distance, Square
<1> HIDE DEF dis
<1>5. dis = [i \in 0 .. dimension |-> IF i = 0 THEN 0 ELSE dis[i - 1] + Square(i)]
  BY <1>3
<1>6. dis[0] = 0 /\ \A i \in 1 .. dimension : dis[i] = dis[i - 1] + Square(i)
  <2>1. 0 \in 0 .. dimension /\ \A i \in 1 .. dimension : i \in 0 .. dimension /\ i # 0
    BY <1>1
  <2> QED BY <2>1, <1>5
<1> DEFINE NoInt == {n \in 0 .. dimension : dis[n] \notin Int}
<1>7. NoInt = {}
  <2> SUFFICES ASSUME NoInt # {} PROVE FALSE
    OBVIOUS
  <2>1. PICK n \in NoInt : \A m \in NoInt : n <= m
    <3>1. NoInt \in SUBSET Nat
      BY <1>1
    <3> HIDE DEF NoInt
    <3> QED BY <3>1, SmallestNat
  <2>2. n \in 1 .. dimension
    BY <1>1, <1>6
  <2>3. n - 1 \in 0 .. dimension /\ n - 1 < n
    BY <1>1, <2>2
  <2>4. dis[n - 1] \in Int
    BY <2>1, <2>2, <2>3
  <2> QED BY <1>1, <1>6, <2>2, <2>4
<1>8. dimension \in 0 .. dimension
  BY <1>1
<1> QED BY <1>4, <1>7, <1>8

LEMMA DistInt ==
  ASSUME NEW q \in Vectors, NEW n \in Labels
  PROVE  Dist(q, n) \in Int
<1>1. Vec[n] \in Vectors
  BY HNSWAssumption
<1> QED BY <1>1, l2distanceInt DEF Dist

(* Some nodes of a finite set are nearest, and some are furthest.           *)
LEMMA NearestExists ==
  ASSUME NEW q \in Vectors, NEW S \in SUBSET Labels, IsFiniteSet(S), S # {}
  PROVE  Nearest(q, S) # {} /\ Furthest(q, S) # {}
<1> DEFINE Closer(n) == {m \in S : Dist(q, m) <= Dist(q, n)}
           Beyonds(n) == {m \in S : Dist(q, m) >= Dist(q, n)}
           Closers  == {Closer(n) : n \in S}
           AllBeyond == {Beyonds(n) : n \in S}
<1>1. \A n \in S : Dist(q, n) \in Int
  BY DistInt
<1>2. Closers \subseteq FiniteSubsetsOf(S) /\ AllBeyond \subseteq FiniteSubsetsOf(S)
  BY FS_Subset DEF FiniteSubsetsOf
<1>3. Closers # {} /\ AllBeyond # {}
  OBVIOUS
<1>4. PICK B \in Closers : \A C \in Closers : <<C, B>> \notin StrictSubsetOrdering(S)
  <2> HIDE DEF Closers
  <2> QED BY <1>2, <1>3, FS_StrictSubsetOrderingWellFounded, WFMin
<1>5. PICK D \in AllBeyond : \A C \in AllBeyond : <<C, D>> \notin StrictSubsetOrdering(S)
  <2> HIDE DEF AllBeyond
  <2> QED BY <1>2, <1>3, FS_StrictSubsetOrderingWellFounded, WFMin
<1>6. PICK n \in S : B = Closer(n)
  OBVIOUS
<1>7. \A m \in S : Dist(q, n) <= Dist(q, m)
  <2> SUFFICES ASSUME NEW m \in S, Dist(q, m) < Dist(q, n)
               PROVE  FALSE
    BY <1>1
  <2>1. Closer(m) \subseteq B /\ n \in B /\ n \notin Closer(m)
    BY <1>1, <1>6
  <2>2. <<Closer(m), B>> \notin StrictSubsetOrdering(S)
    BY <1>4
  <2> QED BY <2>1, <2>2, <1>6 DEF StrictSubsetOrdering
<1>8. PICK f \in S : D = Beyonds(f)
  OBVIOUS
<1>9. \A m \in S : Dist(q, f) >= Dist(q, m)
  <2> SUFFICES ASSUME NEW m \in S, Dist(q, m) > Dist(q, f)
               PROVE  FALSE
    BY <1>1
  <2>1. Beyonds(m) \subseteq D /\ f \in D /\ f \notin Beyonds(m)
    BY <1>1, <1>8
  <2>2. <<Beyonds(m), D>> \notin StrictSubsetOrdering(S)
    BY <1>5
  <2> QED BY <2>1, <2>2, <1>8 DEF StrictSubsetOrdering
<1> QED BY <1>7, <1>9 DEF Nearest, Furthest

(* What selectNeighbors may return is some of the nodes, and k at most.     *)
LEMMA Selected ==
  ASSUME NEW q, NEW S, IsFiniteSet(S), NEW k \in Nat, NEW T \in selectNeighbors(q, S, k)
  PROVE  /\ T \subseteq S /\ IsFiniteSet(T)
         /\ Cardinality(T) \in Nat /\ Cardinality(T) <= k
         /\ T # S => Cardinality(T) = k
<1>1. T \in SUBSET S /\ Cardinality(T) = IF Cardinality(S) < k THEN Cardinality(S) ELSE k
  BY DEF selectNeighbors
<1>2. IsFiniteSet(T) /\ (Cardinality(S) = Cardinality(T) => S = T) /\ Cardinality(S) \in Nat
  BY <1>1, FS_Subset, FS_CardinalityType
<1> QED BY <1>1, <1>2

(* A node that prunes its links keeps the M_max nearest.                    *)
LEMMA PrunedFacts ==
  ASSUME NEW n, NEW S, IsFiniteSet(S), NEW T \in Pruned(n, S)
  PROVE  /\ T \subseteq S /\ Cardinality(T) <= M_max
         /\ Cardinality(S) > M_max \/ T # S => Cardinality(T) = M_max
         /\ \A o \in T, m \in S \ T : Dist(Vec[n], o) <= Dist(Vec[n], m)
<1>1. M_max \in Nat /\ Cardinality(S) \in Nat
  BY HNSWAssumption, FS_CardinalityType
<1>2. CASE Cardinality(S) > M_max
  <2>1. T \in selectNeighbors(Vec[n], S, M_max)
    BY <1>2 DEF Pruned
  <2>2. T \subseteq S /\ Cardinality(T) <= M_max /\ (T # S => Cardinality(T) = M_max)
    BY <2>1, <1>1, Selected
  <2>3. T # S
    BY <2>2, <1>2, <1>1
  <2>4. \A o \in T, m \in S \ T : Dist(Vec[n], o) <= Dist(Vec[n], m)
    BY <2>1 DEF selectNeighbors
  <2> QED BY <2>2, <2>3, <2>4
<1>3. CASE ~(Cardinality(S) > M_max)
  <2>1. T = S
    BY <1>3 DEF Pruned
  <2> QED BY <2>1, <1>3, <1>1
<1> QED BY <1>2, <1>3

------------------------------------------------------------------------------
(* Starting and ending a search *)

LEMMA InitInv == HnswInit => Inv
<1> SUFFICES ASSUME HnswInit PROVE Inv
  OBVIOUS
<1>1. maxLevel = [n \in {} |-> 0] /\ neighbors = [n \in {} |-> <<>>] /\ Nodes = {}
  BY DEF HnswInit, Nodes
<1>2. enterPoint = Nobody /\ pc = "idle"
  BY DEF HnswInit
<1>3. GraphOK
  <2>1. IsFiniteSet(Nodes)
    BY <1>1, FS_EmptySet
  <2> QED BY <2>1, <1>1, <1>2 DEF GraphOK
<1>4. LinksFit /\ LinksGivenUpWhenFull /\ OnTop
  BY <1>1 DEF LinksFit, LinksGivenUpWhenFull, OnTop
<1>5. CallOK /\ NewUnlinked /\ Search
  BY <1>2 DEF CallOK, NewUnlinked, Search, SearchOK, BestKept, AllSeen
<1> QED BY <1>3, <1>4, <1>5 DEF Inv, Graph

(* A search starts at a node that has the layer.                            *)
LEMMA Starts ==
  ASSUME NEW ep, SearchFrom(ep), ep \in OnLayer', ef' \in Nat \ {0}
  PROVE  Search'
<1>1. /\ pc' = "search" /\ visited' = {ep} /\ candidateSet' = {ep}
      /\ nearestSet' = {ep} /\ toVisit' = {}
  BY DEF SearchFrom
<1>2. SearchOK'
  BY <1>1 DEF SearchOK
<1>3. BestKept'
  <2>1. Cardinality({ep}) = 1 /\ 1 <= ef'
    BY FS_Singleton
  <2> QED BY <2>1, <1>1 DEF BestKept
<1>4. AllSeen'
  BY <1>1 DEF AllSeen
<1> QED BY <1>2, <1>3, <1>4 DEF Search

LEMMA EfPositive ==
  ASSUME NEW l, NEW level
  PROVE  EfOn(l, level) \in Nat \ {0}
BY HNSWAssumption DEF EfOn

(* The first node: no search. *)
LEMMA FirstInv ==
  ASSUME Inv, InsertFirst
  PROVE  Inv'
<1> PICK n \in Labels, level \in 0 .. LevelCap : Added(n, level) /\ enterPoint' = n
  BY DEF InsertFirst
<1>1. /\ pc = "idle" /\ enterPoint = Nobody /\ pc' = "idle"
      /\ UNCHANGED <<job, lc, ef, visited, candidateSet, nearestSet, toVisit>>
  BY DEF InsertFirst, search
<1>2. Nodes = {}
  BY <1>1, HNSWAssumption DEF Inv, Graph, GraphOK
<1>3. /\ maxLevel' = [m \in {n} |-> level]
      /\ neighbors' = [m \in {n} |-> [l \in 0 .. level |-> {}]]
  <2>1. {} \cup {n} = {n}
    OBVIOUS
  <2>2. /\ maxLevel' = [m \in {n} |-> IF m = n THEN level ELSE maxLevel[m]]
        /\ neighbors' = [m \in {n} |-> IF m = n THEN [l \in 0 .. level |-> {}] ELSE neighbors[m]]
    BY <1>2, <2>1 DEF Added
  <2> QED BY <2>2
<1>4. Nodes' = {n} /\ level \in Nat
  BY <1>3, HNSWAssumption DEF Nodes
<1>5. GraphOK'
  <2>1. IsFiniteSet({n})
    BY FS_Singleton
  <2>2. neighbors'[n] = [l \in 0 .. level |-> {}] /\ maxLevel'[n] = level
    BY <1>3
  <2>3. neighbors' = [m \in {n} |-> neighbors'[m]] /\ maxLevel' \in [{n} -> Nat]
    BY <1>3, <1>4
  <2>4. \A m \in {n} : neighbors'[m] \in [0 .. maxLevel'[m] -> SUBSET {n}]
    BY <2>2
  <2> QED BY <2>1, <2>3, <2>4, <1>4 DEF GraphOK
<1>6. LinksFit' /\ OnTop'
  BY <1>3, <1>4 DEF LinksFit, OnTop
<1>7. LinksGivenUpWhenFull'
  <2>1. Cardinality({}) = 0 /\ 0 <= M_max
    BY FS_EmptySet, HNSWAssumption
  <2>2. neighbors'[n] = [l \in 0 .. level |-> {}]
    BY <1>3
  <2> QED BY <2>1, <2>2, <1>4 DEF LinksGivenUpWhenFull
<1>8. CallOK' /\ NewUnlinked' /\ Search'
  BY <1>1 DEF CallOK, NewUnlinked, Search, SearchOK, BestKept, AllSeen
<1> QED BY <1>5, <1>6, <1>7, <1>8 DEF Inv, Graph

(* A new node has no links yet. *)
LEMMA InsertInv ==
  ASSUME Inv, Insert
  PROVE  Inv'
<1> PICK n \in Labels \ Nodes, level \in 0 .. LevelCap :
           /\ job' = [vec |-> Vec[n], node |-> n]
           /\ Added(n, level)
           /\ ef' = EfOn(maxLevel[enterPoint], level)
  BY DEF Insert
<1>1. /\ pc = "idle" /\ enterPoint # Nobody /\ lc' = maxLevel[enterPoint]
      /\ SearchFrom(enterPoint) /\ enterPoint' = enterPoint
  BY DEF Insert
<1>2. /\ IsFiniteSet(Nodes) /\ Nodes \subseteq Labels /\ enterPoint \in Nodes
      /\ maxLevel \in [Nodes -> Nat]
      /\ \A m \in Nodes : neighbors[m] \in [0 .. maxLevel[m] -> SUBSET Nodes]
  BY <1>1 DEF Inv, Graph, GraphOK
<1> DEFINE New == Nodes \cup {n}
<1>3. /\ Nodes' = New /\ level \in Nat
      /\ maxLevel' \in [New -> Nat] /\ neighbors' = [m \in New |-> neighbors'[m]]
      /\ maxLevel'[n] = level /\ neighbors'[n] = [l \in 0 .. level |-> {}]
      /\ \A m \in Nodes : maxLevel'[m] = maxLevel[m] /\ neighbors'[m] = neighbors[m]
  <2>1. /\ maxLevel' = [m \in New |-> IF m = n THEN level ELSE maxLevel[m]]
        /\ neighbors' = [m \in New |->
                           IF m = n THEN [l \in 0 .. level |-> {}] ELSE neighbors[m]]
    BY DEF Added
  <2>2. Nodes' = New
    BY <2>1 DEF Nodes
  <2> QED BY <2>1, <2>2, <1>2, HNSWAssumption
<1>4. GraphOK'
  <2>1. IsFiniteSet(New)
    BY <1>2, FS_AddElement
  <2>2. \A m \in New : neighbors'[m] \in [0 .. maxLevel'[m] -> SUBSET New]
    BY <1>2, <1>3
  <2> QED BY <2>1, <2>2, <1>1, <1>2, <1>3 DEF GraphOK
<1>5. LinksFit'
  <2> SUFFICES ASSUME NEW m \in New, NEW l \in 0 .. maxLevel'[m], NEW o \in neighbors'[m][l]
               PROVE  o # m /\ l <= maxLevel'[o]
    BY <1>3 DEF LinksFit
  <2>1. m \in Nodes
    BY <1>3
  <2>2. neighbors'[m] = neighbors[m] /\ maxLevel'[m] = maxLevel[m] /\ o \in Nodes
    BY <2>1, <1>2, <1>3
  <2>3. o # m /\ l <= maxLevel[o]
    BY <2>1, <2>2 DEF Inv, Graph, LinksFit
  <2> QED BY <2>2, <2>3, <1>3
<1>6. LinksGivenUpWhenFull'
  <2>1. Cardinality({}) = 0 /\ 0 <= M_max
    BY FS_EmptySet, HNSWAssumption
  <2> SUFFICES ASSUME NEW m \in New, NEW l \in DOMAIN neighbors'[m]
               PROVE  /\ Cardinality(neighbors'[m][l]) <= M_max
                      /\ \A o \in neighbors'[m][l] : m \notin neighbors'[o][l] =>
                           NoRoomFor(m, o, neighbors'[o][l])
    BY <1>3 DEF LinksGivenUpWhenFull, NoRoomFor, Dist
  <2>2. CASE m = n
    BY <2>1, <2>2, <1>3
  <2>3. CASE m # n
    <3>1. m \in Nodes /\ neighbors'[m] = neighbors[m]
      BY <2>3, <1>3
    <3>2. l \in 0 .. maxLevel[m] /\ neighbors[m][l] \subseteq Nodes
      BY <3>1, <1>2
    <3>3. /\ Cardinality(neighbors[m][l]) <= M_max
          /\ \A o \in neighbors[m][l] : m \notin neighbors[o][l] =>
               NoRoomFor(m, o, neighbors[o][l])
      BY <3>1, <3>2 DEF Inv, Graph, LinksGivenUpWhenFull
    <3> QED BY <3>1, <3>2, <3>3, <1>3
  <2> QED BY <2>2, <2>3
<1>7. pc' = "search" /\ job'.node = n /\ job'.vec = Vec[n] /\ n # Nobody /\ n # enterPoint
  BY <1>1, <1>2, HNSWAssumption DEF SearchFrom
<1>8. OnTop'
  <2>1. \A m \in Nodes : maxLevel[m] <= maxLevel[enterPoint]
    BY <1>1 DEF Inv, OnTop
  <2> QED BY <2>1, <1>1, <1>2, <1>3, <1>7 DEF OnTop
<1>9. CallOK'
  BY <1>1, <1>2, <1>3, <1>7, EfPositive, HNSWAssumption DEF CallOK, Inserts
<1>10. NewUnlinked'
  <2> SUFFICES ASSUME NEW m \in New, NEW l \in 0 .. maxLevel'[m]
               PROVE  n \notin neighbors'[m][l] /\ (m = n => neighbors'[m][l] = {})
    BY <1>3, <1>7 DEF NewUnlinked
  <2>1. CASE m = n
    BY <2>1, <1>3
  <2>2. CASE m # n
    BY <2>2, <1>2, <1>3
  <2> QED BY <2>1, <2>2
<1>11. Search'
  <2>1. enterPoint \in OnLayer'
    BY <1>1, <1>2, <1>3, <1>7 DEF OnLayer
  <2> QED BY <2>1, <1>1, EfPositive, Starts
<1> QED BY <1>4, <1>5, <1>6, <1>8, <1>9, <1>10, <1>11 DEF Inv, Graph

------------------------------------------------------------------------------
(* Steps that leave the graph alone *)

(* What is said of the graph alone stays.                                   *)
LEMMA GraphKept ==
  ASSUME Graph, UNCHANGED graph
  PROVE  Graph'
<1>1. maxLevel' = maxLevel /\ neighbors' = neighbors /\ enterPoint' = enterPoint
  BY DEF graph
<1>2. Nodes' = Nodes
  BY <1>1 DEF Nodes
<1>3. GraphOK'
  BY <1>1, <1>2, Zenon DEF Graph, GraphOK
<1>4. LinksFit'
  BY <1>1, <1>2, Zenon DEF Graph, LinksFit
<1>5. LinksGivenUpWhenFull'
  BY <1>1, <1>2, Zenon DEF Graph, LinksGivenUpWhenFull
<1> QED BY <1>3, <1>4, <1>5 DEF Graph

LEMMA QueryInv ==
  ASSUME Inv, Query
  PROVE  Inv'
<1> PICK q \in Queries : job' = [vec |-> q, node |-> Nobody]
  BY DEF Query
<1>1. UNCHANGED <<maxLevel, neighbors, enterPoint>> /\ pc = "idle"
  BY DEF Query, graph
<1>2. Graph'
  BY <1>1, GraphKept DEF Inv, graph
<1>3. Nodes' = Nodes /\ job'.vec \in Vectors /\ job'.node = Nobody
  BY <1>1, HNSWAssumption DEF Nodes
<1>4. OnTop'
  BY <1>1, <1>3 DEF Inv, OnTop
<1>5. CASE enterPoint = Nobody
  <2>1. pc' = "idle"
    BY <1>1, <1>5 DEF Query
  <2> QED BY <2>1, <1>2, <1>4 DEF Inv, CallOK, NewUnlinked, Search, SearchOK, BestKept, AllSeen
<1>6. CASE enterPoint # Nobody
  <2>1. lc' = maxLevel[enterPoint] /\ ef' = EfOn(lc', 0) /\ SearchFrom(enterPoint)
    BY <1>6 DEF Query
  <2>2. enterPoint \in Nodes /\ maxLevel \in [Nodes -> Nat] /\ Nodes \subseteq Labels
    BY <1>6 DEF Inv, Graph, GraphOK
  <2>3. enterPoint \in OnLayer'
    BY <2>1, <2>2, <1>1, <1>3, HNSWAssumption DEF OnLayer
  <2>4. Search' /\ pc' = "search"
    BY <2>1, <2>3, EfPositive, Starts DEF SearchFrom
  <2>5. CallOK' /\ NewUnlinked'
    BY <2>1, <2>2, <2>4, <1>3, EfPositive DEF CallOK, NewUnlinked, Inserts
  <2> QED BY <2>4, <2>5, <1>2, <1>4 DEF Inv
<1> QED BY <1>5, <1>6

LEMMA StillSearching ==
  ASSUME Inv, pc # "idle", pc' \in {"search", "visit", "found"},
         UNCHANGED <<graph, job, lc, ef>>
  PROVE  Graph' /\ OnTop' /\ CallOK' /\ NewUnlinked' /\ OnLayer' = OnLayer
<1>1. Graph'
  BY GraphKept DEF Inv
<1>2. OnTop' /\ OnLayer' = OnLayer
  BY DEF Inv, OnTop, OnLayer, graph, Nodes
<1>3. CallOK'
  BY DEF Inv, CallOK, graph, Nodes, Inserts
<1>4. NewUnlinked'
  BY DEF Inv, NewUnlinked, graph, Nodes, Inserts
<1> QED BY <1>1, <1>2, <1>3, <1>4

(* What is known while a layer is searched. *)
LEMMA Searching ==
  ASSUME Inv, pc # "idle"
  PROVE  /\ IsFiniteSet(Nodes) /\ Nodes \subseteq Labels /\ OnLayer \subseteq Nodes
         /\ IsFiniteSet(visited) /\ IsFiniteSet(nearestSet) /\ IsFiniteSet(candidateSet)
         /\ visited \subseteq Labels /\ nearestSet \subseteq Labels /\ candidateSet \subseteq Labels
         /\ job.vec \in Vectors /\ lc \in Nat /\ ef \in Nat \ {0}
         /\ Cardinality(nearestSet) \in Nat /\ nearestSet # {}
         /\ nearestSet \subseteq visited /\ candidateSet \subseteq visited
         /\ visited \subseteq OnLayer /\ toVisit \subseteq OnLayer \ visited
<1>1. IsFiniteSet(Nodes) /\ Nodes \subseteq Labels /\ OnLayer \subseteq Nodes
  BY DEF Inv, Graph, GraphOK, OnLayer
<1>2. /\ nearestSet # {} /\ nearestSet \subseteq visited /\ candidateSet \subseteq visited
      /\ visited \subseteq OnLayer /\ toVisit \subseteq OnLayer \ visited
  BY DEF Inv, Search, SearchOK
<1>3. visited \subseteq Nodes
  BY <1>1, <1>2
<1>4. IsFiniteSet(visited)
  BY <1>1, <1>3, FS_Subset
<1>5. IsFiniteSet(nearestSet) /\ IsFiniteSet(candidateSet)
  BY <1>4, <1>2, FS_Subset
<1>6. Cardinality(nearestSet) \in Nat
  BY <1>5, FS_CardinalityType
<1> QED BY <1>1, <1>2, <1>3, <1>4, <1>5, <1>6 DEF Inv, CallOK

(* The neighbours of the candidate are looked at next. *)
LEMMA TakeCandidateInv ==
  ASSUME Inv, TakeCandidate
  PROVE  Inv'
<1>1. /\ pc = "search" /\ pc' = "visit" /\ UNCHANGED <<graph, job, lc, ef, visited, nearestSet>>
  BY DEF TakeCandidate
<1>2. Graph' /\ OnTop' /\ CallOK' /\ NewUnlinked' /\ OnLayer' = OnLayer
  BY <1>1, StillSearching
<1> PICK n \in Nearest(job.vec, candidateSet) :
           candidateSet' = candidateSet \ {n} /\ toVisit' = neighbors[n][lc] \ visited
  BY DEF TakeCandidate, Unvisited
<1>3. n \in candidateSet /\ n \in OnLayer
  BY <1>1, Searching DEF Nearest
<1>4. neighbors[n][lc] \subseteq OnLayer
  <2>1. n \in Nodes /\ n # job.node /\ lc \in 0 .. maxLevel[n]
    BY <1>3, <1>1, Searching DEF OnLayer, Inv, Graph, GraphOK
  <2>2. neighbors[n][lc] \subseteq Nodes
    BY <2>1 DEF Inv, Graph, GraphOK
  <2>3. \A m \in neighbors[n][lc] : lc <= maxLevel[m]
    BY <2>1 DEF Inv, Graph, LinksFit
  <2>4. job.node \notin neighbors[n][lc]
    <3>1. CASE Inserts
      <4>1. lc <= lc
        BY <1>1, Searching
      <4> QED BY <2>1, <3>1, <1>1, <4>1 DEF Inv, NewUnlinked
    <3>2. CASE ~Inserts
      BY <3>2, <2>2, HNSWAssumption DEF Inserts, Inv, Graph, GraphOK
    <3> QED BY <3>1, <3>2
  <2> QED BY <2>2, <2>3, <2>4 DEF OnLayer
<1>5. SearchOK'
  BY <1>1, <1>2, <1>4, Searching DEF SearchOK
<1>6. BestKept'
  BY <1>1 DEF Inv, Search, BestKept, Dist
<1>7. AllSeen'
  <2>1. \A m \in nearestSet : m \in candidateSet \/ neighbors[m][lc] \subseteq visited
    BY <1>1 DEF Inv, Search, AllSeen
  <2>2. neighbors' = neighbors /\ lc' = lc /\ visited' = visited /\ nearestSet' = nearestSet
    BY <1>1 DEF graph
  <2>3. \A m \in nearestSet : m \in candidateSet' \/ neighbors[m][lc] \subseteq visited \cup toVisit'
    BY <2>1
  <2> QED BY <2>2, <2>3, <1>1 DEF AllSeen
<1> QED BY <1>2, <1>5, <1>6, <1>7 DEF Inv, Search

(* The furthest node kept makes room for a nearer one. *)
LEMMA VisitInv ==
  ASSUME Inv, Visit
  PROVE  Inv'
<1>1. pc = "visit" /\ UNCHANGED <<graph, job, pc, lc, ef>>
  BY DEF Visit
<1>2. Graph' /\ OnTop' /\ CallOK' /\ NewUnlinked' /\ OnLayer' = OnLayer
  BY <1>1, StillSearching
<1>3. PICK n \in toVisit :
       /\ visited' = visited \cup {n} /\ toVisit' = toVisit \ {n}
       /\ \/ /\ Cardinality(nearestSet) < ef
             /\ candidateSet' = candidateSet \cup {n}
             /\ nearestSet' = nearestSet \cup {n}
          \/ /\ Cardinality(nearestSet) >= ef
             /\ \E m \in Furthest(job.vec, nearestSet) :
                  IF Dist(job.vec, n) < Dist(job.vec, m)
                  THEN /\ candidateSet' = candidateSet \cup {n}
                       /\ nearestSet' = (nearestSet \cup {n}) \ {m}
                  ELSE UNCHANGED <<candidateSet, nearestSet>>
  BY DEF Visit
<1> DEFINE D(m) == Dist(job.vec, m)
<1>4. /\ IsFiniteSet(nearestSet) /\ nearestSet # {} /\ Cardinality(nearestSet) \in Nat
      /\ nearestSet \subseteq visited /\ candidateSet \subseteq visited
      /\ visited \subseteq OnLayer /\ toVisit \subseteq OnLayer \ visited
      /\ ef \in Nat \ {0}
  BY <1>1, Searching
<1>5. /\ n \in OnLayer /\ n \notin visited /\ n \notin nearestSet
      /\ \A m \in visited \cup {n} : D(m) \in Int
  BY <1>1, <1>3, <1>4, Searching, DistInt
<1>6. /\ Cardinality(nearestSet) <= ef
      /\ nearestSet = visited \/ Cardinality(nearestSet) = ef
      /\ \A a \in nearestSet, b \in visited \ nearestSet : D(a) <= D(b)
  BY <1>1 DEF Inv, Search, BestKept
<1>7. /\ toVisit' \subseteq OnLayer \ visited' /\ visited' \subseteq OnLayer
  BY <1>3, <1>4, <1>5
<1>8. \A m \in nearestSet : m \in candidateSet \/ neighbors[m][lc] \subseteq visited' \cup toVisit'
  BY <1>1, <1>3 DEF Inv, Search, AllSeen
<1>9. /\ lc' = lc /\ neighbors' = neighbors /\ ef' = ef /\ pc' = "visit"
      /\ \A m : Dist(job.vec, m)' = D(m)
  BY <1>1 DEF graph, Dist
<1> HIDE DEF D
<1>10. SearchOK'
  <2>1. candidateSet' \subseteq visited' /\ nearestSet' \subseteq visited' /\ nearestSet' # {}
    <3>1. CASE nearestSet' = nearestSet \cup {n} /\ candidateSet' = candidateSet \cup {n}
      BY <3>1, <1>3, <1>4
    <3>2. ASSUME NEW m, m \in nearestSet, nearestSet' = (nearestSet \cup {n}) \ {m},
                 candidateSet' = candidateSet \cup {n}
          PROVE  candidateSet' \subseteq visited' /\ nearestSet' \subseteq visited' /\ nearestSet' # {}
      BY <3>2, <1>3, <1>4, <1>5
    <3>3. CASE UNCHANGED <<candidateSet, nearestSet>>
      BY <3>3, <1>3, <1>4
    <3> QED BY <3>1, <3>2, <3>3, <1>3 DEF Furthest
  <2> QED BY <2>1, <1>2, <1>7 DEF SearchOK
<1>11. BestKept'
  <2> SUFFICES /\ nearestSet' = visited' \/ Cardinality(nearestSet') = ef
               /\ Cardinality(nearestSet') <= ef
               /\ \A a \in nearestSet', b \in visited' \ nearestSet' : D(a) <= D(b)
    BY <1>1, <1>9 DEF BestKept, D, Dist
  <2>1. CASE Cardinality(nearestSet) < ef /\ nearestSet' = nearestSet \cup {n}
    <3>1. nearestSet = visited
      BY <2>1, <1>4, <1>6
    <3>2. nearestSet' = visited'
      BY <2>1, <3>1, <1>3
    <3>3. Cardinality(nearestSet') = Cardinality(nearestSet) + 1
      BY <2>1, <1>4, <1>5, FS_AddElement
    <3> QED BY <3>2, <3>3, <2>1, <1>4
  <2>2. ASSUME Cardinality(nearestSet) >= ef,
               NEW m \in Furthest(job.vec, nearestSet), D(n) < D(m),
               nearestSet' = (nearestSet \cup {n}) \ {m}
        PROVE  /\ Cardinality(nearestSet') = ef
               /\ \A a \in nearestSet', b \in visited' \ nearestSet' : D(a) <= D(b)
    <3>1. m \in nearestSet /\ \A a \in nearestSet : D(a) <= D(m)
      <4>1. m \in nearestSet /\ \A a \in nearestSet : D(m) >= D(a)
        BY <2>2 DEF Furthest, D
      <4> QED BY <4>1, <1>4, <1>5
    <3>2. Cardinality(nearestSet) = ef
      BY <2>2, <1>4, <1>6
    <3>3. /\ IsFiniteSet(nearestSet \cup {n})
          /\ Cardinality(nearestSet \cup {n}) = ef + 1
      BY <3>2, <1>4, <1>5, FS_AddElement
    <3>4. Cardinality(nearestSet') = ef
      <4>1. m \in nearestSet \cup {n}
        BY <3>1
      <4> DEFINE S == nearestSet \cup {n}
      <4>2. IsFiniteSet(S) /\ m \in S /\ Cardinality(S) = ef + 1 /\ nearestSet' = S \ {m}
        BY <4>1, <3>3, <2>2
      <4> HIDE DEF S
      <4>3. Cardinality(S \ {m}) = Cardinality(S) - 1
        BY <4>2, FS_RemoveElement
      <4> QED BY <4>2, <4>3, <1>4
    <3>5. ASSUME NEW a \in nearestSet', NEW b \in visited' \ nearestSet'
          PROVE  D(a) <= D(b)
      <4>1. a \in visited \cup {n} /\ b \in visited /\ m \in visited
        BY <2>2, <3>1, <3>5, <1>3, <1>4, <1>5
      <4>2. D(a) \in Int /\ D(b) \in Int /\ D(m) \in Int
        BY <4>1, <1>5
      <4>3. D(a) <= D(m)
        BY <4>2, <2>2, <3>1, <3>5
      <4>4. b = m \/ b \in visited \ nearestSet
        BY <4>1, <2>2, <3>5
      <4>5. D(m) <= D(b)
        BY <4>4, <4>2, <3>1, <1>6
      <4> QED BY <4>2, <4>3, <4>5
    <3> QED BY <3>4, <3>5
  <2>3. ASSUME Cardinality(nearestSet) >= ef,
               NEW m \in Furthest(job.vec, nearestSet), ~(D(n) < D(m)),
               nearestSet' = nearestSet
        PROVE  /\ Cardinality(nearestSet') = ef
               /\ \A a \in nearestSet', b \in visited' \ nearestSet' : D(a) <= D(b)
    <3>1. m \in nearestSet /\ \A a \in nearestSet : D(m) >= D(a)
      BY <2>3 DEF Furthest, D
    <3>2. Cardinality(nearestSet) = ef
      BY <2>3, <1>4, <1>6
    <3>3. ASSUME NEW a \in nearestSet, NEW b \in visited' \ nearestSet
          PROVE  D(a) <= D(b)
      <4>1. b = n \/ b \in visited \ nearestSet
        BY <1>3
      <4>2. D(a) \in Int /\ D(n) \in Int /\ D(m) \in Int
        BY <3>1, <1>4, <1>5
      <4>3. D(a) <= D(n)
        BY <4>2, <3>1, <2>3
      <4> QED BY <4>1, <4>3, <1>6
    <3> QED BY <3>2, <3>3, <2>3
  <2> QED BY <2>1, <2>2, <2>3, <1>3, <1>4, <1>6 DEF D
<1>12. AllSeen'
  <2>1. nearestSet' \subseteq nearestSet \cup {n}
    BY <1>3
  <2>2. candidateSet \subseteq candidateSet'
    BY <1>3
  <2>3. n \in nearestSet' => n \in candidateSet'
    BY <1>3, <1>5
  <2>4. \A m \in nearestSet' : m \in candidateSet' \/ neighbors[m][lc] \subseteq visited' \cup toVisit'
    BY <2>1, <2>2, <2>3, <1>8
  <2> QED BY <2>4, <1>9 DEF AllSeen
<1> QED BY <1>2, <1>10, <1>11, <1>12 DEF Inv, Search

LEMMA VisitedInv ==
  ASSUME Inv, Visited
  PROVE  Inv'
<1>1. /\ pc = "visit" /\ pc' = "search" /\ toVisit = {}
      /\ UNCHANGED <<graph, job, lc, ef, visited, candidateSet, nearestSet, toVisit>>
  BY DEF Visited, search
<1>2. Graph' /\ OnTop' /\ CallOK' /\ NewUnlinked' /\ OnLayer' = OnLayer
  BY <1>1, StillSearching
<1>3. SearchOK'
  BY <1>1, <1>2 DEF Inv, Search, SearchOK
<1>4. BestKept'
  BY <1>1 DEF Inv, Search, BestKept, Dist
<1>5. AllSeen'
  BY <1>1 DEF Inv, Search, AllSeen, graph
<1> QED BY <1>2, <1>3, <1>4, <1>5 DEF Inv, Search

(* When the search breaks off, no candidate left is among the nearest.      *)
LEMMA FoundInv ==
  ASSUME Inv, Found
  PROVE  Inv'
<1>1. /\ pc = "search" /\ pc' = "found"
      /\ UNCHANGED <<graph, job, lc, ef, visited, candidateSet, nearestSet, toVisit>>
  BY DEF Found, search
<1>2. Graph' /\ OnTop' /\ CallOK' /\ NewUnlinked' /\ OnLayer' = OnLayer
  BY <1>1, StillSearching
<1>3. SearchOK'
  BY <1>1, <1>2 DEF Inv, Search, SearchOK
<1>4. BestKept'
  BY <1>1 DEF Inv, Search, BestKept, Dist
<1>5. nearestSet \cap candidateSet = {}
  <2> SUFFICES ASSUME NEW c \in nearestSet, c \in candidateSet
               PROVE  FALSE
    OBVIOUS
  <2>1. Nearest(job.vec, candidateSet) # {} /\ Furthest(job.vec, nearestSet) # {}
    BY <1>1, Searching, NearestExists
  <2>2. PICK n \in Nearest(job.vec, candidateSet), m \in Furthest(job.vec, nearestSet) : TRUE
    BY <2>1
  <2>3. Dist(job.vec, n) > Dist(job.vec, m)
    BY <2>2 DEF Found, Beyond
  <2>4. Dist(job.vec, n) <= Dist(job.vec, c) /\ Dist(job.vec, m) >= Dist(job.vec, c)
    BY <2>2 DEF Nearest, Furthest
  <2>5. n \in candidateSet /\ m \in nearestSet
    BY <2>2 DEF Nearest, Furthest
  <2>6. Dist(job.vec, n) \in Int /\ Dist(job.vec, m) \in Int /\ Dist(job.vec, c) \in Int
    BY <2>5, <1>1, Searching, DistInt
  <2> QED BY <2>3, <2>4, <2>6
<1>6. AllSeen'
  BY <1>1, <1>5 DEF Inv, Search, AllSeen, graph
<1> QED BY <1>2, <1>3, <1>4, <1>6 DEF Inv, Search

------------------------------------------------------------------------------
(* The result of a layer *)

(* The search of the layer below starts at a node that has it.              *)
LEMMA NextLayerFacts ==
  ASSUME Inv, pc # "idle", NEW level, NextLayer(level),
         Nodes' = Nodes, maxLevel' = maxLevel, job' = job
  PROVE  /\ pc' = "search" /\ lc' = lc - 1 /\ lc' \in Nat /\ ef' \in Nat \ {0}
         /\ Search'
<1> PICK ep \in Nearest(job.vec, nearestSet) : SearchFrom(ep)
  BY DEF NextLayer
<1>1. lc > 0 /\ lc' = lc - 1 /\ ef' \in Nat \ {0} /\ pc' = "search"
  BY EfPositive DEF NextLayer, SearchFrom
<1>2. lc \in Nat /\ ep \in OnLayer /\ OnLayer \subseteq Nodes
  BY Searching DEF Nearest
<1>3. maxLevel[ep] \in Nat
  BY <1>2 DEF Inv, Graph, GraphOK
<1>4. ep \in OnLayer'
  BY <1>1, <1>2, <1>3 DEF OnLayer
<1>5. Search'
  BY <1>1, <1>4, Starts
<1> QED BY <1>1, <1>2, <1>5

LEMMA DescendInv ==
  ASSUME Inv, pc = "found", NEW level, NextLayer(level), UNCHANGED <<graph, job>>
  PROVE  Inv'
<1>1. Nodes' = Nodes /\ maxLevel' = maxLevel /\ neighbors' = neighbors /\ enterPoint' = enterPoint
  BY DEF graph, Nodes
<1>2. /\ pc' = "search" /\ lc' = lc - 1 /\ lc' \in Nat /\ ef' \in Nat \ {0}
      /\ Search'
  BY <1>1, NextLayerFacts
<1>3. Graph' /\ OnTop'
  BY <1>1, <1>2, GraphKept DEF Inv, OnTop
<1>4. CallOK'
  BY <1>1, <1>2 DEF Inv, CallOK, Inserts
<1>5. NewUnlinked'
  <2> SUFFICES ASSUME Inserts, NEW n \in Nodes, NEW l \in 0 .. maxLevel[n], l <= lc - 1
               PROVE  job.node \notin neighbors[n][l] /\ (n = job.node => neighbors[n][l] = {})
    BY <1>1, <1>2 DEF NewUnlinked, Inserts
  <2>1. l <= lc
    BY Searching DEF Inv, Graph, GraphOK
  <2> QED BY <2>1 DEF Inv, NewUnlinked
<1> QED BY <1>2, <1>3, <1>4, <1>5 DEF Inv

LEMMA QueryEndsInv ==
  ASSUME Inv, QueryEnds
  PROVE  Inv'
<1>1. pc' = "idle" /\ UNCHANGED <<maxLevel, neighbors, enterPoint, job>> /\ ~Inserts
  BY DEF QueryEnds, Ends, graph
<1>2. Graph' /\ Nodes' = Nodes
  BY <1>1, GraphKept DEF Inv, graph, Nodes
<1>3. OnTop'
  <2>1. \A n \in Nodes : n # job.node
    BY <1>1, HNSWAssumption DEF Inv, Graph, GraphOK, Inserts
  <2> QED BY <2>1, <1>1, <1>2 DEF Inv, OnTop
<1> QED BY <1>1, <1>2, <1>3 DEF Inv, CallOK, NewUnlinked, Search, SearchOK, BestKept, AllSeen

------------------------------------------------------------------------------
(* Linking the new node into a layer *)

(* The links after a layer: the new node links to T, every node of T links  *)
(* back or prunes, and the others keep their links.                         *)
LinkedTo(T, linked) ==
  /\ T \in selectNeighbors(job.vec, nearestSet, M)
  /\ linked \in [T -> SUBSET Nodes]
  /\ \A n \in T : linked[n] \in Pruned(n, neighbors[n][lc] \cup {job.node})
  /\ neighbors' = [n \in Nodes |->
       IF n = job.node THEN [neighbors[n] EXCEPT ![lc] = T]
       ELSE IF n \in T THEN [neighbors[n] EXCEPT ![lc] = linked[n]]
       ELSE neighbors[n]]

(* What is known of the nodes before a layer is linked.                     *)
LEMMA Linking ==
  ASSUME Inv, pc = "found", Inserts, lc <= maxLevel[job.node],
         NEW T, NEW linked, LinkedTo(T, linked)
  PROVE  /\ job.node \in Nodes /\ lc \in Nat /\ T \subseteq OnLayer /\ job.node \notin T
         /\ IsFiniteSet(T) /\ Cardinality(T) \in Nat /\ Cardinality(T) <= M_max
         /\ \A n \in Nodes : maxLevel[n] \in Nat /\ neighbors[n] \in [0 .. maxLevel[n] -> SUBSET Nodes]
         /\ lc \in 0 .. maxLevel[job.node] /\ \A n \in T : lc \in 0 .. maxLevel[n]
         /\ \A n \in T : /\ linked[n] \subseteq neighbors[n][lc] \cup {job.node}
                         /\ Cardinality(linked[n]) <= M_max
                         /\ \/ Cardinality(neighbors[n][lc] \cup {job.node}) > M_max
                            \/ linked[n] # neighbors[n][lc] \cup {job.node}
                            => Cardinality(linked[n]) = M_max
                         /\ \A o \in linked[n] :
                              \A m \in (neighbors[n][lc] \cup {job.node}) \ linked[n] :
                                Dist(Vec[n], o) <= Dist(Vec[n], m)
<1>1. /\ job.node \in Nodes /\ lc \in Nat /\ IsFiniteSet(Nodes)
      /\ \A n \in Nodes : maxLevel[n] \in Nat /\ neighbors[n] \in [0 .. maxLevel[n] -> SUBSET Nodes]
  BY DEF Inv, CallOK, Graph, GraphOK
<1>2. T \subseteq nearestSet /\ IsFiniteSet(T) /\ Cardinality(T) \in Nat /\ Cardinality(T) <= M
  BY Searching, Selected, HNSWAssumption DEF LinkedTo
<1>3. T \subseteq OnLayer /\ job.node \notin T /\ T \subseteq Nodes
  BY <1>2, Searching DEF OnLayer
<1>4. Cardinality(T) <= M_max
  BY <1>2, HNSWAssumption
<1>5. lc \in 0 .. maxLevel[job.node] /\ \A n \in T : lc \in 0 .. maxLevel[n]
  BY <1>1, <1>3 DEF OnLayer
<1>6. ASSUME NEW n \in T
      PROVE  /\ linked[n] \subseteq neighbors[n][lc] \cup {job.node}
             /\ Cardinality(linked[n]) <= M_max
             /\ \/ Cardinality(neighbors[n][lc] \cup {job.node}) > M_max
                \/ linked[n] # neighbors[n][lc] \cup {job.node}
                => Cardinality(linked[n]) = M_max
             /\ \A o \in linked[n] :
                  \A m \in (neighbors[n][lc] \cup {job.node}) \ linked[n] :
                    Dist(Vec[n], o) <= Dist(Vec[n], m)
  <2> DEFINE S == neighbors[n][lc] \cup {job.node}
  <2>1. S \subseteq Nodes
    BY <1>1, <1>3, <1>5
  <2>2. IsFiniteSet(S) /\ linked[n] \in Pruned(n, S)
    BY <2>1, <1>1, FS_Subset DEF LinkedTo
  <2> HIDE DEF S
  <2>3. /\ linked[n] \subseteq S /\ Cardinality(linked[n]) <= M_max
        /\ Cardinality(S) > M_max \/ linked[n] # S => Cardinality(linked[n]) = M_max
        /\ \A o \in linked[n], m \in S \ linked[n] : Dist(Vec[n], o) <= Dist(Vec[n], m)
    BY <2>2, PrunedFacts
  <2> QED BY <2>3 DEF S
<1> QED BY <1>1, <1>2, <1>3, <1>4, <1>5, <1>6

(* The links of every node after the layer. *)
LEMMA LinksAfter ==
  ASSUME Inv, pc = "found", Inserts, lc <= maxLevel[job.node],
         NEW T, NEW linked, LinkedTo(T, linked)
  PROVE  /\ neighbors' = [n \in Nodes |-> neighbors'[n]]
         /\ \A n \in Nodes : neighbors'[n] \in [0 .. maxLevel[n] -> SUBSET Nodes]
         /\ \A n \in Nodes : \A l \in 0 .. maxLevel[n] : l # lc => neighbors'[n][l] = neighbors[n][l]
         /\ neighbors'[job.node][lc] = T
         /\ \A n \in T : neighbors'[n][lc] = linked[n]
         /\ \A n \in Nodes \ T : n # job.node => neighbors'[n] = neighbors[n]
<1>1. /\ job.node \in Nodes /\ T \subseteq Nodes /\ job.node \notin T
      /\ lc \in 0 .. maxLevel[job.node] /\ \A n \in T : lc \in 0 .. maxLevel[n]
      /\ \A n \in Nodes : neighbors[n] \in [0 .. maxLevel[n] -> SUBSET Nodes]
  BY Linking DEF OnLayer
<1>2. /\ linked \in [T -> SUBSET Nodes]
      /\ neighbors' = [n \in Nodes |->
           IF n = job.node THEN [neighbors[n] EXCEPT ![lc] = T]
           ELSE IF n \in T THEN [neighbors[n] EXCEPT ![lc] = linked[n]]
           ELSE neighbors[n]]
  BY DEF LinkedTo
<1>3. neighbors' = [n \in Nodes |-> neighbors'[n]]
  BY <1>2
<1>4. ASSUME NEW n \in Nodes
      PROVE  /\ neighbors'[n] \in [0 .. maxLevel[n] -> SUBSET Nodes]
             /\ \A l \in 0 .. maxLevel[n] : l # lc => neighbors'[n][l] = neighbors[n][l]
             /\ n = job.node => neighbors'[n][lc] = T
             /\ n \in T => neighbors'[n][lc] = linked[n]
             /\ n \notin T /\ n # job.node => neighbors'[n] = neighbors[n]
  <2>1. neighbors[n] \in [0 .. maxLevel[n] -> SUBSET Nodes]
    BY <1>1
  <2>2. CASE n = job.node
    <3>1. neighbors'[n] = [neighbors[n] EXCEPT ![lc] = T]
      BY <2>2, <1>2
    <3>2. T \in SUBSET Nodes /\ lc \in 0 .. maxLevel[n] /\ n \notin T
      BY <2>2, <1>1
    <3> QED BY <3>1, <3>2, <2>1, <2>2
  <2>3. CASE n # job.node /\ n \in T
    <3>1. neighbors'[n] = [neighbors[n] EXCEPT ![lc] = linked[n]]
      BY <2>3, <1>2
    <3>2. linked[n] \in SUBSET Nodes /\ lc \in 0 .. maxLevel[n]
      BY <2>3, <1>1, <1>2
    <3> QED BY <3>1, <3>2, <2>1, <2>3
  <2>4. CASE n # job.node /\ n \notin T
    <3>1. neighbors'[n] = neighbors[n]
      BY <2>4, <1>2
    <3> QED BY <3>1, <2>1, <2>4
  <2> QED BY <2>2, <2>3, <2>4
<1> QED BY <1>1, <1>3, <1>4

(* The layer stays as it should be. *)
LEMMA LinkKeepsGraph ==
  ASSUME Inv, pc = "found", Inserts, lc <= maxLevel[job.node], Nodes' = Nodes,
         maxLevel' = maxLevel, enterPoint' \in Nodes,
         NEW T, NEW linked, LinkedTo(T, linked)
  PROVE  Graph'
<1> DEFINE jn == job.node
<1>1. /\ jn \in Nodes /\ lc \in Nat /\ T \subseteq OnLayer /\ jn \notin T
      /\ Cardinality(T) \in Nat /\ Cardinality(T) <= M_max
      /\ \A n \in Nodes : maxLevel[n] \in Nat /\ neighbors[n] \in [0 .. maxLevel[n] -> SUBSET Nodes]
      /\ lc \in 0 .. maxLevel[jn] /\ \A n \in T : lc \in 0 .. maxLevel[n]
  BY Linking
<1>2. \A n \in T : /\ linked[n] \subseteq neighbors[n][lc] \cup {jn}
                   /\ Cardinality(linked[n]) <= M_max
                   /\ \/ Cardinality(neighbors[n][lc] \cup {jn}) > M_max
                      \/ linked[n] # neighbors[n][lc] \cup {jn}
                      => Cardinality(linked[n]) = M_max
                   /\ \A o \in linked[n], m \in (neighbors[n][lc] \cup {jn}) \ linked[n] :
                        Dist(Vec[n], o) <= Dist(Vec[n], m)
  BY Linking
<1>3. /\ \A n \in Nodes : neighbors'[n] \in [0 .. maxLevel[n] -> SUBSET Nodes]
      /\ \A n \in Nodes : \A l \in 0 .. maxLevel[n] : l # lc => neighbors'[n][l] = neighbors[n][l]
      /\ neighbors'[jn][lc] = T
      /\ \A n \in T : neighbors'[n][lc] = linked[n]
      /\ \A n \in Nodes \ T : n # jn => neighbors'[n] = neighbors[n]
  BY LinksAfter
<1>4. \A n \in Nodes : \A l \in 0 .. maxLevel[n] : \A m \in neighbors[n][l] :
        m \in Nodes /\ m # n /\ l \in 0 .. maxLevel[m]
  <2> SUFFICES ASSUME NEW n \in Nodes, NEW l \in 0 .. maxLevel[n], NEW m \in neighbors[n][l]
               PROVE  m \in Nodes /\ m # n /\ l \in 0 .. maxLevel[m]
    OBVIOUS
  <2>1. m \in Nodes
    BY <1>1
  <2>2. m # n /\ l <= maxLevel[m]
    BY DEF Inv, Graph, LinksFit
  <2> QED BY <2>1, <2>2, <1>1
<1>5. \A n \in Nodes : lc \in 0 .. maxLevel[n] => jn \notin neighbors[n][lc]
  <2> SUFFICES ASSUME NEW n \in Nodes, lc \in 0 .. maxLevel[n]
               PROVE  jn \notin neighbors[n][lc]
    OBVIOUS
  <2>1. lc <= lc
    BY <1>1
  <2> QED BY <2>1 DEF Inv, NewUnlinked
<1>6. \A n \in Nodes : \A l \in 0 .. maxLevel[n] :
        /\ Cardinality(neighbors[n][l]) <= M_max
        /\ \A m \in neighbors[n][l] : n \notin neighbors[m][l] => NoRoomFor(n, m, neighbors[m][l])
  BY <1>1 DEF Inv, Graph, LinksGivenUpWhenFull
<1>7. GraphOK'
  <2>1. neighbors' = [n \in Nodes |-> neighbors'[n]]
    BY LinksAfter
  <2> QED BY <2>1, <1>1, <1>3 DEF Inv, Graph, GraphOK
<1>8. T \subseteq Nodes /\ \A n \in T : n # jn
  BY <1>1 DEF OnLayer
<1> HIDE DEF jn
(* What the links of a node on this layer can be. *)
<1>9. \A n \in Nodes : lc \in 0 .. maxLevel[n] =>
        \A m \in neighbors'[n][lc] :
          \/ n = jn /\ m \in T
          \/ n \in T /\ m = jn
          \/ n # jn /\ m # jn /\ m \in neighbors[n][lc]
  <2> SUFFICES ASSUME NEW n \in Nodes, lc \in 0 .. maxLevel[n], NEW m \in neighbors'[n][lc]
               PROVE  \/ n = jn /\ m \in T
                      \/ n \in T /\ m = jn
                      \/ n # jn /\ m # jn /\ m \in neighbors[n][lc]
    OBVIOUS
  <2>1. CASE n = jn
    BY <2>1, <1>3
  <2>2. CASE n \in T
    <3>1. m \in neighbors[n][lc] \cup {jn}
      BY <2>2, <1>2, <1>3
    <3> QED BY <3>1, <2>2, <1>8
  <2>3. CASE n # jn /\ n \notin T
    <3>1. m \in neighbors[n][lc]
      BY <2>3, <1>3
    <3> QED BY <3>1, <2>3, <1>5
  <2> QED BY <2>1, <2>2, <2>3
<1>10. LinksFit'
  <2> SUFFICES ASSUME NEW n \in Nodes, NEW l \in 0 .. maxLevel[n], NEW m \in neighbors'[n][l]
               PROVE  m # n /\ l <= maxLevel[m]
    BY DEF LinksFit
  <2>1. CASE l # lc
    <3>1. m \in neighbors[n][l]
      BY <2>1, <1>3
    <3> QED BY <3>1, <1>4
  <2>2. CASE l = lc
    <3>1. l \in 0 .. maxLevel[m] /\ m # n
      BY <2>2, <1>1, <1>4, <1>8, <1>9
    <3>2. m \in Nodes /\ maxLevel[m] \in Nat
      BY <1>1, <1>3
    <3> QED BY <3>1, <3>2
  <2> QED BY <2>1, <2>2
<1>11. \A n \in Nodes : \A l \in 0 .. maxLevel[n] : Cardinality(neighbors'[n][l]) <= M_max
  <2> SUFFICES ASSUME NEW n \in Nodes, NEW l \in 0 .. maxLevel[n]
               PROVE  Cardinality(neighbors'[n][l]) <= M_max
    OBVIOUS
  <2>1. CASE l # lc
    BY <2>1, <1>3, <1>6
  <2>2. CASE l = lc /\ n = jn
    BY <2>2, <1>1, <1>3
  <2>3. CASE l = lc /\ n \in T
    BY <2>3, <1>2, <1>3
  <2>4. CASE n # jn /\ n \notin T
    BY <2>4, <1>3, <1>6
  <2> QED BY <2>1, <2>2, <2>3, <2>4
(* A node of T that does not link back, or had no room, has no room: if it  *)
(* now links to the new node, one further away has made room for it.        *)
<1>12. ASSUME NEW m \in T, NEW n \in Nodes, n \notin neighbors'[m][lc],
              n = jn \/ n \in neighbors[m][lc] \/ NoRoomFor(n, m, neighbors[m][lc])
       PROVE  NoRoomFor(n, m, neighbors'[m][lc])
  <2> DEFINE S == neighbors[m][lc]
  <2>1. neighbors'[m][lc] = linked[m]
    BY <1>3
  <2>2. CASE n \in S \cup {jn}
    <3>1. linked[m] # S \cup {jn} /\ n \in (S \cup {jn}) \ linked[m]
      BY <2>1, <2>2, <1>12
    <3>2. Cardinality(linked[m]) = M_max
      BY <3>1, <1>2
    <3>3. \A o \in linked[m] : Dist(Vec[m], o) <= Dist(Vec[m], n)
      BY <3>1, <1>2
    <3> QED BY <3>2, <3>3, <2>1 DEF NoRoomFor
  <2>3. CASE NoRoomFor(n, m, S)
    <3>1. S \subseteq Nodes /\ jn \notin S /\ Nodes \subseteq Labels /\ IsFiniteSet(S)
      <4>1. S \subseteq Nodes /\ jn \notin S
        BY <1>1, <1>5, <1>8
      <4> QED BY <4>1, FS_Subset DEF Inv, Graph, GraphOK
    <3>2. linked[m] \subseteq S \cup {jn}
      BY <1>2
    <3> HIDE DEF S
    <3>3. Cardinality(S \cup {jn}) = Cardinality(S) + 1 /\ Cardinality(S) = M_max
      BY <3>1, <2>3, FS_AddElement DEF NoRoomFor
    <3>4. Cardinality(S \cup {jn}) > M_max
      BY <3>3, HNSWAssumption
    <3>5. Cardinality(linked[m]) = M_max /\ linked[m] # S \cup {jn}
      BY <3>4, <1>2, HNSWAssumption DEF S
    <3>6. ASSUME NEW o \in linked[m]
          PROVE  Dist(Vec[m], o) <= Dist(Vec[m], n)
      <4>1. CASE o \in S
        BY <4>1, <2>3 DEF NoRoomFor
      <4>2. CASE o = jn
        <5>1. PICK x \in S : x \notin linked[m]
          BY <3>2, <3>5, <4>2
        <5>2. Dist(Vec[m], o) <= Dist(Vec[m], x)
          BY <5>1, <1>2 DEF S
        <5>3. Dist(Vec[m], x) <= Dist(Vec[m], n)
          BY <2>3, <5>1 DEF NoRoomFor
        <5>4. Vec[m] \in Vectors /\ o \in Labels /\ x \in Labels /\ n \in Labels
          BY <1>1, <1>8, <3>1, <4>2, <5>1, HNSWAssumption DEF jn
        <5>5. /\ Dist(Vec[m], o) \in Int /\ Dist(Vec[m], x) \in Int
              /\ Dist(Vec[m], n) \in Int
          BY <5>4, DistInt
        <5> QED BY <5>2, <5>3, <5>5
      <4> QED BY <3>2, <4>1, <4>2
    <3> QED BY <2>1, <3>5, <3>6 DEF NoRoomFor
  <2> QED BY <2>2, <2>3, <1>12
<1>13. ASSUME NEW n \in Nodes, NEW l \in 0 .. maxLevel[n], NEW m \in neighbors'[n][l],
              n \notin neighbors'[m][l]
       PROVE  NoRoomFor(n, m, neighbors'[m][l])
  <2>1. CASE l # lc
    <3>1. m \in neighbors[n][l]
      BY <2>1, <1>3
    <3>2. m \in Nodes /\ l \in 0 .. maxLevel[m]
      BY <3>1, <1>4
    <3>3. neighbors'[m][l] = neighbors[m][l]
      BY <2>1, <3>2, <1>3
    <3> QED BY <3>1, <3>3, <1>6, <1>13
  <2>2. CASE l = lc
    <3>1. CASE n = jn /\ m \in T
      BY <3>1, <2>2, <1>12, <1>13
    <3>2. CASE n \in T /\ m = jn
      BY <3>2, <2>2, <1>3, <1>13
    <3>3. CASE n # jn /\ m # jn /\ m \in neighbors[n][lc]
      <4>1. m \in Nodes /\ (n \notin neighbors[m][lc] => NoRoomFor(n, m, neighbors[m][lc]))
        BY <3>3, <2>2, <1>4, <1>6
      <4>2. CASE m \in T
        BY <4>1, <4>2, <2>2, <1>12, <1>13
      <4>3. CASE m \notin T
        <5>1. neighbors'[m] = neighbors[m]
          BY <4>1, <4>3, <3>3, <1>3
        <5> QED BY <5>1, <4>1, <2>2, <1>13
      <4> QED BY <4>2, <4>3
    <3> QED BY <3>1, <3>2, <3>3, <2>2, <1>9
  <2> QED BY <2>1, <2>2
<1>14. LinksGivenUpWhenFull'
  <2>1. \A n \in Nodes : DOMAIN neighbors'[n] = 0 .. maxLevel[n]
    BY <1>3
  <2> QED BY <2>1, <1>11, <1>13 DEF LinksGivenUpWhenFull, NoRoomFor, Dist
<1> QED BY <1>7, <1>10, <1>14 DEF Graph

(* On the layers below, the new node is still not linked.                   *)
LEMMA LinkInv ==
  ASSUME Inv, Link
  PROVE  Inv'
<1>1. /\ pc = "found" /\ Inserts /\ lc <= maxLevel[job.node]
      /\ maxLevel' = maxLevel /\ job' = job /\ Nodes' = Nodes
  BY DEF Link, Nodes
<1>2. PICK T, linked : LinkedTo(T, linked)
  <2>1. PICK T \in selectNeighbors(job.vec, nearestSet, M) :
          \E linked \in [T -> SUBSET Nodes] :
            /\ \A n \in T : linked[n] \in Pruned(n, neighbors[n][lc] \cup {job.node})
            /\ neighbors' = [n \in Nodes |->
                 IF n = job.node THEN [neighbors[n] EXCEPT ![lc] = T]
                 ELSE IF n \in T THEN [neighbors[n] EXCEPT ![lc] = linked[n]]
                 ELSE neighbors[n]]
    BY Zenon DEF Link
  <2>2. PICK linked \in [T -> SUBSET Nodes] :
            /\ \A n \in T : linked[n] \in Pruned(n, neighbors[n][lc] \cup {job.node})
            /\ neighbors' = [n \in Nodes |->
                 IF n = job.node THEN [neighbors[n] EXCEPT ![lc] = T]
                 ELSE IF n \in T THEN [neighbors[n] EXCEPT ![lc] = linked[n]]
                 ELSE neighbors[n]]
    BY <2>1, Zenon
  <2>3. LinkedTo(T, linked)
    BY <2>1, <2>2, Zenon DEF LinkedTo
  <2> QED BY <2>3
<1>3. /\ job.node \in Nodes /\ job.node # enterPoint /\ enterPoint \in Nodes /\ lc \in Nat
      /\ \A n \in Nodes : maxLevel[n] \in Nat
  BY <1>1 DEF Inv, CallOK, Graph, GraphOK
<1>4. CASE NextLayer(maxLevel[job.node]) /\ UNCHANGED enterPoint
  <2>1. /\ pc' = "search" /\ lc' = lc - 1 /\ lc' \in Nat /\ ef' \in Nat \ {0}
        /\ Search'
    BY <1>1, <1>4, NextLayerFacts
  <2>2. Graph'
    BY <1>1, <1>2, <1>3, <1>4, LinkKeepsGraph
  <2>3. OnTop' /\ CallOK'
    BY <2>1, <1>1, <1>3, <1>4 DEF Inv, OnTop, CallOK, Inserts
  <2>4. NewUnlinked'
    <3> SUFFICES ASSUME NEW n \in Nodes, NEW l \in 0 .. maxLevel[n], l <= lc - 1
                 PROVE  job.node \notin neighbors'[n][l] /\ (n = job.node => neighbors'[n][l] = {})
      BY <2>1, <1>1 DEF NewUnlinked
    <3>1. l <= lc /\ l # lc
      BY <1>3
    <3>2. neighbors'[n][l] = neighbors[n][l]
      BY <3>1, <1>1, <1>2, LinksAfter
    <3> QED BY <3>1, <3>2, <1>1 DEF Inv, NewUnlinked
  <2> QED BY <2>1, <2>2, <2>3, <2>4 DEF Inv
<1>5. CASE Ends /\ enterPoint' = IF Higher(job.node) THEN job.node ELSE enterPoint
  <2>1. pc' = "idle"
    BY <1>5 DEF Ends
  <2>2. enterPoint' \in Nodes
    BY <1>3, <1>5
  <2>3. Graph'
    BY <2>2, <1>1, <1>2, LinkKeepsGraph
  <2>4. OnTop'
    <3>1. \A n \in Nodes : n = job.node \/ maxLevel[n] <= maxLevel[enterPoint]
      BY DEF Inv, OnTop
    <3> QED BY <3>1, <1>1, <1>3, <1>5 DEF OnTop, Higher
  <2> QED BY <2>1, <2>3, <2>4
          DEF Inv, CallOK, NewUnlinked, Search, SearchOK, BestKept, AllSeen
<1> QED BY <1>4, <1>5 DEF Link

------------------------------------------------------------------------------
(* The theorems *)

LEMMA NextInv == Inv /\ [HnswNext]_hnswVars => Inv'
<1> SUFFICES ASSUME Inv, [HnswNext]_hnswVars PROVE Inv'
  OBVIOUS
<1>1. CASE InsertFirst
  BY <1>1, FirstInv
<1>2. CASE Insert
  BY <1>2, InsertInv
<1>3. CASE Query
  BY <1>3, QueryInv
<1>4. CASE TakeCandidate
  BY <1>4, TakeCandidateInv
<1>5. CASE Visit
  BY <1>5, VisitInv
<1>6. CASE Visited
  BY <1>6, VisitedInv
<1>7. CASE Found
  BY <1>7, FoundInv
<1>8. CASE Descend
  <2>1. pc = "found" /\ NextLayer(maxLevel[job.node]) /\ UNCHANGED <<graph, job>>
    BY <1>8 DEF Descend
  <2> QED BY <2>1, DescendInv
<1>9. CASE Link
  BY <1>9, LinkInv
<1>10. CASE QueryDescend
  <2>1. pc = "found" /\ NextLayer(0) /\ UNCHANGED <<graph, job>>
    BY <1>10 DEF QueryDescend
  <2> QED BY <2>1, DescendInv
<1>11. CASE QueryEnds
  BY <1>11, QueryEndsInv
<1>12. CASE UNCHANGED hnswVars
  <2>1. UNCHANGED graph /\ Nodes' = Nodes
        /\ UNCHANGED <<maxLevel, neighbors, enterPoint, job, pc, lc, ef, visited,
                       candidateSet, nearestSet, toVisit>>
    BY <1>12 DEF hnswVars, graph, search, Nodes
  <2>2. Graph'
    BY <2>1, GraphKept DEF Inv
  <2>3. OnTop' /\ CallOK' /\ NewUnlinked'
    BY <2>1 DEF Inv, OnTop, CallOK, NewUnlinked, Inserts
  <2>4. Search'
    BY <2>1 DEF Inv, Search, SearchOK, BestKept, AllSeen, OnLayer, Dist
  <2> QED BY <2>2, <2>3, <2>4 DEF Inv
<1> QED BY <1>1, <1>2, <1>3, <1>4, <1>5, <1>6, <1>7, <1>8, <1>9, <1>10, <1>11, <1>12
        DEF HnswNext, Work

LEMMA Invariant == HnswSpec => []Inv
<1> QED BY InitInv, NextInv, PTL DEF HnswSpec

(* Links stay inside the layers both ends have, the entry point is on top,  *)
(* and a search meets only nodes of its layer (HNSW::insert).               *)
THEOREM LayersAlwaysFit == HnswSpec => []LayersFit
<1>1. Inv => LayersFit
  <2> SUFFICES ASSUME Inv PROVE LayersFit
    OBVIOUS
  <2>1. \A n \in Nodes : maxLevel[n] \in Nat /\ neighbors[n] \in [0 .. maxLevel[n] -> SUBSET Nodes]
    BY DEF Inv, Graph, GraphOK
  <2>2. ASSUME NEW n \in Nodes, NEW l \in DOMAIN neighbors[n], NEW m \in neighbors[n][l]
        PROVE  m # n /\ m \in Nodes /\ l \in DOMAIN neighbors[m]
    <3>1. l \in 0 .. maxLevel[n] /\ m \in Nodes
      BY <2>1
    <3>2. m # n /\ l <= maxLevel[m]
      BY <3>1 DEF Inv, Graph, LinksFit
    <3>3. DOMAIN neighbors[m] = 0 .. maxLevel[m] /\ maxLevel[m] \in Nat
      BY <3>1, <2>1
    <3> QED BY <3>1, <3>2, <3>3
  <2>3. pc = "idle" => \A n \in Nodes : maxLevel[n] <= maxLevel[enterPoint]
    BY DEF Inv, OnTop
  <2>4. pc # "idle" => \A n \in visited : lc \in DOMAIN neighbors[n]
    <3> SUFFICES ASSUME pc # "idle", NEW n \in visited
                 PROVE  lc \in DOMAIN neighbors[n]
      OBVIOUS
    <3>1. n \in Nodes /\ lc <= maxLevel[n] /\ lc \in Nat
      BY Searching DEF OnLayer
    <3>2. DOMAIN neighbors[n] = 0 .. maxLevel[n] /\ maxLevel[n] \in Nat
      BY <3>1, <2>1
    <3> QED BY <3>1, <3>2
  <2> QED BY <2>2, <2>3, <2>4 DEF LayersFit
<1> QED BY <1>1, Invariant, PTL

(* No node has more than M_max links on a layer, and a link is one-sided    *)
(* only where its other end has M_max links to nodes at least as near to it *)
(* (HNSW::insert, pruning).                                                 *)
THEOREM LinksAreGivenUpWhenFull == HnswSpec => []LinksGivenUpWhenFull
<1>1. Inv => LinksGivenUpWhenFull
  BY DEF Inv, Graph
<1> QED BY <1>1, Invariant, PTL

(* A search of a layer ends with the ef nearest of the nodes it visited,    *)
(* and has visited every neighbour of a node it keeps (HNSW::searchLayer).  *)
THEOREM SearchEndsAtLocalOptimum == HnswSpec => []SearchIsLocalOptimum
<1>1. Inv => SearchIsLocalOptimum
  <2> SUFFICES ASSUME Inv, pc = "found" PROVE
         /\ nearestSet \in selectNeighbors(job.vec, visited, ef)
         /\ \A n \in nearestSet : neighbors[n][lc] \subseteq visited
    BY DEF SearchIsLocalOptimum
  <2>1. /\ IsFiniteSet(visited) /\ nearestSet \subseteq visited /\ ef \in Nat
        /\ Cardinality(nearestSet) \in Nat
    BY Searching
  <2>2. Cardinality(visited) \in Nat /\ Cardinality(nearestSet) <= Cardinality(visited)
    BY <2>1, FS_Subset, FS_CardinalityType
  <2>3. /\ nearestSet = visited \/ Cardinality(nearestSet) = ef
        /\ Cardinality(nearestSet) <= ef
        /\ \A n \in nearestSet, m \in visited \ nearestSet : Dist(job.vec, n) <= Dist(job.vec, m)
    BY DEF Inv, Search, BestKept
  <2>4. Cardinality(nearestSet) = IF Cardinality(visited) < ef THEN Cardinality(visited) ELSE ef
    BY <2>1, <2>2, <2>3
  <2>5. nearestSet \in selectNeighbors(job.vec, visited, ef)
    BY <2>1, <2>3, <2>4 DEF selectNeighbors
  <2>6. \A n \in nearestSet : neighbors[n][lc] \subseteq visited
    BY DEF Inv, Search, AllSeen
  <2> QED BY <2>5, <2>6
<1> QED BY <1>1, Invariant, PTL

==============================================================================
