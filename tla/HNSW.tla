--------------------------------- MODULE HNSW ----------------------------------
(***************************************************************************)
(* The hierarchical graph of HNSW-coccurrenct/src/hnsw.hpp: inserting       *)
(* vectors with random levels, and queries.  The search of a layer visits   *)
(* one neighbour at a time, in the order an unordered_set may give; nodes   *)
(* at the same distance come in the order of their addresses, that is, any. *)
(***************************************************************************)
EXTENDS Integers, FiniteSets

CONSTANTS
  Labels,           \* the vectors inserted, known by their labels
  dimension,        \* the length of every vector
  Vec,              \* Vec[n]: the vector of a label
  Queries,          \* the vectors queried
  K,                \* how many labels a query asks for
  M, M_max,         \* parameter.hpp: links of a new node, and of any node
  ef_construction,  \* parameter.hpp: size of the result of a search
  LevelCap,         \* bound: get_random_level is at most this
  Nobody            \* the null pointer

Vectors == [1 .. dimension -> Int]

ASSUME HNSWAssumption ==
  /\ dimension \in Nat /\ Vec \in [Labels -> Vectors] /\ Queries \subseteq Vectors
  /\ M \in Nat \ {0} /\ M_max \in Nat \ {0} /\ M <= M_max
  /\ K \in Nat \ {0} /\ ef_construction \in Nat \ {0} /\ LevelCap \in Nat
  /\ Nobody \notin Labels

VARIABLES
  maxLevel,    \* Node::maxLevel of the nodes inserted
  neighbors,   \* Node::neighbors[level]
  enterPoint,  \* where every search starts
  job,         \* the call: the vector it is about, and the new node if it inserts
  pc,          \* "idle", "search", "visit" or "found"
  lc,          \* the layer searched
  ef,          \* the size of its result
  visited, candidateSet, nearestSet,    \* as in searchLayer
  toVisit,     \* neighbours of the current candidate not looked at yet
  result       \* the labels the last query returned

graph  == <<maxLevel, neighbors, enterPoint>>
search == <<visited, candidateSet, nearestSet, toVisit>>
hnswVars == <<graph, job, pc, lc, ef, search, result>>

Nodes == DOMAIN maxLevel

l2distance(a, b) ==
  LET dis[i \in 0 .. dimension] ==
        IF i = 0 THEN 0 ELSE dis[i - 1] + (a[i] - b[i]) * (a[i] - b[i])
  IN  dis[dimension]

Dist(q, n) == l2distance(q, Vec[n])

Nearest(q, S)  == {n \in S : \A m \in S : Dist(q, n) <= Dist(q, m)}
Furthest(q, S) == {n \in S : \A m \in S : Dist(q, n) >= Dist(q, m)}

(* Mutant: any nodes are selected, so many. *)
selectAny(q, S, k) == {T \in SUBSET S : Cardinality(T) = k}

(* What selectNeighbors may return: k nodes, or all, none further than one  *)
(* left out.                                                                *)
selectNeighbors(q, S, k) ==
  {T \in SUBSET S :
     /\ Cardinality(T) = IF Cardinality(S) < k THEN Cardinality(S) ELSE k
     /\ \A n \in T, m \in S \ T : Dist(q, n) <= Dist(q, m)}

------------------------------------------------------------------------------

HnswInit ==
  /\ maxLevel = [n \in {} |-> 0] /\ neighbors = [n \in {} |-> <<>>]
  /\ enterPoint = Nobody
  /\ job = [vec |-> [i \in 1 .. dimension |-> 0], node |-> Nobody] /\ pc = "idle" /\ lc = 0 /\ ef = 1
  /\ visited = {} /\ candidateSet = {} /\ nearestSet = {} /\ toVisit = {}
  /\ result = {}

Inserts == job.node # Nobody

(* searchLayer begins at node ep. *)
SearchFrom(ep) ==
  /\ pc' = "search"
  /\ visited' = {ep} /\ candidateSet' = {ep} /\ nearestSet' = {ep} /\ toVisit' = {}

NoSearch == visited' = {} /\ candidateSet' = {} /\ nearestSet' = {} /\ toVisit' = {}

(* The size of the result on layer l, in a call that inserts at a level.    *)
EfOn(l, level) == IF l > level THEN 1 ELSE ef_construction

Added(n, level) ==
  /\ maxLevel' = [m \in Nodes \cup {n} |-> IF m = n THEN level ELSE maxLevel[m]]
  /\ neighbors' = [m \in Nodes \cup {n} |->
                     IF m = n THEN [l \in 0 .. level |-> {}] ELSE neighbors[m]]

InsertFirst ==
  /\ pc = "idle" /\ enterPoint = Nobody
  /\ \E n \in Labels, level \in 0 .. LevelCap : Added(n, level) /\ enterPoint' = n
  /\ UNCHANGED <<job, pc, lc, ef, search, result>>

Insert ==
  /\ pc = "idle" /\ enterPoint # Nobody
  /\ \E n \in Labels \ Nodes, level \in 0 .. LevelCap :
       /\ job' = [vec |-> Vec[n], node |-> n]
       /\ Added(n, level)
       /\ ef' = EfOn(maxLevel[enterPoint], level)
  /\ lc' = maxLevel[enterPoint]
  /\ SearchFrom(enterPoint)
  /\ UNCHANGED <<enterPoint, result>>

Query ==
  /\ pc = "idle"
  /\ \E q \in Queries : job' = [vec |-> q, node |-> Nobody]
  /\ result' = {}
  /\ IF enterPoint = Nobody
     THEN UNCHANGED <<pc, lc, ef, search>>
     ELSE /\ lc' = maxLevel[enterPoint] /\ ef' = EfOn(lc', 0)
          /\ SearchFrom(enterPoint)
  /\ UNCHANGED graph

------------------------------------------------------------------------------
(* searchLayer *)

(* Mutant: the search ends when the candidate is as far as the furthest. *)
BeyondOrAt(n) == \A m \in Furthest(job.vec, nearestSet) : Dist(job.vec, n) >= Dist(job.vec, m)
Beyond(n)     == \A m \in Furthest(job.vec, nearestSet) : Dist(job.vec, n) > Dist(job.vec, m)

(* Mutant: nodes visited are visited again. *)
AllAround(n)  == neighbors[n][lc]
Unvisited(n)  == neighbors[n][lc] \ visited

TakeCandidate ==
  /\ pc = "search"
  /\ \E n \in Nearest(job.vec, candidateSet) :
       /\ ~Beyond(n)
       /\ candidateSet' = candidateSet \ {n}
       /\ toVisit' = Unvisited(n)
  /\ pc' = "visit"
  /\ UNCHANGED <<graph, job, lc, ef, visited, nearestSet, result>>

Visit ==
  /\ pc = "visit"
  /\ \E n \in toVisit :
       /\ visited' = visited \cup {n} /\ toVisit' = toVisit \ {n}
       /\ \/ /\ Cardinality(nearestSet) < ef
             /\ candidateSet' = candidateSet \cup {n}
             /\ nearestSet' = nearestSet \cup {n}
          \/ /\ Cardinality(nearestSet) >= ef
             /\ \E m \in Furthest(job.vec, nearestSet) :
                  IF Dist(job.vec, n) < Dist(job.vec, m)
                  THEN /\ candidateSet' = candidateSet \cup {n}
                       /\ nearestSet' = (nearestSet \cup {n}) \ {m}
                  ELSE UNCHANGED <<candidateSet, nearestSet>>
  /\ UNCHANGED <<graph, job, pc, lc, ef, result>>

Visited ==
  /\ pc = "visit" /\ toVisit = {} /\ pc' = "search"
  /\ UNCHANGED <<graph, job, lc, ef, search, result>>

Found ==
  /\ pc = "search" /\ \A n \in Nearest(job.vec, candidateSet) : Beyond(n)
  /\ pc' = "found"
  /\ UNCHANGED <<graph, job, lc, ef, search, result>>

------------------------------------------------------------------------------
(* What insert and query do with the result of a layer *)

(* On with the layer below, from the nearest node found. *)
NextLayer(level) ==
  /\ lc > 0
  /\ lc' = lc - 1 /\ ef' = EfOn(lc - 1, level)
  /\ \E ep \in Nearest(job.vec, nearestSet) : SearchFrom(ep)

Ends == lc = 0 /\ pc' = "idle" /\ NoSearch /\ UNCHANGED <<lc, ef>>

(* Mutant: a neighbour with too many links gives up any of them. *)
PrunedAnyhow(n, S) == IF Cardinality(S) > M_max THEN selectAny(Vec[n], S, M_max) ELSE {S}
Pruned(n, S) == IF Cardinality(S) > M_max THEN selectNeighbors(Vec[n], S, M_max) ELSE {S}

(* Mutant: the first node stays the entry point. *)
HigherNever(n) == FALSE
Higher(n)      == maxLevel[n] > maxLevel[enterPoint]

Descend ==
  /\ pc = "found" /\ Inserts /\ lc > maxLevel[job.node]
  /\ NextLayer(maxLevel[job.node])
  /\ UNCHANGED <<graph, job, result>>

Link ==
  /\ pc = "found" /\ Inserts /\ lc <= maxLevel[job.node]
  /\ \E T \in selectNeighbors(job.vec, nearestSet, M) :
       \E linked \in [T -> SUBSET Nodes] :
         /\ \A n \in T : linked[n] \in Pruned(n, neighbors[n][lc] \cup {job.node})
         /\ neighbors' = [n \in Nodes |->
              IF n = job.node THEN [neighbors[n] EXCEPT ![lc] = T]
              ELSE IF n \in T THEN [neighbors[n] EXCEPT ![lc] = linked[n]]
              ELSE neighbors[n]]
  /\ \/ NextLayer(maxLevel[job.node]) /\ UNCHANGED enterPoint
     \/ Ends /\ enterPoint' = IF Higher(job.node) THEN job.node ELSE enterPoint
  /\ UNCHANGED <<maxLevel, job, result>>

QueryDescend ==
  /\ pc = "found" /\ ~Inserts
  /\ NextLayer(0)
  /\ UNCHANGED <<graph, job, result>>

QueryEnds ==
  /\ pc = "found" /\ ~Inserts
  /\ Ends
  /\ result' \in selectNeighbors(job.vec, nearestSet, K)
  /\ UNCHANGED <<graph, job>>

Work == \/ TakeCandidate \/ Visit \/ Visited \/ Found
        \/ Descend \/ Link \/ QueryDescend \/ QueryEnds

HnswNext == InsertFirst \/ Insert \/ Query \/ Work

HnswSpec == HnswInit /\ [][HnswNext]_hnswVars /\ WF_hnswVars(Work)

------------------------------------------------------------------------------
(* Properties *)

(* Layer l links only nodes that have a layer l, and none to itself, so no  *)
(* search reads neighbors[level] past its end; and the entry point is on    *)
(* top, so that every search starts on a layer its nodes have               *)
(* (HNSW::insert).                                                          *)
LayersFit ==
  /\ \A n \in Nodes : \A l \in DOMAIN neighbors[n] :
       \A m \in neighbors[n][l] : m # n /\ m \in Nodes /\ l \in DOMAIN neighbors[m]
  /\ pc = "idle" /\ Nodes # {} => \A n \in Nodes : maxLevel[n] <= maxLevel[enterPoint]
  /\ pc # "idle" => \A n \in visited : lc \in DOMAIN neighbors[n]

(* Node m, with the links S, has no room for n: they are M_max, and none of *)
(* them is further from m than n.                                           *)
NoRoomFor(n, m, S) ==
  Cardinality(S) = M_max /\ \A o \in S : Dist(Vec[m], o) <= Dist(Vec[m], n)

(* No node has more than M_max links on a layer, and a link that is not     *)
(* mutual was given up by a node that is full, now as then, of links at     *)
(* least as near: whatever came later, a node keeps what is near to it      *)
(* (HNSW::insert, pruning).                                                 *)
LinksGivenUpWhenFull ==
  \A n \in Nodes : \A l \in DOMAIN neighbors[n] :
    /\ Cardinality(neighbors[n][l]) <= M_max
    /\ \A m \in neighbors[n][l] :
         n \notin neighbors[m][l] => NoRoomFor(n, m, neighbors[m][l])

(* A search ends at the best it can see: it keeps the ef nearest of the     *)
(* nodes visited, and every neighbour of a node it keeps has been visited   *)
(* (HNSW::searchLayer and its early break).                                 *)
SearchIsLocalOptimum ==
  pc = "found" =>
    /\ nearestSet \in selectNeighbors(job.vec, visited, ef)
    /\ \A n \in nearestSet : neighbors[n][lc] \subseteq visited

(* Every insertion and every query ends. *)
EveryCallEnds == pc # "idle" ~> pc = "idle"
==============================================================================
