----------------------------- MODULE TablesProofs ------------------------------
(***************************************************************************)
(* The two tables of LSMKV: the skip list in memory and one table of a      *)
(* level.                                                                   *)
(*                                                                         *)
(* The skip list is the ordered map the memory table promises, for every    *)
(* set of keys, every number of levels and every choice of node heights.    *)
(* Linked and SearchOnTrack carry each other; the refinement needs besides  *)
(* what a listing has collected so far and that size counts the nodes.      *)
(*                                                                         *)
(* The lookups of one table are right for every table, every hash function  *)
(* and every size of the Bloom filter.  Each of the three loops keeps what  *)
(* it looks for between left and right; the answers follow when nothing is  *)
(* left between them.                                                       *)
(***************************************************************************)
EXTENDS SkipList, TableSearch, FiniteSetTheorems, SequenceTheorems, TLAPS

------------------------------------------------------------------------------
(* The skip list *)

KeyOps == {"put", "get", "del", "scan"}

(* Which call is served, and how far its search is. *)
Serving ==
  /\ pc = "search" => call.op \in KeyOps /\ DOMAIN update = i + 1 .. MaxLevel - 1
                      /\ result = <<>>
  /\ pc \notin {"idle", "search"} => call.op = pc
  /\ pc \in KeyOps => DOMAIN update = Levels
  /\ pc \in {"put", "get", "del"} => node = forward[update[0]][0]

(* A listing has collected what it wants up to its node. *)
InScan(n)    == (pc = "scan" => call.key <= n) /\ (node # null => n < node)
Collecting ==
  pc \in {"scan", "list"} =>
    /\ node \in DOMAIN value \cup {null}
    /\ pc = "scan" /\ node # null => call.key <= node
    /\ result \in Seq({<<n, value[n]>> : n \in DOMAIN value})
    /\ \A a, b \in DOMAIN result : a < b => result[a][1] < result[b][1]
    /\ {result[a] : a \in DOMAIN result} =
         {<<n, value[n]>> : n \in {m \in DOMAIN value : InScan(m)}}
    /\ pc = "scan" => \A a \in DOMAIN result : result[a][1] <= call.end

Counting ==
  /\ value = [n \in DOMAIN value |-> value[n]]
  /\ IsFiniteSet(DOMAIN value) /\ size = Cardinality(DOMAIN value)

Inv == TypeOK /\ Linked /\ SearchOnTrack /\ Serving /\ Collecting /\ Counting

------------------------------------------------------------------------------
(* Calls *)

LEMMA CallFacts ==
  ASSUME NEW c \in API!Calls
  PROVE  /\ c.op \in KeyOps \cup {"list", "clean"}
         /\ c.op \in KeyOps => c.key \in MapKeys
         /\ c.op = "put" => c.val \in Values
         /\ c.op = "scan" => c.end \in MapKeys
         /\ c \notin {API!ListCall, API!CleanCall} => c.op \in KeyOps
BY DEF API!Calls, API!PutCall, API!GetCall, API!DelCall, API!ScanCall, API!ListCall,
       API!CleanCall, KeyOps

(* A call that names a key is being served. *)
LEMMA KeyFacts ==
  ASSUME TypeOK, Serving, pc \in KeyOps \cup {"search"}
  PROVE  /\ call \in API!Calls /\ call.op \in KeyOps /\ call.key \in MapKeys /\ call.key \in Nat
         /\ pc # "search" => call.op = pc
         /\ pc = "put" => call.val \in Values
         /\ pc = "scan" => call.end \in MapKeys /\ call.end \in Nat
<1>1. call.op \in KeyOps /\ (pc # "search" => call.op = pc)
  BY DEF Serving, KeyOps
<1>2. call \in API!Calls
  BY <1>1 DEF TypeOK, API!NoCall, KeyOps
<1> QED BY <1>1, <1>2, CallFacts, SkipListAssumption

LEMMA NodeFacts ==
  ASSUME TypeOK
  PROVE  /\ MaxLevel \in Nat \ {0} /\ MapKeys \subseteq Nat
         /\ head = -1 /\ null = -2 /\ Nodes \subseteq Int /\ head \in Nodes /\ null \notin Nodes
         /\ DOMAIN value = Nodes \ {head} /\ DOMAIN value \subseteq Nat
         /\ \A n \in Nodes : height[n] \in 1 .. MaxLevel /\ n >= -1
         /\ \A n \in Nodes : DOMAIN forward[n] = 0 .. height[n] - 1
         /\ \A n \in Nodes : \A l \in 0 .. height[n] - 1 : forward[n][l] \in MapKeys \cup {null}
BY SkipListAssumption DEF TypeOK, head, null

(* What Linked says of one node on one level. *)
LEMMA LinkFacts ==
  ASSUME TypeOK, Linked, NEW n \in Nodes, NEW l \in Nat, l < height[n]
  PROVE  /\ l \in DOMAIN forward[n] /\ forward[n][l] \in Int
         /\ forward[n][l] # null =>
              /\ forward[n][l] \in Nodes \ {head} /\ forward[n][l] > n
              /\ height[forward[n][l]] > l
         /\ \A m \in Nodes : m > n /\ height[m] > l => forward[n][l] # null /\ forward[n][l] <= m
<1>1. height[n] \in Nat /\ l \in 0 .. height[n] - 1
  BY NodeFacts
<1>2. l \in DOMAIN forward[n] /\ forward[n][l] \in MapKeys \cup {null}
  BY <1>1, NodeFacts
<1>3. /\ forward[n][l] # null =>
           forward[n][l] \in Nodes /\ forward[n][l] > n /\ height[forward[n][l]] > l
      /\ \A m \in Nodes : m > n /\ height[m] > l => forward[n][l] # null /\ forward[n][l] <= m
  BY <1>1 DEF Linked
<1>4. forward[n][l] \in Int /\ forward[n][l] # head
  BY <1>2, NodeFacts
<1> QED BY <1>2, <1>3, <1>4

LEMMA InitInv == ListInit => Inv
<1> SUFFICES ASSUME ListInit PROVE Inv
  OBVIOUS
<1>1. /\ forward = [n \in {-1} |-> [l \in 0 .. MaxLevel - 1 |-> -2]]
      /\ height = [n \in {-1} |-> MaxLevel] /\ value = [n \in {} |-> Empty]
      /\ size = 0 /\ pc = "idle" /\ call = API!NoCall /\ i = 0
  BY DEF ListInit, NewHead, head, null, Levels
<1>2. TypeOK
  BY <1>1, SkipListAssumption DEF TypeOK, head, null, Nodes, Levels
<1>3. Linked
  BY <1>1, SkipListAssumption DEF Linked, Nodes, null
<1>4. SearchOnTrack /\ Serving /\ Collecting
  BY <1>1 DEF SearchOnTrack, Serving, Collecting, KeyOps
<1>5. Counting
  BY <1>1, FS_EmptySet DEF Counting
<1> QED BY <1>2, <1>3, <1>4, <1>5 DEF Inv

------------------------------------------------------------------------------
(* Starting and searching: the list stays as it is. *)

LEMMA ListKept ==
  ASSUME TypeOK, Linked, Counting, UNCHANGED list,
         pc' \in {"idle", "search", "put", "get", "del", "scan", "list", "clean"},
         call' \in API!Calls \cup {API!NoCall}, i' \in Levels
  PROVE  /\ TypeOK' /\ Linked' /\ Counting'
         /\ forward' = forward /\ height' = height /\ value' = value /\ Nodes' = Nodes
BY DEF TypeOK, Linked, Counting, list, Nodes, Levels, head, null

LEMMA StartInv == Inv /\ Start => Inv'
<1> SUFFICES ASSUME Inv, Start PROVE Inv'
  OBVIOUS
<1> USE DEF Inv
<1>1. /\ MaxLevel \in Nat \ {0} /\ head \in Nodes /\ height[head] = MaxLevel
      /\ DOMAIN forward[head] = 0 .. MaxLevel - 1 /\ head = -1
  BY NodeFacts DEF TypeOK
<1>2. ASSUME NEW c \in API!Calls \ {API!ListCall, API!CleanCall}, StartSearch(c)
      PROVE  Inv'
  <2>1. c.op \in KeyOps /\ c.key \in MapKeys /\ c.key \in Nat
    BY CallFacts, SkipListAssumption
  <2>2. /\ pc' = "search" /\ call' = c /\ i' = MaxLevel - 1 /\ i' \in Levels /\ node' = head
        /\ DOMAIN update' = {} /\ result' = <<>> /\ UNCHANGED list
    BY <1>1, <1>2 DEF StartSearch, Levels
  <2>3. /\ TypeOK' /\ Linked' /\ Counting'
        /\ forward' = forward /\ height' = height /\ value' = value /\ Nodes' = Nodes
    BY <2>2, ListKept
  <2>4. SearchOnTrack'
    BY <1>1, <2>1, <2>2, <2>3 DEF SearchOnTrack, head
  <2>5. Serving' /\ Collecting'
    BY <1>1, <2>1, <2>2 DEF Serving, Collecting, KeyOps
  <2> QED BY <2>3, <2>4, <2>5
<1>3. CASE StartList
  <2>1. /\ pc' = "list" /\ call' = API!ListCall /\ i' \in Levels /\ node' = forward[head][0]
        /\ result' = <<>> /\ UNCHANGED list
    BY <1>1, <1>3 DEF StartList, Levels
  <2>2. call' \in API!Calls /\ call'.op = "list"
    BY <2>1 DEF API!Calls, API!ListCall
  <2>3. /\ TypeOK' /\ Linked' /\ Counting'
        /\ forward' = forward /\ height' = height /\ value' = value /\ Nodes' = Nodes
    BY <2>1, <2>2, ListKept
  <2>4. SearchOnTrack' /\ Serving'
    BY <2>1, <2>2 DEF SearchOnTrack, Serving, KeyOps
  <2>5. /\ node' # null => node' \in Nodes \ {head}
        /\ \A m \in Nodes \ {head} : node' # null /\ node' <= m
    <3>1. /\ node' # null => node' \in Nodes /\ node' > head
          /\ \A m \in Nodes : m > head => node' # null /\ node' <= m
      <4>1. 0 \in Nat /\ 0 < height[head] /\ \A m \in Nodes : height[m] > 0
        BY <1>1, NodeFacts
      <4>2. /\ forward[head][0] # null => forward[head][0] \in Nodes /\ forward[head][0] > head
            /\ \A m \in Nodes : m > head /\ height[m] > 0 =>
                 forward[head][0] # null /\ forward[head][0] <= m
        BY <1>1, <4>1, LinkFacts
      <4> QED BY <2>1, <4>1, <4>2
    <3> QED BY <1>1, <3>1, NodeFacts
  <2>6. {m \in DOMAIN value : node' # null => m < node'} = {}
    BY <2>5, NodeFacts
  <2>7. Collecting'
    BY <2>1, <2>3, <2>5, <2>6, NodeFacts DEF Collecting, InScan
  <2> QED BY <2>3, <2>4, <2>7
<1>4. CASE StartClean
  <2>1. pc' = "clean" /\ call' = API!CleanCall /\ i' \in Levels /\ UNCHANGED list
    BY <1>4 DEF StartClean, TypeOK
  <2>2. call' \in API!Calls /\ call'.op = "clean"
    BY <2>1 DEF API!Calls, API!CleanCall
  <2>3. TypeOK' /\ Linked' /\ Counting'
    BY <2>1, <2>2, ListKept
  <2> QED BY <2>1, <2>2, <2>3 DEF SearchOnTrack, Serving, Collecting, KeyOps
<1> QED BY <1>2, <1>3, <1>4 DEF Start

LEMMA SearchInv == Inv /\ (Forward \/ Down \/ Land) => Inv'
<1> SUFFICES ASSUME Inv, Forward \/ Down \/ Land PROVE Inv'
  OBVIOUS
<1> USE DEF Inv
<1>1. /\ pc = "search" /\ call.op \in KeyOps /\ call.key \in MapKeys /\ call.key \in Nat
      /\ MaxLevel \in Nat \ {0} /\ i \in 0 .. MaxLevel - 1
      /\ Nodes \subseteq Int
  BY KeyFacts, NodeFacts DEF Forward, Down, Land, TypeOK, Levels
<1>2. node \in Nodes /\ height[node] \in Int /\ height[node] > i /\ node < call.key
  BY <1>1, NodeFacts DEF SearchOnTrack
<1>3. /\ forward[node][i] # null =>
           forward[node][i] \in Nodes /\ forward[node][i] > node /\ height[forward[node][i]] > i
      /\ \A m \in Nodes : m > node /\ height[m] > i =>
           forward[node][i] # null /\ forward[node][i] <= m
      /\ forward[node][i] \in Int
  <2>1. i \in Nat /\ i < height[node]
    BY <1>1, <1>2
  <2> QED BY <1>2, <2>1, LinkFacts
<1>4. \A l \in DOMAIN update :
        /\ update[l] \in Nodes /\ height[update[l]] > l /\ update[l] < call.key
        /\ forward[update[l]][l] # null => forward[update[l]][l] >= call.key
  BY <1>1 DEF SearchOnTrack
<1>5. DOMAIN update = i + 1 .. MaxLevel - 1
  BY <1>1 DEF Serving
<1>6. CASE Forward
  <2>1. /\ node' = forward[node][i] /\ node' # null /\ node' < call.key
        /\ UNCHANGED <<list, call, pc, i, update, result>>
    BY <1>6 DEF Forward, Ahead, ToNext
  <2>2. /\ TypeOK' /\ Linked' /\ Counting'
        /\ forward' = forward /\ height' = height /\ value' = value /\ Nodes' = Nodes
    BY <2>1, ListKept DEF TypeOK
  <2>3. SearchOnTrack'
    BY <1>1, <1>3, <1>4, <2>1, <2>2 DEF SearchOnTrack
  <2> QED BY <1>1, <1>5, <2>1, <2>2, <2>3 DEF Serving, Collecting, KeyOps
<1>7. ASSUME ~Ahead, update' = Noted
      PROVE  /\ DOMAIN update' = i .. MaxLevel - 1
             /\ \A l \in DOMAIN update' :
                  /\ update'[l] \in Nodes /\ height[update'[l]] > l /\ update'[l] < call.key
                  /\ forward[update'[l]][l] # null => forward[update'[l]][l] >= call.key
  <2>1. DOMAIN update' = DOMAIN update \cup {i}
    BY <1>7 DEF Noted
  <2>2. forward[node][i] # null => forward[node][i] >= call.key
    BY <1>1, <1>3, <1>7 DEF Ahead
  <2>3. \A l \in DOMAIN update' : update'[l] = IF l = i THEN node ELSE update[l]
    BY <1>7 DEF Noted
  <2> QED BY <1>1, <1>2, <1>4, <1>5, <2>1, <2>2, <2>3
<1>8. CASE Down
  <2>1. /\ ~Ahead /\ update' = Noted /\ i' = i - 1 /\ i > 0
        /\ UNCHANGED <<list, call, pc, node, result>>
    BY <1>8 DEF Down
  <2>2. i' \in Levels /\ DOMAIN update' = i' + 1 .. MaxLevel - 1
    BY <1>1, <1>7, <2>1 DEF Levels
  <2>3. /\ TypeOK' /\ Linked' /\ Counting'
        /\ forward' = forward /\ height' = height /\ value' = value /\ Nodes' = Nodes
    BY <2>1, <2>2, ListKept DEF TypeOK
  <2>4. SearchOnTrack'
    BY <1>1, <1>2, <1>7, <2>1, <2>3 DEF SearchOnTrack
  <2> QED BY <1>1, <2>1, <2>2, <2>3, <2>4 DEF Serving, Collecting, KeyOps
<1>9. CASE Land
  <2>1. /\ ~Ahead /\ update' = Noted /\ i = 0 /\ pc' = call.op /\ node' = forward[node][0]
        /\ UNCHANGED <<list, call, i, result>>
    BY <1>9 DEF Land
  <2>2. DOMAIN update' = Levels /\ update'[0] = node
    BY <1>1, <1>7, <2>1 DEF Levels, Noted
  <2>3. /\ TypeOK' /\ Linked' /\ Counting'
        /\ forward' = forward /\ height' = height /\ value' = value /\ Nodes' = Nodes
    BY <1>1, <2>1, ListKept DEF TypeOK, KeyOps
  <2>4. SearchOnTrack'
    BY <1>1, <1>7, <2>1, <2>3 DEF SearchOnTrack, KeyOps
  <2>5. Serving'
    BY <1>1, <2>1, <2>2, <2>3 DEF Serving, KeyOps
  <2>6. ASSUME pc' = "scan" PROVE Collecting'
    <3>1. result' = <<>>
      BY <1>1, <2>1 DEF Serving
    <3>2. node' \in DOMAIN value \cup {null} /\ (node' # null => call.key <= node')
      <4>1. forward[node][0] # null => forward[node][0] >= call.key
        BY <1>1, <1>3, <2>1 DEF Ahead
      <4> QED BY <1>1, <1>2, <1>3, <2>1, <4>1, NodeFacts
    <3>3. {m \in DOMAIN value : call.key <= m /\ (node' # null => m < node')} = {}
      BY <1>1, <1>2, <1>3, <2>1, NodeFacts
    <3> QED BY <2>1, <2>3, <2>6, <3>1, <3>2, <3>3 DEF Collecting, InScan
  <2> QED BY <1>1, <2>1, <2>3, <2>4, <2>5, <2>6 DEF Collecting, KeyOps
<1> QED BY <1>6, <1>8, <1>9

------------------------------------------------------------------------------
(* What the search leaves to the operations *)

LEMMA NotedFacts ==
  ASSUME Inv, pc \in KeyOps, NEW l \in Levels
  PROVE  /\ update[l] \in Nodes /\ l < height[update[l]] /\ update[l] < call.key
         /\ l \in DOMAIN forward[update[l]] /\ forward[update[l]][l] \in Int
         /\ forward[update[l]][l] # null =>
              /\ forward[update[l]][l] \in Nodes \ {head}
              /\ forward[update[l]][l] >= call.key /\ height[forward[update[l]][l]] > l
         /\ \A m \in Nodes : m > update[l] /\ height[m] > l =>
              forward[update[l]][l] # null /\ forward[update[l]][l] <= m
<1>1. l \in DOMAIN update /\ TypeOK /\ Linked
  BY DEF Inv, Serving
<1>2. /\ update[l] \in Nodes /\ height[update[l]] > l /\ update[l] < call.key
      /\ forward[update[l]][l] # null => forward[update[l]][l] >= call.key
  BY <1>1 DEF Inv, SearchOnTrack, KeyOps
<1>3. l \in Nat /\ l < height[update[l]]
  BY <1>1, <1>2, NodeFacts DEF Levels
<1> QED BY <1>1, <1>2, <1>3, LinkFacts

(* The search finds the key if the list holds it. *)
LEMMA FoundFacts ==
  ASSUME Inv, pc \in {"put", "get", "del"}
  PROVE  /\ Found <=> call.key \in DOMAIN value
         /\ Found => node = call.key
<1>1. pc \in KeyOps /\ 0 \in Levels /\ node = forward[update[0]][0] /\ TypeOK
  BY NodeFacts DEF KeyOps, Levels, Inv, Serving
<1>2. /\ update[0] \in Nodes /\ update[0] < call.key /\ node \in Int
      /\ node # null => node \in Nodes \ {head} /\ node >= call.key
      /\ \A m \in Nodes : m > update[0] /\ height[m] > 0 => node # null /\ node <= m
  BY <1>1, NotedFacts
<1>3. call.key \in Nat
  BY <1>1, KeyFacts DEF Inv
<1>4. DOMAIN value = Nodes \ {head} /\ Nodes \subseteq Int /\ \A m \in Nodes : height[m] > 0
  BY <1>1, NodeFacts
<1> QED BY <1>2, <1>3, <1>4 DEF Found

(* A call that has been answered leaves nothing to say of its search. *)
LEMMA IdleInv ==
  ASSUME pc' = "idle", TypeOK', Linked', Counting'
  PROVE  Inv'
BY DEF Inv, SearchOnTrack, Serving, Collecting, KeyOps

LEMMA AnswerInv ==
  ASSUME Inv, UNCHANGED list, pc' = "idle", UNCHANGED <<call, i>>
  PROVE  Inv'
BY ListKept, IdleInv DEF Inv, TypeOK

LEMMA OverwriteInv == Inv /\ Overwrite => Inv'
<1> SUFFICES ASSUME Inv, Overwrite PROVE Inv'
  OBVIOUS
<1>1. /\ value' = [value EXCEPT ![node] = call.val] /\ pc' = "idle"
      /\ UNCHANGED <<forward, height, size, call, i>>
  BY DEF Overwrite, Return
<1>2. DOMAIN value' = DOMAIN value /\ Nodes' = Nodes
  BY <1>1 DEF Nodes
<1>3. TypeOK' /\ Linked' /\ Counting'
  BY <1>1, <1>2 DEF Inv, TypeOK, Linked, Counting
<1> QED BY <1>1, <1>3, IdleInv

LEMMA InsertInv == Inv /\ Insert => Inv'
<1> SUFFICES ASSUME Inv, Insert PROVE Inv'
  OBVIOUS
<1> DEFINE key == call.key
<1>1. PICK h \in 1 .. MaxLevel :
        /\ height' = [n \in Nodes \cup {key} |-> IF n = key THEN h ELSE height[n]]
        /\ forward' =
             [n \in Nodes \cup {key} |->
                IF n = key THEN [l \in 0 .. h - 1 |-> forward[update[l]][l]]
                ELSE [l \in DOMAIN forward[n] |->
                        IF LinkedOn(l, h) /\ update[l] = n THEN key ELSE forward[n][l]]]
  BY DEF Insert
<1>2. /\ DOMAIN value' = DOMAIN value \cup {key} /\ size' = size + 1 /\ pc' = "idle"
      /\ UNCHANGED <<call, i>>
  BY DEF Insert, Return
<1>3. /\ TypeOK /\ Linked /\ pc \in KeyOps /\ pc = "put" /\ key \in MapKeys /\ key \in Nat
      /\ key \notin DOMAIN value
  BY KeyFacts, FoundFacts DEF Inv, Insert, KeyOps
<1> HIDE DEF key
<1>4. /\ MaxLevel \in Nat \ {0} /\ Nodes \subseteq Int /\ head \in Nodes /\ head = -1
      /\ DOMAIN value = Nodes \ {head} /\ key \notin Nodes /\ null \notin Nodes
      /\ \A n \in Nodes : height[n] \in 1 .. MaxLevel /\ DOMAIN forward[n] = 0 .. height[n] - 1
  BY <1>3, NodeFacts
<1>5. Nodes' = Nodes \cup {key} /\ key # head /\ key # null /\ Nodes' \subseteq Int /\ key \in Int
  BY <1>1, <1>3, <1>4 DEF Nodes, null
<1>6. /\ height'[key] = h /\ \A n \in Nodes : height'[n] = height[n]
      /\ DOMAIN height' = Nodes'
      /\ \A n \in Nodes' : height'[n] \in 1 .. MaxLevel
  BY <1>1, <1>4, <1>5
<1>7. /\ \A l \in 0 .. h - 1 : forward'[key][l] = forward[update[l]][l]
      /\ DOMAIN forward'[key] = 0 .. h - 1
  BY <1>1
<1>8. \A n \in Nodes :
        /\ DOMAIN forward'[n] = 0 .. height[n] - 1
        /\ \A l \in 0 .. height[n] - 1 :
             forward'[n][l] = IF l < h /\ update[l] = n THEN key ELSE forward[n][l]
  BY <1>1, <1>4 DEF LinkedOn
<1>9. \A l \in 0 .. h - 1 :
        /\ update[l] \in Nodes /\ l < height[update[l]] /\ update[l] < key
        /\ forward[update[l]][l] \in MapKeys \cup {null}
        /\ forward[update[l]][l] \in Int
        /\ forward[update[l]][l] # null =>
             /\ forward[update[l]][l] \in Nodes
             /\ forward[update[l]][l] >= key /\ height[forward[update[l]][l]] > l
        /\ \A m \in Nodes : m > update[l] /\ height[m] > l =>
             forward[update[l]][l] # null /\ forward[update[l]][l] <= m
  <2> TAKE l \in 0 .. h - 1
  <2>1. l \in Levels
    BY <1>4 DEF Levels
  <2>2. /\ update[l] \in Nodes /\ l < height[update[l]] /\ update[l] < key
        /\ forward[update[l]][l] \in Int
        /\ forward[update[l]][l] # null =>
             /\ forward[update[l]][l] \in Nodes \ {head}
             /\ forward[update[l]][l] >= key /\ height[forward[update[l]][l]] > l
        /\ \A m \in Nodes : m > update[l] /\ height[m] > l =>
             forward[update[l]][l] # null /\ forward[update[l]][l] <= m
    BY <1>3, <2>1, NotedFacts DEF key
  <2>3. forward[update[l]][l] \in MapKeys \cup {null}
    <3>1. /\ l \in 0 .. height[update[l]] - 1
          /\ \A n \in Nodes : \A x \in 0 .. height[n] - 1 : forward[n][x] \in MapKeys \cup {null}
      <4>1. \A n \in Nodes : height[n] \in Nat
        BY <1>4
      <4>2. \A n \in Nodes : \A x \in 0 .. height[n] - 1 : forward[n][x] \in MapKeys \cup {null}
        BY <1>3, NodeFacts
      <4>3. height[update[l]] \in Nat
        BY <2>2, <4>1
      <4> QED BY <2>2, <4>2, <4>3
    <3> QED BY <2>2, <3>1
  <2> QED BY <2>2, <2>3
<1>10. TypeOK'
  <2>1. \A n \in Nodes' : forward'[n] \in [0 .. height'[n] - 1 -> MapKeys \cup {null}]
    <3>1. forward'[key] \in [0 .. h - 1 -> MapKeys \cup {null}]
      BY <1>1, <1>9
    <3>2. ASSUME NEW n \in Nodes
          PROVE  forward'[n] \in [0 .. height[n] - 1 -> MapKeys \cup {null}]
      <4>1. \A l \in 0 .. height[n] - 1 : forward[n][l] \in MapKeys \cup {null}
        BY <1>3, NodeFacts
      <4>2. forward'[n] = [l \in DOMAIN forward[n] |->
                             IF LinkedOn(l, h) /\ update[l] = n THEN key ELSE forward[n][l]]
        BY <1>1, <1>4
      <4> QED BY <1>3, <1>4, <4>1, <4>2
    <3> QED BY <1>4, <1>5, <1>6, <3>1, <3>2
  <2>2. height' \in [Nodes' -> 1 .. MaxLevel] /\ height'[head] = MaxLevel
    BY <1>1, <1>3, <1>4, <1>5, <1>6 DEF TypeOK
  <2>3. head \in Nodes' /\ Nodes' \subseteq MapKeys \cup {head} /\ DOMAIN value' = Nodes' \ {head}
    BY <1>2, <1>3, <1>4, <1>5 DEF TypeOK
  <2>4. /\ size' \in Nat /\ pc' = "idle" /\ call' \in API!Calls \cup {API!NoCall}
        /\ i' \in Levels
    BY <1>2, <1>3 DEF TypeOK
  <2> QED BY <2>1, <2>2, <2>3, <2>4 DEF TypeOK, head, Levels
<1>11. Linked'
  <2>1. SUFFICES ASSUME NEW n \in Nodes', NEW l \in 0 .. height'[n] - 1
                 PROVE  /\ forward'[n][l] # null =>
                             /\ forward'[n][l] \in Nodes' /\ forward'[n][l] > n
                             /\ height'[forward'[n][l]] > l
                        /\ \A m \in Nodes' : m > n /\ height'[m] > l =>
                             forward'[n][l] # null /\ forward'[n][l] <= m
    BY DEF Linked, null
  <2>2. CASE n = key
    <3>1. l \in 0 .. h - 1 /\ l \in Int /\ forward'[n][l] = forward[update[l]][l]
      BY <1>6, <1>7, <2>2
    <3>2. forward'[n][l] # null => forward'[n][l] \in Nodes /\ forward'[n][l] > key
                                   /\ height'[forward'[n][l]] > l
      <4>1. ASSUME forward[update[l]][l] # null
            PROVE  /\ forward[update[l]][l] \in Nodes /\ forward[update[l]][l] >= key
                   /\ forward[update[l]][l] # key /\ height'[forward[update[l]][l]] > l
        BY <1>4, <1>6, <1>9, <3>1, <4>1
      <4>2. forward[update[l]][l] \in Int
        BY <1>9, <3>1
      <4> QED BY <1>5, <3>1, <4>1, <4>2
    <3>3. ASSUME NEW m \in Nodes', m > key, height'[m] > l
          PROVE  forward'[n][l] # null /\ forward'[n][l] <= m
      <4>1. m \in Nodes /\ height[m] > l /\ m > update[l]
        <5>1. m \in Nodes /\ height[m] > l /\ m \in Int
          BY <1>5, <1>6, <3>3
        <5>2. update[l] \in Int /\ update[l] < key
          BY <1>4, <1>9, <3>1
        <5> QED BY <1>5, <3>3, <5>1, <5>2
      <4> QED BY <1>9, <3>1, <4>1
    <3> QED BY <1>5, <2>2, <3>2, <3>3
  <2>3. CASE n # key
    <3>1. /\ n \in Nodes /\ n \in Int /\ l \in Nat /\ l < height[n] /\ l \in 0 .. height[n] - 1
          /\ height[n] \in Nat
      <4>1. n \in Nodes /\ height'[n] = height[n]
        BY <1>5, <1>6, <2>3
      <4>2. height[n] \in Nat /\ l \in 0 .. height[n] - 1 /\ n \in Int
        BY <1>4, <4>1
      <4> QED BY <4>1, <4>2
    <3>2. /\ forward[n][l] \in Int
          /\ forward[n][l] # null =>
               /\ forward[n][l] \in Nodes /\ forward[n][l] > n /\ height[forward[n][l]] > l
          /\ \A m \in Nodes : m > n /\ height[m] > l => forward[n][l] # null /\ forward[n][l] <= m
      BY <1>3, <3>1, LinkFacts
    <3>3. CASE l < h /\ update[l] = n
      <4>1. forward'[n][l] = key /\ l \in 0 .. h - 1 /\ n < key
        BY <1>8, <1>9, <3>1, <3>3
      <4>2. ASSUME NEW m \in Nodes', m > n, height'[m] > l
            PROVE  key <= m
        <5>1. CASE m = key
          BY <1>3, <5>1
        <5>2. CASE m # key
          <6>1. m \in Nodes /\ height[m] > l
            BY <1>5, <1>6, <4>2, <5>2
          <6>2. forward[n][l] \in Int /\ forward[n][l] >= key /\ forward[n][l] <= m
            BY <1>9, <3>3, <4>1, <4>2, <6>1
          <6>3. m \in Int
            BY <1>5
          <6> QED BY <1>5, <6>2, <6>3
        <5> QED BY <5>1, <5>2
      <4> QED BY <1>5, <1>6, <3>3, <4>1, <4>2
    <3>4. CASE ~(l < h /\ update[l] = n)
      <4>1. forward'[n][l] = forward[n][l]
        BY <1>8, <3>1, <3>4
      <4>2. ASSUME NEW m \in Nodes', m > n, height'[m] > l
            PROVE  forward[n][l] # null /\ forward[n][l] <= m
        <5>1. CASE m = key
          <6>1. l \in 0 .. h - 1 /\ update[l] # n
            BY <1>6, <3>1, <3>4, <4>2, <5>1
          <6>2. update[l] \in Nodes /\ update[l] < key /\ l < height[update[l]]
            BY <1>9, <6>1
          <6>3. CASE n < update[l]
            <7>1. forward[n][l] # null /\ forward[n][l] <= update[l]
              BY <3>2, <6>2, <6>3
            <7>2. update[l] \in Int
              BY <1>4, <6>2
            <7> QED BY <1>5, <3>2, <5>1, <6>2, <7>1, <7>2
          <6>4. CASE update[l] < n
            <7>1. forward[update[l]][l] # null /\ forward[update[l]][l] <= n
              BY <1>9, <3>1, <6>1, <6>4
            <7>2. forward[update[l]][l] >= key /\ forward[update[l]][l] \in Int
              BY <1>9, <6>1, <7>1
            <7> QED BY <1>5, <3>1, <4>2, <5>1, <7>1, <7>2
          <6>5. update[l] \in Int
            BY <1>4, <6>2
          <6> QED BY <3>1, <6>1, <6>3, <6>4, <6>5
        <5>2. CASE m # key
          BY <1>5, <1>6, <3>2, <4>2, <5>2
        <5> QED BY <5>1, <5>2
      <4> QED BY <1>5, <1>6, <3>2, <4>1, <4>2
    <3> QED BY <3>3, <3>4
  <2> QED BY <2>2, <2>3
<1>12. Counting'
  <2>1. IsFiniteSet(DOMAIN value') /\ size' = Cardinality(DOMAIN value')
    BY <1>2, <1>3, FS_AddElement DEF Inv, Counting
  <2>2. value' = [n \in DOMAIN value' |-> value'[n]]
    BY DEF Insert
  <2> QED BY <2>1, <2>2 DEF Counting
<1> QED BY <1>2, <1>10, <1>11, <1>12, IdleInv

LEMMA DelInv == Inv /\ DelFound => Inv'
<1> SUFFICES ASSUME Inv, DelFound PROVE Inv'
  OBVIOUS
<1> DEFINE key == call.key
<1>1. /\ TypeOK /\ Linked /\ pc \in KeyOps /\ key \in Nat /\ node = key /\ key \in DOMAIN value
  BY KeyFacts, FoundFacts DEF Inv, DelFound, KeyOps
<1>2. /\ height' = [n \in Nodes \ {key} |-> height[n]]
      /\ forward' =
           [n \in Nodes \ {key} |->
              [l \in DOMAIN forward[n] |->
                 IF update[l] = n /\ Unlinked(l) THEN forward[key][l] ELSE forward[n][l]]]
      /\ value' = [m \in DOMAIN value \ {key} |-> value[m]]
  BY <1>1 DEF DelFound
<1>3. size' = size - 1 /\ pc' = "idle" /\ UNCHANGED <<call, i>>
  BY DEF DelFound, Return
<1>4. \A l \in Levels :
        /\ update[l] \in Nodes /\ l < height[update[l]] /\ update[l] < key
        /\ forward[update[l]][l] \in Int
        /\ forward[update[l]][l] # null => forward[update[l]][l] >= key
        /\ \A m \in Nodes : m > update[l] /\ height[m] > l =>
             forward[update[l]][l] # null /\ forward[update[l]][l] <= m
  BY <1>1, NotedFacts
<1> HIDE DEF key
<1>5. /\ MaxLevel \in Nat \ {0} /\ Nodes \subseteq Int /\ head \in Nodes /\ head = -1
      /\ DOMAIN value = Nodes \ {head} /\ null \notin Nodes
      /\ \A n \in Nodes : height[n] \in 1 .. MaxLevel /\ DOMAIN forward[n] = 0 .. height[n] - 1
      /\ \A n \in Nodes : height[n] \in Nat
      /\ \A n \in Nodes : \A l \in 0 .. height[n] - 1 : forward[n][l] \in MapKeys \cup {null}
  BY <1>1, NodeFacts
<1>6. /\ Nodes' = Nodes \ {key} /\ key \in Nodes /\ key # head
      /\ \A n \in Nodes' : height'[n] = height[n] /\ n \in Nodes /\ n \in Int
  BY <1>1, <1>2, <1>5 DEF Nodes
<1>7. \A l \in 0 .. height[key] - 1 : l \in Levels /\ forward[update[l]][l] = key
  <2> TAKE l \in 0 .. height[key] - 1
  <2>1. l \in Levels /\ height[key] > l
    <3>1. height[key] \in 1 .. MaxLevel
      BY <1>5, <1>6
    <3> QED BY <1>5, <3>1 DEF Levels
  <2>2. /\ forward[update[l]][l] # null /\ forward[update[l]][l] <= key
        /\ forward[update[l]][l] >= key /\ forward[update[l]][l] \in Int
    <3>1. update[l] < key
      BY <1>4, <2>1
    <3> QED BY <1>1, <1>4, <1>6, <2>1, <3>1
  <2> QED BY <1>1, <2>1, <2>2
<1>8. \A l \in 0 .. height[key] - 1 : Unlinked(l)
  <2> TAKE l \in 0 .. height[key] - 1
  <2>1. height[key] \in Nat
    BY <1>5, <1>6
  <2>2. \A m \in 0 .. l : m \in 0 .. height[key] - 1
    BY <2>1
  <2> QED BY <1>1, <1>7, <2>2 DEF Unlinked
(* Exactly the links to the node that goes are changed. *)
<1>9. ASSUME NEW n \in Nodes', NEW l \in 0 .. height[n] - 1
      PROVE  forward'[n][l] = IF forward[n][l] = key THEN forward[key][l] ELSE forward[n][l]
  <2>1. n \in Nodes /\ n # key /\ l \in Nat /\ l < height[n] /\ l \in DOMAIN forward[n]
    BY <1>5, <1>6
  <2>2. forward'[n][l] = IF update[l] = n /\ Unlinked(l) THEN forward[key][l] ELSE forward[n][l]
    BY <1>2, <1>6, <2>1
  <2>3. /\ forward[n][l] # null =>
             forward[n][l] \in Nodes /\ forward[n][l] > n /\ height[forward[n][l]] > l
        /\ \A m \in Nodes : m > n /\ height[m] > l => forward[n][l] # null /\ forward[n][l] <= m
    BY <1>1, <2>1, LinkFacts
  <2>4. CASE forward[n][l] = key
    <3>1. l \in 0 .. height[key] - 1 /\ key > n
      <4>1. height[key] \in Nat /\ height[key] > l /\ key > n
        BY <1>5, <1>6, <2>3, <2>4
      <4> QED BY <2>1, <4>1
    <3>2. /\ update[l] \in Nodes /\ update[l] \in Int /\ update[l] < key /\ l < height[update[l]]
          /\ forward[update[l]][l] = key /\ Unlinked(l)
          /\ \A m \in Nodes : m > update[l] /\ height[m] > l => forward[update[l]][l] <= m
      BY <1>4, <1>5, <1>7, <1>8, <3>1
    <3>3. ~(n < update[l])
      BY <1>1, <2>3, <2>4, <3>2
    <3>4. ~(update[l] < n)
      BY <1>1, <1>6, <2>1, <3>1, <3>2
    <3> QED BY <1>6, <2>2, <2>4, <3>2, <3>3, <3>4
  <2>5. CASE forward[n][l] # key
    <3>1. ~(update[l] = n /\ Unlinked(l))
      BY <1>1, <2>1, <2>5 DEF Unlinked
    <3> QED BY <2>2, <2>5, <3>1
  <2> QED BY <2>4, <2>5
<1>10. Counting'
  BY <1>1, <1>2, <1>3, FS_RemoveElement DEF Inv, Counting
<1>11. TypeOK'
  <2>1. \A n \in Nodes' : forward'[n] \in [0 .. height'[n] - 1 -> MapKeys \cup {null}]
    <3> TAKE n \in Nodes'
    <3>1. /\ DOMAIN forward'[n] = 0 .. height[n] - 1 /\ height'[n] = height[n]
          /\ forward'[n] = [l \in 0 .. height[n] - 1 |-> forward'[n][l]]
      BY <1>2, <1>5, <1>6
    <3>2. \A l \in 0 .. height[n] - 1 : forward'[n][l] \in MapKeys \cup {null}
      <4> TAKE l \in 0 .. height[n] - 1
      <4>1. forward[n][l] \in MapKeys \cup {null}
        BY <1>5, <1>6
      <4>2. ASSUME forward[n][l] = key PROVE forward[key][l] \in MapKeys \cup {null}
        <5>1. l \in Nat /\ l < height[n] /\ n \in Nodes /\ forward[n][l] # null
          BY <1>1, <1>5, <1>6, <4>2 DEF null
        <5>2. height[key] > l
          BY <1>1, <4>2, <5>1, LinkFacts
        <5>3. height[key] \in Nat /\ l \in 0 .. height[key] - 1
          BY <1>5, <1>6, <5>1, <5>2
        <5> QED BY <1>5, <1>6, <5>3
      <4> QED BY <1>9, <4>1, <4>2
    <3> QED BY <3>1, <3>2
  <2>2. height' \in [Nodes' -> 1 .. MaxLevel] /\ height'[head] = MaxLevel
    BY <1>1, <1>2, <1>5, <1>6 DEF TypeOK
  <2>3. head \in Nodes' /\ Nodes' \subseteq MapKeys \cup {head} /\ DOMAIN value' = Nodes' \ {head}
    BY <1>1, <1>2, <1>5, <1>6 DEF TypeOK
  <2>4. size' \in Nat
    BY <1>10, FS_CardinalityType DEF Counting
  <2>5. pc' = "idle" /\ call' \in API!Calls \cup {API!NoCall} /\ i' \in Levels
    BY <1>1, <1>3 DEF TypeOK
  <2> QED BY <2>1, <2>2, <2>3, <2>4, <2>5 DEF TypeOK, head, Levels
<1>12. Linked'
  <2>1. SUFFICES ASSUME NEW n \in Nodes', NEW l \in 0 .. height'[n] - 1
                 PROVE  /\ forward'[n][l] # null =>
                             /\ forward'[n][l] \in Nodes' /\ forward'[n][l] > n
                             /\ height'[forward'[n][l]] > l
                        /\ \A m \in Nodes' : m > n /\ height'[m] > l =>
                             forward'[n][l] # null /\ forward'[n][l] <= m
    BY DEF Linked, null
  <2>2. n \in Nodes /\ n # key /\ n \in Int /\ l \in 0 .. height[n] - 1 /\ l \in Nat /\ l < height[n]
    <3>1. n \in Nodes /\ n # key /\ n \in Int /\ height'[n] = height[n]
      BY <1>6
    <3>2. height[n] \in Nat
      BY <1>5, <3>1
    <3> QED BY <3>1, <3>2
  <2>3. /\ forward[n][l] # null =>
             forward[n][l] \in Nodes /\ forward[n][l] > n /\ height[forward[n][l]] > l
        /\ \A m \in Nodes : m > n /\ height[m] > l => forward[n][l] # null /\ forward[n][l] <= m
    BY <1>1, <2>2, LinkFacts
  <2>4. CASE forward[n][l] # key
    <3>1. forward'[n][l] = forward[n][l]
      BY <1>9, <2>2, <2>4
    <3> QED BY <1>6, <2>3, <2>4, <3>1
  <2>5. CASE forward[n][l] = key
    <3>1. forward'[n][l] = forward[key][l]
      BY <1>9, <2>2, <2>5
    <3>2. key > n /\ height[key] > l /\ key # null
      BY <1>5, <1>6, <2>3, <2>5
    <3>3. /\ forward[key][l] \in Int
          /\ forward[key][l] # null =>
               /\ forward[key][l] \in Nodes /\ forward[key][l] > key
               /\ height[forward[key][l]] > l
          /\ \A m \in Nodes : m > key /\ height[m] > l =>
               forward[key][l] # null /\ forward[key][l] <= m
      BY <1>1, <1>6, <2>2, <3>2, LinkFacts
    <3>4. ASSUME NEW m \in Nodes', m > n, height'[m] > l
          PROVE  forward[key][l] # null /\ forward[key][l] <= m
      <4>1. m \in Nodes /\ m # key /\ m \in Int /\ height[m] > l
        BY <1>6, <3>4
      <4>2. key <= m
        BY <2>3, <2>5, <3>4, <4>1
      <4> QED BY <1>1, <3>3, <4>1, <4>2
    <3>5. ASSUME forward[key][l] # null
          PROVE  forward[key][l] \in Nodes' /\ forward[key][l] > n /\ height'[forward[key][l]] > l
      <4>1. forward[key][l] \in Nodes /\ forward[key][l] > key /\ forward[key][l] # key
        BY <1>1, <3>3, <3>5
      <4> QED BY <1>1, <1>6, <2>2, <3>2, <3>3, <3>5, <4>1
    <3> QED BY <3>1, <3>4, <3>5
  <2> QED BY <2>4, <2>5
<1> QED BY <1>3, <1>10, <1>11, <1>12, IdleInv

LEMMA CollectInv == Inv /\ Collect => Inv'
<1> SUFFICES ASSUME Inv, Collect PROVE Inv'
  OBVIOUS
<1>1. /\ TypeOK /\ Linked /\ pc \in {"scan", "list"} /\ pc' = pc /\ UNCHANGED <<call, i, update, list>>
      /\ node # null /\ (call.op = "scan" => node <= call.end)
      /\ result' = Append(result, <<node, value[node]>>)
      /\ node' = forward[node][0]
  BY DEF Inv, Collect, Wanted
<1>2. /\ TypeOK' /\ Linked' /\ Counting'
      /\ forward' = forward /\ height' = height /\ value' = value /\ Nodes' = Nodes
  BY <1>1, ListKept DEF Inv, TypeOK
<1>3. SearchOnTrack' /\ Serving'
  BY <1>1, <1>2 DEF Inv, SearchOnTrack, Serving, KeyOps
<1> DEFINE S == {<<n, value[n]>> : n \in DOMAIN value}
<1>4. /\ node \in DOMAIN value
      /\ pc = "scan" => call.key <= node
      /\ result \in Seq(S)
      /\ \A a, b \in DOMAIN result : a < b => result[a][1] < result[b][1]
      /\ {result[a] : a \in DOMAIN result} =
           {<<n, value[n]>> : n \in {m \in DOMAIN value : InScan(m)}}
      /\ pc = "scan" => \A a \in DOMAIN result : result[a][1] <= call.end
  BY <1>1 DEF Inv, Collecting
<1>5. /\ DOMAIN value \subseteq Nat /\ node \in Nodes /\ node \in Nat /\ height[node] > 0
      /\ DOMAIN value = Nodes \ {head} /\ null \notin DOMAIN value
      /\ \A m \in DOMAIN value : m \in Nodes /\ height[m] > 0
  BY <1>1, <1>4, NodeFacts
<1>6. /\ node' \in Int
      /\ node' # null => node' \in DOMAIN value /\ node' > node
      /\ \A m \in DOMAIN value : m > node => node' # null /\ node' <= m
  <2>1. 0 \in Nat /\ 0 < height[node]
    BY <1>1, <1>5, NodeFacts
  <2> QED BY <1>1, <1>5, <2>1, LinkFacts
<1>7. pc = "scan" => call.op = "scan" /\ call.key \in Nat /\ call.end \in Nat
  BY KeyFacts DEF Inv, KeyOps
<1> DEFINE e == <<node, value[node]>>
           n0 == Len(result)
<1>8. /\ e \in S /\ n0 \in Nat /\ DOMAIN result = 1 .. n0
      /\ result' \in Seq(S) /\ DOMAIN result' = 1 .. n0 + 1
      /\ \A a \in 1 .. n0 : result'[a] = result[a]
      /\ result'[n0 + 1] = e
  <2>1. e \in S
    BY <1>4
  <2> HIDE DEF S, e
  <2>2. n0 \in Nat /\ DOMAIN result = 1 .. n0
    BY <1>4, LenProperties
  <2>3. /\ result' \in Seq(S) /\ Len(result') = n0 + 1
        /\ \A a \in 1 .. n0 : result'[a] = result[a]
        /\ result'[n0 + 1] = e
    BY <1>1, <1>4, <2>1, AppendProperties DEF e
  <2>4. DOMAIN result' = 1 .. n0 + 1
    BY <2>3, LenProperties
  <2> QED BY <2>1, <2>2, <2>3, <2>4
<1>9. \A a \in DOMAIN result : result[a][1] \in DOMAIN value /\ result[a][1] < node
  <2> TAKE a \in DOMAIN result
  <2>1. result[a] \in {<<n, value[n]>> : n \in {m \in DOMAIN value : InScan(m)}}
    BY <1>4
  <2>2. PICK n \in DOMAIN value : InScan(n) /\ result[a] = <<n, value[n]>>
    BY <2>1
  <2> QED BY <1>1, <2>2 DEF InScan
<1> HIDE DEF n0
<1>10. \A a, b \in DOMAIN result' : a < b => result'[a][1] < result'[b][1]
  <2> SUFFICES ASSUME NEW a \in 1 .. n0 + 1, NEW b \in 1 .. n0 + 1, a < b
               PROVE  result'[a][1] < result'[b][1]
    BY <1>8
  <2>1. a \in 1 .. n0 /\ result'[a] = result[a]
    BY <1>8
  <2>2. CASE b \in 1 .. n0
    BY <1>4, <1>8, <2>1, <2>2
  <2>3. CASE b = n0 + 1
    <3>1. result'[b][1] = node
      BY <1>8, <2>3
    <3> QED BY <1>8, <1>9, <2>1, <3>1
  <2> QED BY <1>8, <2>2, <2>3
<1>11. pc' = "scan" => \A a \in DOMAIN result' : result'[a][1] <= call'.end
  <2> SUFFICES ASSUME pc = "scan", NEW a \in 1 .. n0 + 1
               PROVE  result'[a][1] <= call.end
    BY <1>1, <1>8
  <2>1. CASE a \in 1 .. n0
    BY <1>4, <1>8, <2>1
  <2>2. CASE a = n0 + 1
    BY <1>1, <1>7, <1>8, <2>2
  <2> QED BY <1>8, <2>1, <2>2
<1>12. \A m \in DOMAIN value : InScan(m)' <=> InScan(m) \/ m = node
  <2> TAKE m \in DOMAIN value
  <2>1. InScan(m) <=> (pc = "scan" => call.key <= m) /\ m < node
    BY <1>1 DEF InScan
  <2>2. InScan(m)' <=> (pc = "scan" => call.key <= m) /\ (node' # null => m < node')
    BY <1>1 DEF InScan, null
  <2>3. m \in Nat
    BY <1>5
  <2> QED BY <1>4, <1>5, <1>6, <2>1, <2>2, <2>3
<1>13. {result'[a] : a \in DOMAIN result'} =
         {<<n, value[n]>> : n \in {m \in DOMAIN value : InScan(m)'}}
  <2> HIDE DEF e
  <2>1. {result'[a] : a \in DOMAIN result'} = {result[a] : a \in DOMAIN result} \cup {e}
    <3>1. ASSUME NEW a \in 1 .. n0 + 1
          PROVE  result'[a] = e \/ (a \in 1 .. n0 /\ result'[a] = result[a])
      BY <1>8
    <3>2. n0 + 1 \in 1 .. n0 + 1 /\ 1 .. n0 \subseteq 1 .. n0 + 1
      BY <1>8
    <3> QED BY <1>8, <3>1, <3>2
  <2>2. {m \in DOMAIN value : InScan(m)'} = {m \in DOMAIN value : InScan(m)} \cup {node}
    BY <1>4, <1>12
  <2> QED BY <1>4, <2>1, <2>2 DEF e
<1>14. Collecting'
  <2>1. node' \in DOMAIN value' \cup {null} /\ (pc' = "scan" /\ node' # null => call'.key <= node')
    BY <1>1, <1>2, <1>4, <1>5, <1>6, <1>7
  <2>2. result' \in Seq({<<n, value'[n]>> : n \in DOMAIN value'})
    BY <1>2, <1>8
  <2>3. {result'[a] : a \in DOMAIN result'} =
          {<<n, value'[n]>> : n \in {m \in DOMAIN value' : InScan(m)'}}
    BY <1>2, <1>13
  <2> QED BY <1>1, <1>10, <1>11, <2>1, <2>2, <2>3 DEF Collecting, null
<1> QED BY <1>2, <1>3, <1>14 DEF Inv

LEMMA CleanInv == Inv /\ Clean => Inv'
<1> SUFFICES ASSUME Inv, Clean PROVE Inv'
  OBVIOUS
<1>1. /\ forward' = [n \in {-1} |-> [l \in 0 .. MaxLevel - 1 |-> -2]]
      /\ height' = [n \in {-1} |-> MaxLevel] /\ value' = [n \in {} |-> Empty]
      /\ size' = 0 /\ pc' = "idle" /\ UNCHANGED <<call, i>>
  BY DEF Clean, NewHead, Return, head, null, Levels
<1>2. TypeOK'
  BY <1>1, SkipListAssumption DEF Inv, TypeOK, head, null, Nodes, Levels
<1>3. Linked'
  BY <1>1, SkipListAssumption DEF Linked, Nodes, null
<1>4. Counting'
  BY <1>1, FS_EmptySet DEF Counting
<1> QED BY <1>1, <1>2, <1>3, <1>4, IdleInv

LEMMA NextInv == Inv /\ [ListNext]_listVars => Inv'
<1> SUFFICES ASSUME Inv, [ListNext]_listVars PROVE Inv'
  OBVIOUS
<1>1. CASE Get \/ DelNothing \/ Collected
  BY <1>1, AnswerInv DEF Get, DelNothing, Collected, Return
<1>2. CASE UNCHANGED listVars
  <2>1. TypeOK' /\ Linked'
    BY <1>2 DEF listVars, list, Inv, TypeOK, Linked, Nodes, Levels, head, null
  <2>2. SearchOnTrack' /\ Counting'
    BY <1>2 DEF listVars, list, Inv, SearchOnTrack, Counting, Nodes, Levels, InScan, head, null
  <2>3. Serving' /\ Collecting'
    BY <1>2 DEF listVars, list, Inv, Serving, Collecting, Nodes, Levels, InScan, head, null
  <2> QED BY <2>1, <2>2, <2>3 DEF Inv
<1> QED BY <1>1, <1>2, StartInv, SearchInv, OverwriteInv, InsertInv, DelInv, CollectInv, CleanInv
        DEF ListNext, Serve

(* On every level the list stays ascending and part of the level below,     *)
(* whichever heights are drawn (skiplist_type::put and del).                *)
THEOREM LevelsStayLinked == ListSpec => []Linked
<1>1. Inv => Linked
  BY DEF Inv
<1> QED BY <1>1, InitInv, NextInv, PTL DEF ListSpec

(* No search leaves its node's levels or notes a node that is not where the *)
(* key belongs.                                                             *)
THEOREM SearchesOnTrack == ListSpec => []SearchOnTrack
<1>1. Inv => SearchOnTrack
  BY DEF Inv
<1> QED BY <1>1, InitInv, NextInv, PTL DEF ListSpec

------------------------------------------------------------------------------
(* The refinement *)

LEMMA InitMaps == ListInit => API!Init
BY FS_EmptySet DEF ListInit, API!Init, API!Reply

LEMMA StartMaps == Inv /\ Start => API!Take
<1> SUFFICES ASSUME Inv, Start PROVE API!Take
  OBVIOUS
<1>1. pc = "idle" /\ pc' # "idle" /\ call' \in API!Calls /\ value' = value /\ size' = size
  BY DEF Start, StartSearch, StartList, StartClean, API!Calls, API!ListCall, API!CleanCall, list
<1> QED BY <1>1 DEF API!Take, API!NoReply

(* The steps of a search and of a listing change nothing a caller sees. *)
LEMMA SearchMaps ==
  Inv /\ (Forward \/ Down \/ Land \/ Collect) => UNCHANGED API!mapVars
<1> SUFFICES ASSUME Inv, Forward \/ Down \/ Land \/ Collect
             PROVE  UNCHANGED API!mapVars
  OBVIOUS
<1>1. pc # "idle" /\ pc' # "idle" /\ call' = call /\ value' = value /\ size' = size
  BY KeyFacts DEF Forward, Down, Land, Collect, list, Inv, KeyOps
<1> QED BY <1>1 DEF API!mapVars

(* The step that returns is the map's answer to the call. *)
LEMMA AnswerMaps ==
  ASSUME Inv, Inv', pc # "idle", pc' = "idle", UNCHANGED call,
         API!Put \/ API!Get \/ API!Del \/ API!Scan \/ API!List \/ API!Clean
  PROVE  API!Answer
<1>1. size' = Cardinality(DOMAIN value')
  BY DEF Inv, Counting
<1>2. API!Cardinality(DOMAIN value') = Cardinality(DOMAIN value')
  BY DEF API!Cardinality, Cardinality
<1> QED BY <1>1, <1>2 DEF API!Answer

LEMMA PutMaps == Inv /\ (Overwrite \/ Insert) => API!Put
<1> SUFFICES ASSUME Inv, Overwrite \/ Insert PROVE API!Put
  OBVIOUS
<1>1. pc = "put" /\ call.op = "put" /\ pc' = "idle" /\ result' = Empty
  BY KeyFacts DEF Overwrite, Insert, Return, Inv, KeyOps
<1>2. value' = [n \in DOMAIN value \cup {call.key} |-> IF n = call.key THEN call.val ELSE value[n]]
  <2>1. CASE Overwrite
    <3>1. node = call.key /\ call.key \in DOMAIN value
      BY <1>1, <2>1, FoundFacts DEF Overwrite
    <3> QED BY <2>1, <3>1 DEF Overwrite
  <2>2. CASE Insert
    BY <2>2 DEF Insert
  <2> QED BY <2>1, <2>2
<1> QED BY <1>1, <1>2 DEF API!Put, API!Reply

LEMMA GetMaps == Inv /\ Get => API!Get
<1> SUFFICES ASSUME Inv, Get PROVE API!Get
  OBVIOUS
<1>1. pc = "get" /\ call.op = "get" /\ pc' = "idle" /\ value' = value
  BY KeyFacts DEF Get, Return, Inv, KeyOps, list
<1>2. result' = IF call.key \in DOMAIN value THEN value[call.key] ELSE Empty
  BY <1>1, FoundFacts DEF Get, Return
<1> QED BY <1>1, <1>2 DEF API!Get, API!Reply

LEMMA DelMaps == Inv /\ (DelFound \/ DelNothing) => API!Del
<1> SUFFICES ASSUME Inv, DelFound \/ DelNothing PROVE API!Del
  OBVIOUS
<1>1. pc = "del" /\ call.op = "del" /\ pc' = "idle"
  BY KeyFacts DEF DelFound, DelNothing, Return, Inv, KeyOps
<1>2. CASE DelFound
  <2>1. node = call.key /\ call.key \in DOMAIN value
    BY <1>1, <1>2, FoundFacts DEF DelFound
  <2>2. result' = TRUE /\ value' = [n \in DOMAIN value \ {call.key} |-> value[n]]
    BY <1>2, <2>1 DEF DelFound, Return
  <2> QED BY <1>1, <2>1, <2>2 DEF API!Del, API!Reply
<1>3. CASE DelNothing
  <2>1. call.key \notin DOMAIN value
    BY <1>1, <1>3, FoundFacts DEF DelNothing
  <2>2. result' = FALSE /\ value' = value
    BY <1>3 DEF DelNothing, Return, list
  <2>3. value = [n \in DOMAIN value \ {call.key} |-> value[n]]
    <3>1. DOMAIN value \ {call.key} = DOMAIN value
      BY <2>1
    <3>2. value = [n \in DOMAIN value |-> value[n]]
      BY DEF Inv, Counting
    <3> QED BY <3>1, <3>2
  <2>4. (call.key \in DOMAIN value) = FALSE
    BY <2>1
  <2>5. [done |-> TRUE, result |-> result'] = API!Reply(call.key \in DOMAIN value)
    BY <2>2, <2>4 DEF API!Reply
  <2> QED BY <1>1, <2>2, <2>3, <2>5 DEF API!Del
<1> QED BY <1>2, <1>3

LEMMA CollectedMaps == Inv /\ Collected => API!Scan \/ API!List
<1> SUFFICES ASSUME Inv, Collected PROVE API!Scan \/ API!List
  OBVIOUS
<1>1. /\ pc \in {"scan", "list"} /\ call.op = pc /\ ~Wanted
      /\ pc' = "idle" /\ result' = result /\ value' = value
  BY DEF Collected, Return, Inv, Serving, KeyOps, list
<1>2. /\ node \in DOMAIN value \cup {null}
      /\ \A a, b \in DOMAIN result : a < b => result[a][1] < result[b][1]
      /\ {result[a] : a \in DOMAIN result} =
           {<<n, value[n]>> : n \in {m \in DOMAIN value : InScan(m)}}
      /\ pc = "scan" => \A a \in DOMAIN result : result[a][1] <= call.end
  BY <1>1 DEF Inv, Collecting
<1>3. DOMAIN value \subseteq Nat /\ null \notin DOMAIN value
  BY NodeFacts DEF Inv
<1>4. CASE pc = "scan"
  <2>1. call.end \in Nat /\ (node # null => node > call.end)
    <3>1. call.end \in Nat
      BY <1>4, KeyFacts DEF Inv, KeyOps
    <3> QED BY <1>1, <1>2, <1>3, <1>4, <3>1 DEF Wanted
  <2>2. ASSUME NEW m \in DOMAIN value
        PROVE  InScan(m) <=> call.key <= m /\ m <= call.end
    <3>1. ASSUME InScan(m) PROVE m <= call.end
      <4>1. <<m, value[m]>> \in {result[a] : a \in DOMAIN result}
        BY <1>2, <3>1
      <4>2. PICK a \in DOMAIN result : result[a] = <<m, value[m]>>
        BY <4>1
      <4> QED BY <1>2, <1>4, <4>2
    <3>2. ASSUME m <= call.end, node # null PROVE m < node
      BY <1>2, <1>3, <2>1, <3>2
    <3> QED BY <1>4, <3>1, <3>2 DEF InScan
  <2>3. {m \in DOMAIN value : InScan(m)} =
          {m \in DOMAIN value : call.key <= m /\ m <= call.end}
    BY <2>2
  <2>4. API!IsListing(result, {m \in DOMAIN value : call.key <= m /\ m <= call.end})
    BY <1>2, <2>3 DEF API!IsListing
  <2> QED BY <1>1, <1>4, <2>4 DEF API!Scan
<1>5. CASE pc = "list"
  <2>1. {m \in DOMAIN value : InScan(m)} = DOMAIN value
    <3>1. node = null
      BY <1>1, <1>5 DEF Wanted
    <3> QED BY <1>5, <3>1 DEF InScan
  <2>2. API!IsListing(result, DOMAIN value)
    BY <1>2, <2>1 DEF API!IsListing
  <2> QED BY <1>1, <1>5, <2>2 DEF API!List
<1> QED BY <1>1, <1>4, <1>5

LEMMA CleanMaps == Inv /\ Clean => API!Clean
BY DEF Inv, Serving, KeyOps, Clean, Return, API!Clean, API!Reply

LEMMA NextMaps == Inv /\ Inv' /\ [ListNext]_listVars => [API!Next]_(API!mapVars)
<1> SUFFICES ASSUME Inv, Inv', [ListNext]_listVars PROVE [API!Next]_(API!mapVars)
  OBVIOUS
<1>1. CASE Start
  BY <1>1, StartMaps DEF API!Next
<1>2. CASE Forward \/ Down \/ Land \/ Collect
  BY <1>2, SearchMaps
<1>3. CASE Overwrite \/ Insert \/ Get \/ DelFound \/ DelNothing \/ Collected \/ Clean
  <2>1. pc # "idle" /\ pc' = "idle" /\ UNCHANGED call
    BY <1>3 DEF Overwrite, Insert, Get, DelFound, DelNothing, Collected, Clean, Return
  <2>2. API!Put \/ API!Get \/ API!Del \/ API!Scan \/ API!List \/ API!Clean
    BY <1>3, PutMaps, GetMaps, DelMaps, CollectedMaps, CleanMaps
  <2> QED BY <2>1, <2>2, AnswerMaps DEF API!Next
<1>4. CASE UNCHANGED listVars
  BY <1>4 DEF listVars, list, API!mapVars
<1> QED BY <1>1, <1>2, <1>3, <1>4 DEF ListNext, Serve

(* The skip list is an ordered map: every call is answered as OrderedMap    *)
(* answers it, for all keys, values, numbers of levels and node heights     *)
(* (skiplist.cc and MemTable.cc).                                           *)
THEOREM SkipListIsOrderedMap == ListSpec => MapImplemented
<1>1. ListInit => API!Init
  BY InitMaps
<1>2. Inv /\ Inv' /\ [ListNext]_listVars => [API!Next]_(API!mapVars)
  BY NextMaps
<1> QED BY <1>1, <1>2, InitInv, NextInv, PTL DEF ListSpec, MapImplemented, API!Spec

------------------------------------------------------------------------------
(* Looking up keys in a table of a level *)

TableItems == table.item
PairNum     == Len(table.item)

Indexed == DOMAIN table.item

(* The table is one that was made of a list. *)
TableMade == table \in {Made(s) : s \in Lists}

(* The question asked fits the loop that runs. *)
Asked ==
  /\ phase \in {"idle", "offset", "first", "last"}
  /\ phase = "offset" => ask.op = "get"
  /\ phase \in {"first", "last"} => ask.op = "scan"
  /\ ask.op = "get" => ask.key \in Keys
  /\ ask.op = "scan" => ask.key \in Keys /\ ask.end \in Keys

(* The part still to search, which is empty at the end of a loop. *)
PartOK ==
  phase # "idle" =>
    /\ left \in Int /\ right \in Int
    /\ 0 <= left /\ left <= PairNum /\ -1 <= right /\ right < PairNum /\ left <= right + 1

OffsetOK ==
  phase = "offset" =>
    \A a \in Indexed : TableItems[a].key = ask.key => left < a /\ a <= right + 1

FirstOK ==
  phase = "first" =>
    /\ \A a \in Indexed : a <= left => TableItems[a].key < ask.key
    /\ \A a \in Indexed : a > right + 1 => TableItems[a].key >= ask.key

LastOK ==
  phase = "last" =>
    /\ startIdx \in Int /\ 0 <= startIdx /\ startIdx <= PairNum
    /\ \A a \in Indexed : a <= startIdx => TableItems[a].key < ask.key
    /\ \A a \in Indexed : a > startIdx => TableItems[a].key >= ask.key
    /\ \A a \in Indexed : a <= left => TableItems[a].key <= ask.end
    /\ \A a \in Indexed : a > right + 1 => TableItems[a].key > ask.end

LookupInv == /\ TableMade /\ Asked /\ PartOK /\ OffsetOK /\ FirstOK /\ LastOK
             /\ GetRight /\ ScanRight

------------------------------------------------------------------------------
(* Tables *)

LEMMA ItemFacts ==
  ASSUME TableMade
  PROVE  /\ PairNum \in Nat \ {0} /\ Indexed = 1 .. PairNum /\ table.pairNum = PairNum
         /\ TableItems \in Seq(Items)
         /\ \A a \in Indexed : TableItems[a] \in Items /\ TableItems[a].key \in Keys /\ TableItems[a].key \in Nat
         /\ \A a, b \in Indexed : a < b => TableItems[a].key < TableItems[b].key
         /\ table.smallestKey = TableItems[1].key /\ table.largestKey = TableItems[PairNum].key
         /\ table.bloomFilter = gen_bloom_filter(ItemKeys(TableItems))
<1>1. PICK s \in Lists : table = Made(s)
  BY DEF TableMade
<1>2. s \in Seq(Items) /\ s # <<>> /\ Ascending(s) /\ Keys \subseteq Nat
  BY TableAssumption
<1>3. /\ TableItems = s /\ table.pairNum = Len(s) /\ table.smallestKey = s[1].key
      /\ table.largestKey = s[Len(s)].key /\ table.bloomFilter = gen_bloom_filter(ItemKeys(s))
  BY <1>1 DEF Made, TableItems
<1>4. Len(s) \in Nat \ {0} /\ DOMAIN s = 1 .. Len(s) /\ \A a \in DOMAIN s : s[a] \in Items
  BY <1>2, LenProperties, EmptySeq, ElementOfSeq
<1>5. \A x \in Items : x.key \in Keys
  BY DEF Items
<1> QED BY <1>2, <1>3, <1>4, <1>5 DEF PairNum, Indexed, TableItems, Ascending

(* A key outside the bounds or the filter is in no item. *)
LEMMA RuledOut ==
  ASSUME TableMade, NEW k \in Keys,
         ~Bounded(k) \/ ~check_bloom_filter(k, table.bloomFilter)
  PROVE  \A a \in Indexed : TableItems[a].key # k
<1> SUFFICES ASSUME NEW a \in Indexed, TableItems[a].key = k PROVE FALSE
  OBVIOUS
<1>1. Bounded(k)
  <2>1. 1 \in Indexed /\ PairNum \in Indexed /\ a \in 1 .. PairNum
    BY ItemFacts
  <2>2. table.smallestKey <= k
    BY ItemFacts, <2>1
  <2>3. k <= table.largestKey
    BY ItemFacts, <2>1
  <2> QED BY <2>2, <2>3, ItemFacts DEF Bounded
<1>2. check_bloom_filter(k, table.bloomFilter)
  <2>1. k \in ItemKeys(TableItems)
    BY DEF ItemKeys, Indexed, TableItems
  <2> QED BY <2>1, ItemFacts DEF check_bloom_filter, gen_bloom_filter
<1> QED BY <1>1, <1>2

(* Half of a part lies in the part. *)
LEMMA MidFacts ==
  ASSUME left \in Int, right \in Int, left <= right
  PROVE  Mid \in Int /\ left <= Mid /\ Mid <= right
BY DEF Mid

(* A loop goes on, or the next one begins. *)
LEMMA LoopInv ==
  ASSUME LookupInv, UNCHANGED <<table, ask>>,
         phase' \in {"offset", "first", "last"},
         phase' = "offset" => ask.op = "get",
         phase' \in {"first", "last"} => ask.op = "scan",
         PartOK', OffsetOK', FirstOK', LastOK'
  PROVE  LookupInv'
BY DEF LookupInv, TableMade, Asked, GetRight, ScanRight

(* A loop ends with the answer. *)
LEMMA DoneInv ==
  ASSUME LookupInv, UNCHANGED <<table, ask>>, phase' = "idle", GetRight', ScanRight'
  PROVE  LookupInv'
BY DEF LookupInv, TableMade, Asked, PartOK, OffsetOK, FirstOK, LastOK

------------------------------------------------------------------------------
(* The invariant *)

LEMMA LookupInitInv == SearchInit => LookupInv
BY DEF SearchInit, LookupInv, TableMade, Asked, PartOK, OffsetOK, FirstOK, LastOK, GetRight, ScanRight

LEMMA AskKeyInv == LookupInv /\ AskKey => LookupInv'
<1> SUFFICES ASSUME LookupInv, AskKey PROVE LookupInv'
  OBVIOUS
<1>1. PICK k \in Keys :
        /\ ask' = [op |-> "get", key |-> k]
        /\ phase' = IF Bounded(k) /\ check_bloom_filter(k, table.bloomFilter)
                    THEN "offset" ELSE "idle"
  BY DEF AskKey
<1>2. found' = <<>> /\ left' = 0 /\ right' = PairNum - 1 /\ table' = table /\ startIdx' = startIdx
  BY ItemFacts DEF AskKey, last, LookupInv
<1>3. /\ PairNum \in Nat \ {0} /\ Indexed = 1 .. PairNum /\ PairNum' = PairNum /\ TableItems' = TableItems /\ Indexed' = Indexed
  BY <1>2, ItemFacts DEF LookupInv, PairNum, TableItems, Indexed
<1>4. TableMade' /\ Asked' /\ FirstOK' /\ LastOK' /\ ScanRight'
  BY <1>1, <1>2 DEF LookupInv, TableMade, Asked, FirstOK, LastOK, ScanRight
<1>5. CASE phase' = "offset"
  <2>1. OffsetOK'
    BY <1>2, <1>3 DEF OffsetOK
  <2>3. PartOK'
    BY <1>2, <1>3 DEF PartOK
  <2> QED BY <1>4, <1>5, <2>1, <2>3 DEF LookupInv, GetRight
<1>6. CASE phase' = "idle"
  <2>1. \A a \in Indexed : TableItems[a].key # k
    BY <1>1, <1>6, RuledOut DEF LookupInv
  <2>2. k \notin ItemKeys(table.item)
    BY <2>1 DEF ItemKeys, Indexed, TableItems
  <2>3. GetRight'
    BY <1>1, <1>2, <2>2 DEF GetRight
  <2> QED BY <1>4, <1>6, <2>3 DEF LookupInv, PartOK, OffsetOK
<1> QED BY <1>1, <1>5, <1>6

LEMMA AskRangeInv == LookupInv /\ AskRange => LookupInv'
<1> SUFFICES ASSUME LookupInv, AskRange PROVE LookupInv'
  OBVIOUS
<1>1. PICK s \in Keys, e \in Keys :
        /\ ask' = [op |-> "scan", key |-> s, end |-> e]
        /\ phase' = IF s > table.largestKey \/ e < table.smallestKey THEN "idle" ELSE "first"
  BY DEF AskRange
<1>2. found' = <<>> /\ left' = 0 /\ right' = PairNum - 1 /\ table' = table /\ startIdx' = startIdx
  BY ItemFacts DEF AskRange, last, LookupInv
<1>3. /\ PairNum \in Nat \ {0} /\ Indexed = 1 .. PairNum /\ PairNum' = PairNum /\ TableItems' = TableItems /\ Indexed' = Indexed
  BY <1>2, ItemFacts DEF LookupInv, PairNum, TableItems, Indexed
<1>4. TableMade' /\ Asked' /\ OffsetOK' /\ LastOK' /\ GetRight'
  BY <1>1, <1>2 DEF LookupInv, TableMade, Asked, OffsetOK, LastOK, GetRight
<1>5. CASE phase' = "first"
  <2>1. FirstOK'
    BY <1>2, <1>3 DEF FirstOK
  <2>2. PartOK'
    BY <1>2, <1>3 DEF LookupInv, PartOK
  <2> QED BY <1>4, <1>5, <2>1, <2>2 DEF LookupInv, ScanRight
<1>6. CASE phase' = "idle"
  <2>1. s \in Nat /\ e \in Nat
    BY TableAssumption
  <2>2. \A a \in Indexed : ~(s <= TableItems[a].key /\ TableItems[a].key <= e)
    <3> TAKE a \in Indexed
    <3>1. 1 \in Indexed /\ PairNum \in Indexed /\ a \in 1 .. PairNum
      BY ItemFacts DEF LookupInv
    <3>2. table.smallestKey <= TableItems[a].key /\ TableItems[a].key <= table.largestKey
      BY ItemFacts, <3>1 DEF LookupInv
    <3>3. table.smallestKey \in Nat /\ table.largestKey \in Nat /\ TableItems[a].key \in Nat
      BY ItemFacts, <3>1 DEF LookupInv
    <3>4. s > table.largestKey \/ e < table.smallestKey
      BY <1>1, <1>6
    <3> QED BY <2>1, <3>2, <3>3, <3>4
  <2>3. {x \in {TableItems[a] : a \in Indexed} : s <= x.key /\ x.key <= e} = {}
    BY <2>2
  <2>4. Ascending(<<>>) /\ {<<>>[a] : a \in DOMAIN <<>>} = {}
    BY DEF Ascending
  <2>5. ScanRight'
    BY <1>1, <1>2, <2>3, <2>4 DEF ScanRight, TableItems, Indexed
  <2> QED BY <1>4, <1>6, <2>5 DEF LookupInv, PartOK, FirstOK
<1> QED BY <1>1, <1>5, <1>6

(* A probe compares one item with what is asked. *)
LEMMA ProbeFacts ==
  ASSUME LookupInv, phase # "idle", left <= right
  PROVE  /\ PairNum \in Nat \ {0} /\ Indexed = 1 .. PairNum
         /\ left \in Int /\ right \in Int /\ Mid \in Int /\ left <= Mid /\ Mid <= right
         /\ Mid + 1 \in Indexed /\ Item(Mid) = TableItems[Mid + 1]
         /\ \A a \in Indexed : a < Mid + 1 => TableItems[a].key < TableItems[Mid + 1].key
         /\ \A a \in Indexed : a > Mid + 1 => TableItems[a].key > TableItems[Mid + 1].key
         /\ \A a \in Indexed : TableItems[a].key \in Nat
<1>1. /\ PairNum \in Nat \ {0} /\ Indexed = 1 .. PairNum
      /\ \A a, b \in Indexed : a < b => TableItems[a].key < TableItems[b].key
      /\ \A a \in Indexed : TableItems[a].key \in Nat
  BY ItemFacts DEF LookupInv
<1>2. left \in Int /\ right \in Int /\ 0 <= left /\ right < PairNum
  BY DEF LookupInv, PartOK
<1>3. Mid \in Int /\ left <= Mid /\ Mid <= right
  BY <1>2, MidFacts
<1>4. Mid + 1 \in Indexed
  BY <1>1, <1>2, <1>3
<1> QED BY <1>1, <1>2, <1>3, <1>4 DEF Item, TableItems

LEMMA ProbeKeyInv == LookupInv /\ ProbeKey => LookupInv'
<1> SUFFICES ASSUME LookupInv, ProbeKey PROVE LookupInv'
  OBVIOUS
<1>1. phase = "offset" /\ left <= right /\ ask.op = "get" /\ ask.key \in Keys /\ ask.key \in Nat
  BY TableAssumption DEF ProbeKey, LookupInv, Asked
<1>2. /\ PairNum \in Nat \ {0} /\ Indexed = 1 .. PairNum
      /\ left \in Int /\ right \in Int /\ Mid \in Int /\ left <= Mid /\ Mid <= right
      /\ Mid + 1 \in Indexed /\ Item(Mid) = TableItems[Mid + 1]
      /\ \A a \in Indexed : a < Mid + 1 => TableItems[a].key < TableItems[Mid + 1].key
      /\ \A a \in Indexed : a > Mid + 1 => TableItems[a].key > TableItems[Mid + 1].key
      /\ \A a \in Indexed : TableItems[a].key \in Nat
  BY <1>1, ProbeFacts
<1>3. /\ 0 <= left /\ right < PairNum
      /\ \A a \in Indexed : TableItems[a].key = ask.key => left < a /\ a <= right + 1
  BY <1>1 DEF LookupInv, PartOK, OffsetOK
<1>4. CASE Item(Mid).key = ask.key /\ Answer(<<Item(Mid)>>)
  <2>1. found' = <<TableItems[Mid + 1]>> /\ phase' = "idle" /\ UNCHANGED <<table, ask>>
    BY <1>2, <1>4 DEF Answer
  <2>2. Mid + 1 \in DOMAIN table.item /\ table.item[Mid + 1].key = ask.key
    BY <1>2, <1>4 DEF Indexed, TableItems
  <2>3. GetRight'
    BY <2>1, <2>2 DEF GetRight, TableItems, ItemKeys
  <2> QED BY <1>1, <2>1, <2>3, DoneInv DEF ScanRight
<1>5. CASE \/ Item(Mid).key < ask.key /\ Narrow(after(Mid), right)
           \/ Item(Mid).key > ask.key /\ Narrow(left, Mid - 1)
  <2>1. /\ UNCHANGED <<table, ask, phase, startIdx>>
        /\ PairNum' = PairNum /\ TableItems' = TableItems /\ Indexed' = Indexed
    BY <1>5 DEF Narrow, PairNum, TableItems, Indexed
  <2>2. CASE TableItems[Mid + 1].key < ask.key /\ left' = Mid + 1 /\ right' = right
    <3>1. \A a \in Indexed : TableItems[a].key = ask.key => left' < a /\ a <= right' + 1
      <4> SUFFICES ASSUME NEW a \in Indexed, TableItems[a].key = ask.key
                   PROVE  left' < a /\ a <= right' + 1
        OBVIOUS
      <4>1. a \in Int /\ left < a /\ a <= right + 1
        BY <1>2, <1>3
      <4>2. ~(a = Mid + 1) /\ ~(a < Mid + 1)
        BY <1>1, <1>2, <2>2
      <4>3. left \in Int /\ right \in Int /\ Mid \in Int
        BY <1>2
      <4> QED BY <2>2, <4>1, <4>2, <4>3
    <3>2. PartOK' /\ OffsetOK'
      BY <1>2, <1>3, <2>1, <2>2, <3>1 DEF PartOK, OffsetOK
    <3> QED BY <1>1, <2>1, <3>2, LoopInv DEF FirstOK, LastOK
  <2>3. CASE TableItems[Mid + 1].key > ask.key /\ left' = left /\ right' = Mid - 1
    <3>1. \A a \in Indexed : TableItems[a].key = ask.key => left' < a /\ a <= right' + 1
      <4> SUFFICES ASSUME NEW a \in Indexed, TableItems[a].key = ask.key
                   PROVE  left' < a /\ a <= right' + 1
        OBVIOUS
      <4>1. a \in Int /\ left < a /\ a <= right + 1
        BY <1>2, <1>3
      <4>2. ~(a = Mid + 1) /\ ~(a > Mid + 1)
        BY <1>1, <1>2, <2>3
      <4>3. left \in Int /\ right \in Int /\ Mid \in Int
        BY <1>2
      <4> QED BY <2>3, <4>1, <4>2, <4>3
    <3>2. PartOK' /\ OffsetOK'
      BY <1>2, <1>3, <2>1, <2>3, <3>1 DEF PartOK, OffsetOK
    <3> QED BY <1>1, <2>1, <3>2, LoopInv DEF FirstOK, LastOK
  <2> QED BY <1>2, <1>5, <2>2, <2>3 DEF Narrow, after
<1> QED BY <1>4, <1>5 DEF ProbeKey

LEMMA NotFoundInv == LookupInv /\ NotFound => LookupInv'
<1> SUFFICES ASSUME LookupInv, NotFound PROVE LookupInv'
  OBVIOUS
<1>1. /\ phase = "offset" /\ left > right /\ ask.op = "get"
      /\ phase' = "idle" /\ UNCHANGED <<table, ask>>
      /\ found' = IF MarkKey = ask.key THEN <<Mark>> ELSE <<>>
  BY DEF NotFound, Answer, LookupInv, Asked, Mark
<1>2. \A a \in Indexed : TableItems[a].key # ask.key
  <2>1. left \in Int /\ right \in Int /\ Indexed = 1 .. PairNum /\ PairNum \in Nat
    BY <1>1, ItemFacts DEF LookupInv, PartOK
  <2>2. \A a \in Indexed : TableItems[a].key = ask.key => left < a /\ a <= right + 1
    BY <1>1 DEF LookupInv, OffsetOK
  <2> QED BY <1>1, <2>1, <2>2
<1>3. GetRight'
  BY <1>1, <1>2 DEF GetRight, ItemKeys, TableItems, Indexed
<1> QED BY <1>1, <1>3, DoneInv DEF ScanRight

LEMMA ProbeFirstInv == LookupInv /\ ProbeFirst => LookupInv'
<1> SUFFICES ASSUME LookupInv, ProbeFirst PROVE LookupInv'
  OBVIOUS
<1>1. phase = "first" /\ left <= right /\ ask.op = "scan" /\ ask.key \in Nat
  BY TableAssumption DEF ProbeFirst, LookupInv, Asked
<1>2. /\ PairNum \in Nat \ {0} /\ Indexed = 1 .. PairNum
      /\ left \in Int /\ right \in Int /\ Mid \in Int /\ left <= Mid /\ Mid <= right
      /\ Mid + 1 \in Indexed /\ Item(Mid) = TableItems[Mid + 1]
      /\ \A a \in Indexed : a < Mid + 1 => TableItems[a].key < TableItems[Mid + 1].key
      /\ \A a \in Indexed : a > Mid + 1 => TableItems[a].key > TableItems[Mid + 1].key
      /\ \A a \in Indexed : TableItems[a].key \in Nat
  BY <1>1, ProbeFacts
<1>3. /\ 0 <= left /\ right < PairNum
      /\ \A a \in Indexed : a <= left => TableItems[a].key < ask.key
      /\ \A a \in Indexed : a > right + 1 => TableItems[a].key >= ask.key
  BY <1>1 DEF LookupInv, PartOK, FirstOK
<1>4. /\ UNCHANGED <<table, ask, phase, startIdx>>
      /\ PairNum' = PairNum /\ TableItems' = TableItems /\ Indexed' = Indexed
  BY DEF ProbeFirst, Narrow, PairNum, TableItems, Indexed
<1>5. CASE TableItems[Mid + 1].key < ask.key
  <2>1. left' = Mid + 1 /\ right' = right
    BY <1>2, <1>5 DEF ProbeFirst, Narrow, after
  <2>2. \A a \in Indexed : a <= left' => TableItems[a].key < ask.key
    BY <1>1, <1>2, <1>5, <2>1
  <2>3. PartOK' /\ FirstOK'
    BY <1>2, <1>3, <1>4, <2>1, <2>2 DEF PartOK, FirstOK
  <2> QED BY <1>1, <1>4, <2>3, LoopInv DEF OffsetOK, LastOK
<1>6. CASE ~(TableItems[Mid + 1].key < ask.key)
  <2>1. left' = left /\ right' = Mid - 1
    BY <1>2, <1>6 DEF ProbeFirst, Narrow
  <2>2. \A a \in Indexed : a > right' + 1 => TableItems[a].key >= ask.key
    BY <1>1, <1>2, <1>6, <2>1
  <2>3. PartOK' /\ FirstOK'
    BY <1>2, <1>3, <1>4, <2>1, <2>2 DEF PartOK, FirstOK
  <2> QED BY <1>1, <1>4, <2>3, LoopInv DEF OffsetOK, LastOK
<1> QED BY <1>5, <1>6

LEMMA FirstFoundInv == LookupInv /\ FirstFound => LookupInv'
<1> SUFFICES ASSUME LookupInv, FirstFound PROVE LookupInv'
  OBVIOUS
<1>1. /\ phase = "first" /\ left > right /\ ask.op = "scan"
      /\ phase' = "last" /\ startIdx' = left /\ left' = 0 /\ right' = PairNum - 1
      /\ UNCHANGED <<table, ask>> /\ PairNum' = PairNum /\ TableItems' = TableItems /\ Indexed' = Indexed
  BY ItemFacts DEF FirstFound, LookupInv, Asked, last, PairNum, TableItems, Indexed
<1>2. /\ left \in Int /\ right \in Int /\ 0 <= left /\ left <= PairNum /\ left = right + 1
      /\ PairNum \in Nat \ {0} /\ Indexed = 1 .. PairNum
      /\ \A a \in Indexed : a <= left => TableItems[a].key < ask.key
      /\ \A a \in Indexed : a > right + 1 => TableItems[a].key >= ask.key
  BY <1>1, ItemFacts DEF LookupInv, PartOK, FirstOK
<1>3. PartOK' /\ LastOK'
  BY <1>1, <1>2 DEF PartOK, LastOK
<1> QED BY <1>1, <1>3, LoopInv DEF OffsetOK, FirstOK

LEMMA ProbeLastInv == LookupInv /\ ProbeLast => LookupInv'
<1> SUFFICES ASSUME LookupInv, ProbeLast PROVE LookupInv'
  OBVIOUS
<1>1. phase = "last" /\ left <= right /\ ask.op = "scan" /\ ask.end \in Nat
  BY TableAssumption DEF ProbeLast, LookupInv, Asked
<1>2. /\ PairNum \in Nat \ {0} /\ Indexed = 1 .. PairNum
      /\ left \in Int /\ right \in Int /\ Mid \in Int /\ left <= Mid /\ Mid <= right
      /\ Mid + 1 \in Indexed /\ Item(Mid) = TableItems[Mid + 1]
      /\ \A a \in Indexed : a < Mid + 1 => TableItems[a].key < TableItems[Mid + 1].key
      /\ \A a \in Indexed : a > Mid + 1 => TableItems[a].key > TableItems[Mid + 1].key
      /\ \A a \in Indexed : TableItems[a].key \in Nat
  BY <1>1, ProbeFacts
<1>3. 0 <= left /\ right < PairNum /\ LastOK
  BY <1>1 DEF LookupInv, PartOK
<1>4. /\ UNCHANGED <<table, ask, phase, startIdx>>
      /\ PairNum' = PairNum /\ TableItems' = TableItems /\ Indexed' = Indexed
  BY DEF ProbeLast, Narrow, PairNum, TableItems, Indexed
<1>5. CASE TableItems[Mid + 1].key > ask.end
  <2>1. left' = left /\ right' = Mid - 1
    BY <1>2, <1>5 DEF ProbeLast, Narrow, Beyond
  <2>2. \A a \in Indexed : a > right' + 1 => TableItems[a].key > ask.end
    <3> SUFFICES ASSUME NEW a \in Indexed, a > right' + 1
                 PROVE  TableItems[a].key > ask.end
      OBVIOUS
    <3>1. a = Mid + 1 \/ a > Mid + 1
      BY <1>2, <2>1
    <3>2. TableItems[a].key \in Nat /\ TableItems[Mid + 1].key \in Nat
      BY <1>2
    <3>3. a > Mid + 1 => TableItems[a].key > TableItems[Mid + 1].key
      BY <1>2
    <3> QED BY <1>1, <1>5, <3>1, <3>2, <3>3
  <2>3. LastOK'
    BY <1>1, <1>3, <1>4, <2>1, <2>2 DEF LastOK
  <2>4. PartOK'
    BY <1>2, <1>3, <1>4, <2>1 DEF PartOK
  <2> QED BY <1>1, <1>4, <2>3, <2>4, LoopInv DEF OffsetOK, FirstOK
<1>6. CASE ~(TableItems[Mid + 1].key > ask.end)
  <2>1. left' = Mid + 1 /\ right' = right
    BY <1>2, <1>6 DEF ProbeLast, Narrow, Beyond, after
  <2>2. \A a \in Indexed : a <= left' => TableItems[a].key <= ask.end
    BY <1>1, <1>2, <1>6, <2>1
  <2>3. LastOK'
    BY <1>1, <1>3, <1>4, <2>1, <2>2 DEF LastOK
  <2>4. PartOK'
    BY <1>2, <1>3, <1>4, <2>1 DEF PartOK
  <2> QED BY <1>1, <1>4, <2>3, <2>4, LoopInv DEF OffsetOK, FirstOK
<1> QED BY <1>5, <1>6

LEMMA LastFoundInv == LookupInv /\ LastFound => LookupInv'
<1> SUFFICES ASSUME LookupInv, LastFound PROVE LookupInv'
  OBVIOUS
<1> DEFINE s == SubSeq(TableItems, startIdx + 1, right + 1)
           len == right - startIdx + 1
<1>1. /\ phase = "last" /\ left > right /\ ask.op = "scan" /\ ask.key \in Nat /\ ask.end \in Nat
      /\ phase' = "idle" /\ found' = s /\ UNCHANGED <<table, ask>>
  BY TableAssumption DEF LastFound, Answer, LookupInv, Asked, TableItems
<1>2. /\ PairNum \in Nat \ {0} /\ Indexed = 1 .. PairNum /\ left \in Int /\ right \in Int
      /\ left = right + 1 /\ right < PairNum /\ startIdx \in Int /\ 0 <= startIdx
      /\ \A a \in Indexed : TableItems[a] \in Items /\ TableItems[a].key \in Nat
      /\ \A a, b \in Indexed : a < b => TableItems[a].key < TableItems[b].key
  <2>1. TableMade /\ PartOK /\ LastOK
    BY DEF LookupInv
  <2>2. /\ PairNum \in Nat \ {0} /\ Indexed = 1 .. PairNum
        /\ \A a \in Indexed : TableItems[a] \in Items /\ TableItems[a].key \in Nat
        /\ \A a, b \in Indexed : a < b => TableItems[a].key < TableItems[b].key
    BY <2>1, ItemFacts
  <2>3. left \in Int /\ right \in Int /\ right < PairNum /\ left <= right + 1
    BY <1>1, <2>1 DEF PartOK
  <2>4. startIdx \in Int /\ 0 <= startIdx
    BY <1>1, <2>1 DEF LastOK
  <2>5. left = right + 1
    BY <1>1, <2>3
  <2> QED BY <2>2, <2>3, <2>4, <2>5
<1>3. \A a \in Indexed : ask.key <= TableItems[a].key /\ TableItems[a].key <= ask.end <=>
                         startIdx < a /\ a <= right + 1
  <2> TAKE a \in Indexed
  <2>1. /\ a <= startIdx => TableItems[a].key < ask.key
        /\ a > startIdx => TableItems[a].key >= ask.key
        /\ a <= left => TableItems[a].key <= ask.end
        /\ a > right + 1 => TableItems[a].key > ask.end
    BY <1>1 DEF LookupInv, LastOK
  <2> QED BY <1>1, <1>2, <2>1
<1>4. /\ s \in Seq(Items) /\ Len(s) = IF startIdx + 1 <= right + 1 THEN len ELSE 0
      /\ \A b \in 1 .. len : s[b] = TableItems[startIdx + b]
  <2> DEFINE lo == startIdx + 1
             hi == right + 1
  <2>1. lo \in Int /\ hi \in Int /\ \A a \in lo .. hi : TableItems[a] \in Items
    BY <1>2
  <2> HIDE DEF lo, hi
  <2>2. /\ SubSeq(TableItems, lo, hi) \in Seq(Items)
        /\ Len(SubSeq(TableItems, lo, hi)) = IF lo <= hi THEN hi - lo + 1 ELSE 0
        /\ \A b \in 1 .. hi - lo + 1 : SubSeq(TableItems, lo, hi)[b] = TableItems[lo + b - 1]
    BY <2>1, SubSeqProperties
  <2>3. hi - lo + 1 = len /\ \A b \in Int : lo + b - 1 = startIdx + b
    BY <1>2 DEF lo, hi
  <2>4. \A b \in 1 .. len : SubSeq(TableItems, lo, hi)[b] = TableItems[startIdx + b]
    BY <2>2, <2>3
  <2>5. Len(SubSeq(TableItems, lo, hi)) = IF lo <= hi THEN len ELSE 0
    BY <2>2, <2>3
  <2> QED BY <2>2, <2>4, <2>5 DEF lo, hi
<1>5. DOMAIN s = 1 .. len /\ len \in Int
  <2>1. DOMAIN s = 1 .. Len(s)
    BY <1>4, LenProperties
  <2>2. len \in Int /\ (~(startIdx + 1 <= right + 1) => 1 .. len = 1 .. 0)
    BY <1>2
  <2> QED BY <1>2, <1>4, <2>1, <2>2
<1> HIDE DEF s
<1>6. \A b \in 1 .. len : s[b] = TableItems[startIdx + b] /\ startIdx + b \in Indexed
  BY <1>2, <1>4, <1>5
<1>7. Ascending(s)
  <2> SUFFICES ASSUME NEW a \in 1 .. len, NEW b \in 1 .. len, a < b
               PROVE  s[a].key < s[b].key
    BY <1>5 DEF Ascending
  <2>1. startIdx + a < startIdx + b
    BY <1>2, <1>5
  <2> QED BY <1>2, <1>6, <2>1
<1>8. {s[b] : b \in DOMAIN s} =
        {x \in {TableItems[a] : a \in Indexed} : ask.key <= x.key /\ x.key <= ask.end}
  <2>1. ASSUME NEW b \in 1 .. len
        PROVE  /\ s[b] \in {TableItems[a] : a \in Indexed}
               /\ ask.key <= s[b].key /\ s[b].key <= ask.end
    <3>1. startIdx < startIdx + b /\ startIdx + b <= right + 1
      BY <1>2, <1>5
    <3> QED BY <1>3, <1>6, <3>1
  <2>2. ASSUME NEW a \in Indexed, ask.key <= TableItems[a].key, TableItems[a].key <= ask.end
        PROVE  TableItems[a] \in {s[b] : b \in 1 .. len}
    <3>1. a - startIdx \in 1 .. len /\ startIdx + (a - startIdx) = a
      BY <1>2, <1>3, <1>5, <2>2
    <3> QED BY <1>6, <3>1
  <2> HIDE DEF len
  <2> QED BY <1>5, <2>1, <2>2
<1>9. ScanRight'
  BY <1>1, <1>7, <1>8 DEF ScanRight, TableItems, Indexed
<1> QED BY <1>1, <1>9, DoneInv DEF GetRight

LEMMA LookupNextInv == LookupInv /\ [SearchNext]_searchVars => LookupInv'
<1> SUFFICES ASSUME LookupInv, [SearchNext]_searchVars PROVE LookupInv'
  OBVIOUS
<1>1. CASE UNCHANGED searchVars
  BY <1>1 DEF searchVars, LookupInv, TableMade, Asked, PartOK, OffsetOK, FirstOK, LastOK,
              GetRight, ScanRight, PairNum, TableItems, Indexed
<1> QED BY <1>1, AskKeyInv, AskRangeInv, ProbeKeyInv, NotFoundInv, ProbeFirstInv,
           FirstFoundInv, ProbeLastInv, LastFoundInv DEF SearchNext, Search

(* A get finds exactly the item of its key, for every table, every hash     *)
(* function and every size of the filter, but for the key of the mark       *)
(* (SSTable::getOffset and the loop of SSTableHandler::get).                *)
THEOREM GetsAreRight == SearchSpec => []GetRight
<1>1. LookupInv => GetRight
  BY DEF LookupInv
<1> QED BY <1>1, LookupInitInv, LookupNextInv, PTL DEF SearchSpec

(* A scan returns exactly the items between its bounds (scanOffset). *)
THEOREM ScansAreRight == SearchSpec => []ScanRight
<1>1. LookupInv => ScanRight
  BY DEF LookupInv
<1> QED BY <1>1, LookupInitInv, LookupNextInv, PTL DEF SearchSpec

(* No search reads past the items. *)
THEOREM ProbesStayInside == SearchSpec => []ProbesInside
<1>1. LookupInv => ProbesInside
  BY ItemFacts DEF LookupInv, PartOK, ProbesInside
<1> QED BY <1>1, LookupInitInv, LookupNextInv, PTL DEF SearchSpec
==============================================================================
