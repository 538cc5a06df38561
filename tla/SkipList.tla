------------------------------- MODULE SkipList --------------------------------
(***************************************************************************)
(* The skip list of the memory table (MemTable/skiplist.cc).  A node is its *)
(* key, the head is -1 and a null pointer is -2.  Searching and collecting  *)
(* go one node at a time, so that what they rely on can be stated of every  *)
(* state in between.                                                        *)
(***************************************************************************)
EXTENDS Integers, Sequences, FiniteSets

CONSTANTS
  MapKeys,     \* the keys, uint64_t in the code
  Values,      \* the strings that can be put
  Empty,       \* the empty string
  MaxLevel     \* max_level of skiplist.h

ASSUME SkipListAssumption == MapKeys \subseteq Nat /\ MaxLevel \in Nat \ {0}

VARIABLES
  forward,     \* Node::forward: forward[n][l] is the next node on level l
  height,      \* Node::level, the number of levels of a node
  value,       \* Node::value of the nodes but the head
  size,        \* the number of nodes, as put and del count it
  call,        \* the call being served
  pc,          \* "idle", "search", or the operation that goes on from the node found
  node, i,     \* where the search is
  update,      \* update[l], the last node before the key, for the levels searched
  result       \* what the call has returned, or has listed so far

list == <<forward, height, value, size>>
listVars == <<list, call, pc, node, i, update, result>>

API == INSTANCE OrderedMap WITH
  Keys <- MapKeys,
  contents <- value,
  count <- size,
  reply <- IF pc = "idle" THEN [done |-> TRUE, result |-> result] ELSE [done |-> FALSE]

head   == -1
null   == -2
Nodes  == DOMAIN forward
Levels == 0 .. MaxLevel - 1

------------------------------------------------------------------------------

NewHead == [n \in {head} |-> [l \in Levels |-> null]]

ListInit ==
  /\ forward = NewHead
  /\ height = [n \in {head} |-> MaxLevel]
  /\ value = [k \in {} |-> Empty] /\ size = 0
  /\ call = API!NoCall /\ pc = "idle"
  /\ node = head /\ i = 0 /\ update = [l \in {} |-> head]
  /\ result = Empty

(* A call starts at the head of the topmost level; getList starts at the    *)
(* first node.                                                              *)
StartSearch(c) ==
  /\ call' = c /\ pc' = "search"
  /\ node' = head /\ i' = MaxLevel - 1 /\ update' = [l \in {} |-> head]
  /\ result' = <<>>
  /\ UNCHANGED list

StartList ==
  /\ call' = API!ListCall /\ pc' = "list"
  /\ node' = forward[head][0] /\ i' = 0 /\ update' = [l \in {} |-> head]
  /\ result' = <<>>
  /\ UNCHANGED list

StartClean ==
  /\ call' = API!CleanCall /\ pc' = "clean"
  /\ UNCHANGED <<list, node, i, update, result>>

Start ==
  /\ pc = "idle"
  /\ \/ \E c \in API!Calls \ {API!ListCall, API!CleanCall} : StartSearch(c)
     \/ StartList
     \/ StartClean

(* The search common to put, get, del and scan. *)
Ahead == forward[node][i] # null /\ forward[node][i] < call.key

(* Mutant: the search goes back to the head. *)
ToHead == head
ToNext == forward[node][i]

Forward ==
  /\ pc = "search" /\ Ahead
  /\ node' = ToNext
  /\ UNCHANGED <<list, call, pc, i, update, result>>

(* Mutant: every level is relinked at the head. *)
NotedHead == [l \in DOMAIN update \cup {i} |-> IF l = i THEN head ELSE update[l]]
Noted     == [l \in DOMAIN update \cup {i} |-> IF l = i THEN node ELSE update[l]]

Down ==
  /\ pc = "search" /\ ~Ahead /\ i > 0
  /\ update' = Noted /\ i' = i - 1
  /\ UNCHANGED <<list, call, pc, node, result>>

Land ==
  /\ pc = "search" /\ ~Ahead /\ i = 0
  /\ update' = Noted
  /\ node' = forward[node][0]
  /\ pc' = call.op
  /\ UNCHANGED <<list, call, i, result>>

Found == node # null /\ node = call.key

Return(r) == pc' = "idle" /\ result' = r /\ UNCHANGED <<call, node, i, update>>

------------------------------------------------------------------------------
(* put *)

Overwrite ==
  /\ pc = "put" /\ Found
  /\ value' = [value EXCEPT ![node] = call.val]
  /\ UNCHANGED <<forward, height, size>> /\ Return(Empty)

(* Mutant: a new node is linked on one level more than it has. *)
LinkedAbove(l, h) == l <= h
LinkedOn(l, h)    == l < h

Insert ==
  /\ pc = "put" /\ ~Found
  /\ \E h \in 1 .. MaxLevel :
       /\ height' = [n \in Nodes \cup {call.key} |-> IF n = call.key THEN h ELSE height[n]]
       /\ forward' =
            [n \in Nodes \cup {call.key} |->
               IF n = call.key THEN [l \in 0 .. h - 1 |-> forward[update[l]][l]]
               ELSE [l \in DOMAIN forward[n] |->
                       IF LinkedOn(l, h) /\ update[l] = n THEN call.key ELSE forward[n][l]]]
  /\ value' = [k \in DOMAIN value \cup {call.key} |->
                 IF k = call.key THEN call.val ELSE value[k]]
  /\ size' = size + 1
  /\ Return(Empty)

------------------------------------------------------------------------------
(* get and del *)

Get == pc = "get" /\ Return(IF Found THEN value[node] ELSE Empty) /\ UNCHANGED list

(* The loop over the levels stops at the first that does not hold the node. *)
Unlinked(l) == \A m \in 0 .. l : forward[update[m]][m] = node

DelFound ==
  /\ pc = "del" /\ Found
  /\ height' = [n \in Nodes \ {node} |-> height[n]]
  /\ forward' =
       [n \in Nodes \ {node} |->
          [l \in DOMAIN forward[n] |->
             IF update[l] = n /\ Unlinked(l) THEN forward[node][l] ELSE forward[n][l]]]
  /\ value' = [k \in DOMAIN value \ {node} |-> value[k]]
  /\ size' = size - 1
  /\ Return(TRUE)

DelNothing == pc = "del" /\ ~Found /\ Return(FALSE) /\ UNCHANGED list

------------------------------------------------------------------------------
(* scan, getList and clean *)

(* Mutant: the end of the range is left out. *)
WantedBefore == node # null /\ (call.op = "scan" => node < call.end)
Wanted == node # null /\ (call.op = "scan" => node <= call.end)

Collect ==
  /\ pc \in {"scan", "list"} /\ Wanted
  /\ result' = Append(result, <<node, value[node]>>)
  /\ node' = forward[node][0]
  /\ UNCHANGED <<list, call, pc, i, update>>

Collected == pc \in {"scan", "list"} /\ ~Wanted /\ Return(result) /\ UNCHANGED list

Clean ==
  /\ pc = "clean"
  /\ forward' = NewHead /\ height' = [n \in {head} |-> MaxLevel]
  /\ value' = [k \in {} |-> Empty] /\ size' = 0
  /\ Return(Empty)

Serve ==
  \/ Forward \/ Down \/ Land
  \/ Overwrite \/ Insert \/ Get \/ DelFound \/ DelNothing
  \/ Collect \/ Collected \/ Clean

ListNext == Start \/ Serve

ListSpec == ListInit /\ [][ListNext]_listVars /\ WF_listVars(Serve)

------------------------------------------------------------------------------
(* Properties *)

(* The variables hold what the code's types allow. *)
TypeOK ==
  /\ head \in Nodes /\ Nodes \subseteq MapKeys \cup {head}
  /\ height \in [Nodes -> 1 .. MaxLevel] /\ height[head] = MaxLevel
  /\ \A n \in Nodes : forward[n] \in [0 .. height[n] - 1 -> MapKeys \cup {null}]
  /\ DOMAIN value = Nodes \ {head}
  /\ size \in Nat
  /\ pc \in {"idle", "search", "put", "get", "del", "scan", "list", "clean"}
  /\ call \in API!Calls \cup {API!NoCall}
  /\ i \in Levels

(* On every level each node points to the next node that high, so every     *)
(* level is the ascending list of its nodes and part of the level below:    *)
(* insertion and removal relink each level at the node that their search    *)
(* noted there (skiplist_type::put and del).                                *)
Linked ==
  \A n \in Nodes : \A l \in 0 .. height[n] - 1 :
    /\ forward[n][l] # null =>
         forward[n][l] \in Nodes /\ forward[n][l] > n /\ height[forward[n][l]] > l
    /\ \A m \in Nodes : m > n /\ height[m] > l =>
         forward[n][l] # null /\ forward[n][l] <= m

(* The search never leaves a node's levels, and the nodes it noted are      *)
(* where the key belongs: before the key, with nothing between on their     *)
(* level.                                                                   *)
SearchOnTrack ==
  /\ pc = "search" => node \in Nodes /\ height[node] > i /\ node < call.key
  /\ pc \in {"search", "put", "get", "del", "scan"} =>
       \A l \in DOMAIN update :
         /\ update[l] \in Nodes /\ height[update[l]] > l /\ update[l] < call.key
         /\ forward[update[l]][l] # null => forward[update[l]][l] >= call.key

(* Every call is answered as the map answers it, whatever the random levels *)
(* of the nodes, and size is right however often keys are overwritten,      *)
(* deleted or missed: the memory table is an ordered map.                   *)
MapImplemented == API!Spec

(* Every call is answered: no search or listing runs in circles. *)
EveryCallAnswered == pc # "idle" ~> pc = "idle"
==============================================================================
