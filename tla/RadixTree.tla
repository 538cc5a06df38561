------------------------------- MODULE RadixTree -------------------------------
(***************************************************************************)
(* The radix tree without compression (radix_tree.cpp).  A node is the      *)
(* digits on the path to it.                                                *)
(***************************************************************************)
EXTENDS TreeValues, FiniteSets

VARIABLES
  nodes,       \* the paths of the nodes
  _size        \* the number of nodes, as insert and remove count it

radixVars == <<nodes, _size>>

Prefix(v, n)   == SubSeq(v, 1, n)
Children(N, p) == {d \in 0 .. 3 : Append(p, d) \in N}

(* Mutant: an inner node counts as the value. *)
find_inner(v) == Prefix(v, Depth - 1) \in nodes
RadixFind(v)       == v \in nodes

RadixInit == nodes = {<<>>} /\ _size = 1

RadixInsert(v) ==
  /\ nodes' = nodes \cup {Prefix(v, n) : n \in 1 .. Depth}
  /\ _size' = _size + Cardinality(nodes' \ nodes)

(* parent[i] is the node of i + 1 digits.  The child looked at first is the *)
(* one for the wrong digit, but a node is removed only if it has no child.  *)
WrongChild(v, i) == v[Depth - i]

(* Mutant: the child of the wrong digit decides alone. *)
EmptyByDigit(N, v, i) == WrongChild(v, i) \notin Children(N, Prefix(v, i + 1))
Emptied(N, v, i)      == Children(N, Prefix(v, i + 1)) = {}
Stops(N, v, i)        == WrongChild(v, i) \in Children(N, Prefix(v, i + 1))

(* A round of the loop of remove, on what is left of the nodes.             *)
Round(at, v, i) ==
  IF at.done \/ Stops(at.left, v, i) THEN [at EXCEPT !.done = TRUE]
  ELSE IF Emptied(at.left, v, i) THEN [at EXCEPT !.left = @ \ {Prefix(v, i + 1)}]
  ELSE at

(* What is left when the loop has come to i. *)
Rounds(N, v) ==
  LET clean[i \in -1 .. Depth - 2] ==
        IF i = Depth - 2 THEN [left |-> N, done |-> FALSE]
        ELSE Round(clean[i + 1], v, i + 1)
  IN  clean

CleanedUp(N, v) == Rounds(N, v)[-1].left

(* The last node under a first digit other than 0 is unlinked at an index   *)
(* that is not shifted, outside the root.                                   *)
OutsideRoot(v) == v[1] # 0 /\ Prefix(v, 1) \notin CleanedUp(nodes \ {v}, v)

RadixRemove(v) ==
  IF RadixFind(v)
  THEN /\ AnyRemoval \/ ~OutsideRoot(v)
       /\ nodes' = CleanedUp(nodes \ {v}, v) \cup (IF OutsideRoot(v) THEN {Prefix(v, 1)} ELSE {})
       /\ _size' = _size - Cardinality(nodes \ CleanedUp(nodes \ {v}, v))
  ELSE UNCHANGED radixVars

height == IF _size = 1 THEN 1 ELSE Depth + 1

RadixNext == \E v \in Values : RadixInsert(v) \/ RadixRemove(v)

RadixSpec == RadixInit /\ [][RadixNext]_radixVars

------------------------------------------------------------------------------
(* Properties *)

RadixSet == INSTANCE TreeSet WITH members <- {v \in Values : RadixFind(v)}

(* Inserting and removing change the set by the one value, whatever nodes   *)
(* it shares with others (RadixTree::insert and remove).                    *)
RadixIsSet == RadixSet!Spec

(* The counted size is the number of nodes, every node lies on the path of  *)
(* a value, so nothing is left behind by a removal, and the height follows  *)
(* from the size (RadixTree::remove, size and height).                      *)
RadixIsTight ==
  /\ _size = Cardinality(nodes)
  /\ nodes = {<<>>} \cup {Prefix(v, n) : v \in {w \in Values : RadixFind(w)}, n \in 1 .. Depth}
  /\ height = 1 <=> ~ \E v \in Values : RadixFind(v)
==============================================================================
