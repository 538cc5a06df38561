-------------------------- MODULE CompressedRadixTree --------------------------
(***************************************************************************)
(* The compressed radix tree (compressed_radix_tree.cpp and .hpp).  A node  *)
(* holds the digits first .. last of its values; startBit is 2 * first - 2  *)
(* and endBit 2 * last - 1, and the root holds none.                        *)
(***************************************************************************)
EXTENDS TreeValues, SequencesExt, FiniteSets

CONSTANTS
  ByteSpan,    \* the number of values of a uint8_t: 256 in the code
  NodeBound    \* bound: nothing is hung below a leaf in a tree of this many nodes

ASSUME CompressedAssumption == ByteSpan \in Nat \ {0} /\ NodeBound \in Nat

VARIABLE root

Node(bits, first, last, isLeaf, children) ==
  [bits |-> bits, first |-> first, last |-> last, isLeaf |-> isLeaf, children |-> children]

NoChildren == [d \in {} |-> 0]
Leaf(v, first) == Node(v, first, Depth, TRUE, NoChildren)

Without(children, d) == [e \in DOMAIN children \ {d} |-> children[e]]
Count(node)          == Cardinality(DOMAIN node.children)

(* All nodes, those below a leaf included. *)
RECURSIVE NodeCount(_)
NodeCount(node) == 1 + MapThenSumSet(LAMBDA d : NodeCount(node.children[d]), DOMAIN node.children)

isEqual(node, v)       == \A d \in node.first .. node.last : node.bits[d] = v[d]

(* The first digit that differs, or the last one if none does. *)
firstDiffBits(node, v) ==
  Min({Depth} \cup {d \in node.first .. node.last : node.bits[d] # v[d]})

(* The child of a value is under the digit after last; under the root it is *)
(* under the second bit of the first digit and the first of the second.     *)
Index(node, v) == IF node.last = 0 THEN (v[1] % 2) * 2 + v[2] \div 2 ELSE v[node.last + 1]

(* findNode, as the path to the node it returns *)
RECURSIVE findNode(_, _)
findNode(node, v) ==
  LET d == Index(node, v)
  IN  IF node.last = Depth \/ d \notin DOMAIN node.children
         \/ ~isEqual(node.children[d], v)
      THEN <<>>
      ELSE <<d>> \o findNode(node.children[d], v)

RECURSIVE At(_, _)
At(node, path) == IF path = <<>> THEN node ELSE At(node.children[Head(path)], Tail(path))

RECURSIVE Replaced(_, _, _)
Replaced(node, path, new) ==
  IF path = <<>> THEN new
  ELSE [node EXCEPT !.children[Head(path)] = Replaced(@, Tail(path), new)]

CompressedFind(v) == At(root, findNode(root, v)).last = Depth

CompressedInit == root = Node([d \in 1 .. Depth |-> 0], 1, 0, FALSE, NoChildren)

------------------------------------------------------------------------------
(* insert *)


Split(node, v) ==
  LET d == firstDiffBits(node, v)
  IN  [node EXCEPT !.last = d - 1, !.isLeaf = FALSE,
         !.children = [e \in {v[d], node.bits[d]} |->
                         IF e = node.bits[d] THEN [node EXCEPT !.first = d, !.isLeaf = FALSE]
                         ELSE Leaf(v, d)]]

(* A leaf that was split off or taken over has lost its mark isLeaf.  Its   *)
(* value is then inserted below it, where no search comes.  The child is    *)
(* selected by a shift of -2 bits: undefined, and either a shift of 30, as  *)
(* on x86, or one that leaves nothing.                                      *)
Slots(node, v) == IF node.last = Depth THEN {0, v[1]} ELSE {Index(node, v)}

(* The child d of a node becomes a new leaf, or is split.                   *)
Attached(node, d, v) ==
  [node EXCEPT !.children =
     [e \in DOMAIN @ \cup {d} |->
        IF e # d THEN @[e]
        ELSE IF d \in DOMAIN @ THEN Split(@[d], v) ELSE Leaf(v, node.last + 1)]]

CompressedInsert(v) ==
  LET path == findNode(root, v)
      node == At(root, path)
  IN  IF node.isLeaf
      THEN UNCHANGED root
      ELSE /\ node.last # Depth \/ NodeCount(root) < NodeBound
           /\ \E d \in Slots(node, v) : root' = Replaced(root, path, Attached(node, d, v))

------------------------------------------------------------------------------
(* remove *)

Masked(node) == [d \in 1 .. Depth |->
                   IF d \in node.first .. node.last THEN node.bits[d] ELSE 0]

(* A node takes over the digits of the one below it. *)
TakeOver(node, below, children) ==
  [node EXCEPT !.bits = [d \in 1 .. Depth |-> Masked(node)[d] + Masked(below)[d]],
               !.last = below.last, !.children = children]


(* Mutant: the parent never merges with its last child. *)
MergeNever(node, d) == [node EXCEPT !.children = Without(@, d)]

(* The parent of a removed leaf, under digit d: with one other child left   *)
(* it takes over that child's digits, but not its children.                 *)
Merge(node, d) ==
  IF Count(node) # 2 THEN [node EXCEPT !.children = Without(@, d)]
  ELSE TakeOver(node, node.children[CHOOSE e \in DOMAIN node.children : e # d], NoChildren)

(* The digit at which the loop takes the child off its parent: one bit off. *)
OffIndex(node, v) ==
  IF node.last = 0 THEN v[1] ELSE (v[node.last] % 2) * 2 + v[node.last + 1] \div 2

(* The loop that merges upwards while a parent has one child. *)
RECURSIVE MergeUp(_, _)
MergeUp(tree, path) ==
  LET node == At(tree, path)
      up   == Front(path)
      over == At(tree, up)
  IN  IF path = <<>> \/ Count(node) > 1 \/ Count(over) # 1 THEN tree
      ELSE MergeUp(Replaced(tree, up,
             TakeOver(over, node, Without(over.children, OffIndex(over, node.bits)))), up)

(* Removals after which the tree answers wrongly, all of them merges: the    *)
(* root takes over its last child, which may be a leaf (then findNode stops *)
(* at the root for every value); a parent takes over a node with children   *)
(* and drops them; or the merging goes on upwards.                          *)
Spoils(path) ==
  LET parent   == At(root, Front(path))
      siblings == {parent.children[d] : d \in DOMAIN parent.children \ {Last(path)}}
  IN  \/ /\ Count(parent) = 2
         /\ Len(path) = 1 \/ \E n \in siblings : n.last # Depth /\ Count(n) > 0
      \/ /\ Len(path) > 1 /\ Count(parent) <= 2
         /\ Count(At(root, Front(Front(path)))) = 1

CompressedRemove(v) ==
  LET path == findNode(root, v)
  IN  IF CompressedFind(v) /\ path # <<>>
      THEN /\ AnyRemoval \/ ~Spoils(path)
           /\ root' = MergeUp(Replaced(root, Front(path),
                                       Merge(At(root, Front(path)), Last(path))), Front(path))
      ELSE UNCHANGED root

------------------------------------------------------------------------------
(* size *)

(* What a function of the code returns as a uint8_t.                        *)
AsByte(n) == n % ByteSpan

(* A node takes over its only child, but keeps its own first digit.          *)
Absorb(node) ==
  LET child == node.children[CHOOSE d \in DOMAIN node.children : TRUE]
  IN  [node EXCEPT !.last = child.last, !.bits = child.bits, !.children = child.children]

(* calculateSize repairs the tree on its way: a node with no children that  *)
(* is no leaf is taken off its parent (gone), one with a single child       *)
(* absorbs it.  The children from i on are counted one after the other, and *)
(* while checks is true the node itself is looked at before each.  What was *)
(* counted before a node absorbs its child is counted again.                *)
RECURSIVE calculateSize(_), Summed(_, _, _)
Summed(at, i, checks) ==
  LET node == at.node IN
  IF i > 3 THEN [at EXCEPT !.size = AsByte(@ + 1)]
  ELSE IF checks /\ Count(node) = 0 /\ node.last # Depth THEN [at EXCEPT !.size = 0, !.gone = TRUE]
  ELSE IF checks /\ Count(node) = 1 THEN Summed([at EXCEPT !.node = Absorb(@)], 0, FALSE)
  ELSE IF i \notin DOMAIN node.children THEN Summed(at, i + 1, checks)
  ELSE LET below == calculateSize(node.children[i])
           slot  == Index(node, below.node.bits)
       IN  Summed([at EXCEPT !.size = AsByte(@ + below.size),
                             !.node.children = IF below.gone THEN Without(@, slot)
                                               ELSE [@ EXCEPT ![i] = below.node]], i + 1, checks)

calculateSize(node) == Summed([node |-> node, size |-> 0, gone |-> FALSE], 0, TRUE)

(* The root, which has no parent, is counted without being repaired.         *)
Recount == Summed([node |-> root, size |-> 0, gone |-> FALSE], 0, FALSE)

CompressedSize == root' = Recount.node

CompressedNext ==
  \/ \E v \in Values : CompressedInsert(v) \/ CompressedRemove(v)
  \/ CompressedSize

CompressedSpec == CompressedInit /\ [][CompressedNext]_root

------------------------------------------------------------------------------
(* Properties *)

Members == {v \in Values : CompressedFind(v)}

CompressedSet == INSTANCE TreeSet WITH members <- Members


(* The nodes a search can come to: none below a leaf. *)
RECURSIVE Seen(_)
Seen(node) ==
  {node} \cup (IF node.last = Depth THEN {}
               ELSE UNION {Seen(node.children[d]) : d \in DOMAIN node.children})


(* The nodes below the root that do not split: there is nothing to look up  *)
(* at them.                                                                 *)
Loose(tree) == {n \in Seen(tree) : n # tree /\ n.last # Depth /\ Count(n) < 2}

(* The tree stays compressed: neither an insertion nor a removal leaves     *)
(* more nodes that do not split than it found.  Only size() makes some,     *)
(* when a leaf absorbs a node that was hung below it by an insertion.       *)
StaysCompressed ==
  [][(\E v \in Values : CompressedInsert(v) \/ CompressedRemove(v)) =>
       Cardinality(Loose(root)') <= Cardinality(Loose(root))]_root

(* A removal takes out its own value and no other one: the code does not    *)
(* keep this.                                                               *)
RemovesOne == [][\A v \in Values : CompressedRemove(v) => Members' = Members \ {v}]_root
==============================================================================
