--------------------------------- MODULE Select --------------------------------
(***************************************************************************)
(* Selecting the k-th smallest number (HW7-quickSelect): quick select with  *)
(* a random pivot, and linear select, which sorts groups of numbers and     *)
(* takes the middle of one of them for its pivot.  Both partition the range *)
(* that holds the answer and go on with the part that does.                 *)
(***************************************************************************)
EXTENDS Integers, FiniteSets

CONSTANTS
  Arrays,       \* the arrays, functions from 0 .. n - 1 to numbers
  dividedSize   \* the size of a group in LinearSelect.hpp: 5 in the code;
                \* beyond 5 medianOf5 would sort a group in another way

ASSUME SelectAssumption ==
  /\ \A a \in Arrays : /\ IsFiniteSet(DOMAIN a) /\ DOMAIN a # {}
                      /\ a \in [0 .. Cardinality(DOMAIN a) - 1 -> Int]
  /\ dividedSize \in 2 .. 5

VARIABLES
  linear,       \* which of the two runs
  given, rank,  \* what the caller asked: the array and the k
  nums,         \* the array as it is rearranged
  left, right,  \* the range that holds the answer
  k,            \* which of the range it is
  i, j,         \* the indices of the partitioning loop
  phase,           \* "range", "loop", "decide" or "done"
  answer

asked == <<linear, given, rank>>
selectVars == <<asked, nums, left, right, k, i, j, phase, answer>>

Indices == DOMAIN nums
Size    == right - left + 1

Swapped(a, x, y) == [a EXCEPT ![x] = a[y], ![y] = a[x]]

SelectInit ==
  /\ linear \in BOOLEAN
  /\ given \in Arrays /\ rank \in {x + 1 : x \in DOMAIN given}
  /\ nums = given /\ k = rank
  /\ left = 0 /\ right = Cardinality(DOMAIN given) - 1
  /\ i = 0 /\ j = 0 /\ phase = "range" /\ answer = given[0]

Answer(x) == answer' = nums[x] /\ phase' = "done"

One ==
  /\ phase = "range" /\ left = right /\ Answer(left)
  /\ UNCHANGED <<asked, nums, left, right, k, i, j>>

(* partition starts with the pivot at the right end. *)
Partition(a, pivotIndex) ==
  /\ nums' = Swapped(a, pivotIndex, right)
  /\ i' = left /\ j' = left /\ phase' = "loop"
  /\ UNCHANGED <<asked, left, right, k, answer>>

QuickPartition ==
  /\ phase = "range" /\ left # right /\ ~linear
  /\ \E p \in left .. right : Partition(nums, p)

------------------------------------------------------------------------------
(* The pivot of linear select *)

(* The groups of a range by their number; a group is as long as dividedSize *)
(* or ends where the range ends.                                            *)
Groups    == (Size - 1) \div dividedSize + 1
GroupOf(x) == (x - left) \div dividedSize
Middle(first) ==
  LET last == IF first + dividedSize - 1 < right THEN first + dividedSize - 1 ELSE right
  IN  first + (last - first) \div 2

(* The ways to rearrange the array within its groups. *)
InGroup(x, y) ==
  IF left <= x /\ x <= right
  THEN left <= y /\ y <= right /\ GroupOf(x) = GroupOf(y)
  ELSE y = x
GroupOrders ==
  {p \in [Indices -> Indices] :
     (\A x \in Indices : InGroup(x, p[x])) /\ \A x, y \in Indices : p[x] = p[y] => x = y}

SortedGroups ==
  {a \in {[x \in Indices |-> nums[p[x]]] : p \in GroupOrders} :
     \A x, y \in left .. right : x < y /\ GroupOf(x) = GroupOf(y) => a[x] <= a[y]}

(* Of the indices of the medians, in ascending order, the one in the middle *)
(* is taken: it is the index that is selected, not the median.              *)
PivotGroup == left + dividedSize * (IF Groups = 1 THEN 0 ELSE Groups \div 2 - 1)

LinearPartition ==
  /\ phase = "range" /\ left # right /\ linear
  /\ \E a \in SortedGroups : Partition(a, Middle(PivotGroup))

------------------------------------------------------------------------------
(* The loop of partition, and what findKthSmallest does with the pivot *)

Moves(x) == nums[x] < nums[right]

Loop ==
  /\ phase = "loop" /\ j < right
  /\ nums' = IF Moves(j) THEN Swapped(nums, i, j) ELSE nums
  /\ i' = IF Moves(j) THEN i + 1 ELSE i
  /\ j' = j + 1
  /\ UNCHANGED <<asked, left, right, k, phase, answer>>

Place ==
  /\ phase = "loop" /\ j = right
  /\ nums' = Swapped(nums, i, right) /\ phase' = "decide"
  /\ UNCHANGED <<asked, left, right, k, i, j, answer>>

(* Mutants: the pivot is not counted; the pivot is searched again. *)
pivotRankBefore == i - left
endAtPivot == i
pivotRank  == i - left + 1
endOfLeft  == i - 1

Hit ==
  /\ phase = "decide" /\ k = pivotRank /\ Answer(i)
  /\ UNCHANGED <<asked, nums, left, right, k, i, j>>

GoLeft ==
  /\ phase = "decide" /\ k < pivotRank
  /\ right' = endOfLeft /\ phase' = "range"
  /\ UNCHANGED <<asked, nums, left, k, i, j, answer>>

GoRight ==
  /\ phase = "decide" /\ k > pivotRank
  /\ left' = i + 1 /\ k' = k - pivotRank /\ phase' = "range"
  /\ UNCHANGED <<asked, nums, right, i, j, answer>>

SelectNext == \/ One \/ QuickPartition \/ LinearPartition
        \/ Loop \/ Place \/ Hit \/ GoLeft \/ GoRight

SelectSpec == SelectInit /\ [][SelectNext]_selectVars /\ WF_selectVars(SelectNext)

------------------------------------------------------------------------------
(* Properties *)

(* The answer has as many smaller numbers before it in the given array as a *)
(* number of its rank can have, also when numbers repeat.                   *)
AnswerRight ==
  phase = "done" =>
    /\ Cardinality({x \in DOMAIN given : given[x] < answer}) < rank
    /\ rank <= Cardinality({x \in DOMAIN given : given[x] <= answer})

(* The range always holds the answer: everything left of it is no greater,  *)
(* everything right of it no smaller than what it holds, and the rank       *)
(* sought in it lies in it.                                                 *)
RangeHoldsAnswer ==
  /\ 0 <= left /\ left <= right /\ right \in Indices
  /\ 1 <= k /\ k <= Size /\ left + k = rank
  /\ \A x, y \in Indices : x < left /\ left <= y => nums[x] <= nums[y]
  /\ \A x, y \in Indices : x <= right /\ right < y => nums[x] <= nums[y]

(* Every selection ends, whichever pivots are drawn. *)
SelectionEnds == <>(phase = "done")
==============================================================================
