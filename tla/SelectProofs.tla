----------------------------- MODULE SelectProofs ------------------------------
(***************************************************************************)
(* Both selections find the right number in every array, whichever pivots   *)
(* are drawn and however long the groups are.  What the properties need     *)
(* besides is how far the partitioning loop has come, and that the array    *)
(* never holds other numbers than the caller's.                             *)
(***************************************************************************)
EXTENDS Select, FiniteSetTheorems, FunctionTheorems, TLAPS

Dom == DOMAIN given
N   == Cardinality(Dom)

(* b is a rearranged between lo and hi. *)
Shuffled(a, b, lo, hi) ==
  \E p \in Bijection(Dom, Dom) :
    /\ \A x \in Dom : IF lo <= x /\ x <= hi THEN lo <= p[x] /\ p[x] <= hi ELSE p[x] = x
    /\ b = [x \in Dom |-> a[p[x]]]

Typed ==
  /\ given \in Arrays
  /\ nums \in [Dom -> Int]
  /\ left \in Int /\ right \in Int /\ k \in Int /\ rank \in Int /\ i \in Int /\ j \in Int
  /\ phase \in {"range", "loop", "decide", "done"}

(* The loop has moved what is smaller than the pivot before i. *)
Partitioned ==
  phase = "loop" =>
    /\ left <= i /\ i <= j /\ j <= right
    /\ \A x \in Dom : left <= x /\ x < i => nums[x] < nums[right]
    /\ \A x \in Dom : i <= x /\ x < j => nums[x] >= nums[right]

(* The pivot stands at its place. *)
Placed ==
  phase = "decide" =>
    /\ left <= i /\ i <= right
    /\ \A x \in Dom : left <= x /\ x < i => nums[x] <= nums[i]
    /\ \A x \in Dom : i < x /\ x <= right => nums[i] <= nums[x]

Answered ==
  phase = "done" =>
    /\ rank - 1 \in Dom /\ answer = nums[rank - 1]
    /\ \A x \in Dom : x < rank - 1 => nums[x] <= answer
    /\ \A x \in Dom : x > rank - 1 => answer <= nums[x]

Rearranged == Shuffled(given, nums, 0, N - 1)

Inv == Typed /\ RangeHoldsAnswer /\ Partitioned /\ Placed /\ Answered /\ Rearranged

------------------------------------------------------------------------------
(* Arrays and their rearrangements *)

LEMMA DomFacts ==
  ASSUME given \in Arrays
  PROVE  /\ N \in Nat \ {0} /\ Dom = 0 .. N - 1 /\ IsFiniteSet(Dom)
         /\ given \in [Dom -> Int]
<1>1. IsFiniteSet(Dom) /\ Dom # {} /\ given \in [0 .. N - 1 -> Int]
  BY SelectAssumption DEF Dom, N
<1>2. N \in Nat /\ N # 0
  BY <1>1, FS_CardinalityType, FS_EmptySet DEF N
<1> QED BY <1>1, <1>2 DEF Dom

LEMMA NothingShuffled ==
  ASSUME NEW a \in [Dom -> Int], NEW lo, NEW hi
  PROVE  Shuffled(a, a, lo, hi)
<1> DEFINE p == [x \in Dom |-> x]
<1>1. p \in Bijection(Dom, Dom)
  BY Fun_IsBij
<1>2. a = [x \in Dom |-> a[p[x]]]
  OBVIOUS
<1> QED BY <1>1, <1>2 DEF Shuffled

LEMMA SwapShuffles ==
  ASSUME NEW a \in [Dom -> Int], Dom \subseteq Int, NEW lo \in Int, NEW hi \in Int,
         NEW x \in Dom, NEW y \in Dom, lo <= x, x <= hi, lo <= y, y <= hi
  PROVE  /\ Swapped(a, x, y) \in [Dom -> Int]
         /\ \A z \in Dom : Swapped(a, x, y)[z] =
              IF z = x THEN a[y] ELSE IF z = y THEN a[x] ELSE a[z]
         /\ Shuffled(a, Swapped(a, x, y), lo, hi)
<1> DEFINE p == [z \in Dom |-> IF z = x THEN y ELSE IF z = y THEN x ELSE z]
<1>1. /\ Swapped(a, x, y) \in [Dom -> Int]
      /\ \A z \in Dom : Swapped(a, x, y)[z] =
           IF z = x THEN a[y] ELSE IF z = y THEN a[x] ELSE a[z]
  BY DEF Swapped
<1>2. p \in [Dom -> Dom] /\ (\A z \in Dom : p[p[z]] = z)
  OBVIOUS
<1>3. \A u, v \in Dom : p[u] = p[v] => u = v
  BY <1>2
<1>4. \A u \in Dom : \E v \in Dom : p[v] = u
  BY <1>2
<1>5. p \in Bijection(Dom, Dom)
  <2> HIDE DEF p
  <2> QED BY <1>2, <1>3, <1>4, Fun_IsBij
<1>6. Swapped(a, x, y) = [z \in Dom |-> a[p[z]]]
  BY <1>1
<1>7. \A z \in Dom : IF lo <= z /\ z <= hi THEN lo <= p[z] /\ p[z] <= hi ELSE p[z] = z
  OBVIOUS
<1> QED BY <1>1, <1>5, <1>6, <1>7 DEF Shuffled

LEMMA ShuffledTwice ==
  ASSUME Dom \subseteq Int, NEW lo \in Int, NEW hi \in Int, NEW a, NEW b, NEW c,
         Shuffled(a, b, lo, hi), Shuffled(b, c, lo, hi)
  PROVE  Shuffled(a, c, lo, hi)
<1>1. PICK p \in Bijection(Dom, Dom) :
        /\ \A x \in Dom : IF lo <= x /\ x <= hi THEN lo <= p[x] /\ p[x] <= hi ELSE p[x] = x
        /\ b = [x \in Dom |-> a[p[x]]]
  BY DEF Shuffled
<1>2. PICK q \in Bijection(Dom, Dom) :
        /\ \A x \in Dom : IF lo <= x /\ x <= hi THEN lo <= q[x] /\ q[x] <= hi ELSE q[x] = x
        /\ c = [x \in Dom |-> b[q[x]]]
  BY DEF Shuffled
<1> DEFINE r == [x \in Dom |-> p[q[x]]]
<1>3. p \in [Dom -> Dom] /\ q \in [Dom -> Dom]
  BY Fun_BijectionProperties
<1>4. r \in Bijection(Dom, Dom)
  BY Fun_BijTransitive
<1>5. c = [x \in Dom |-> a[r[x]]]
  BY <1>1, <1>2, <1>3
<1>6. \A x \in Dom : IF lo <= x /\ x <= hi THEN lo <= r[x] /\ r[x] <= hi ELSE r[x] = x
  BY <1>1, <1>2, <1>3
<1> QED BY <1>4, <1>5, <1>6 DEF Shuffled

(* What is rearranged between closer bounds is between wider ones. *)
LEMMA ShuffledWider ==
  ASSUME Dom \subseteq Int, NEW lo \in Int, NEW hi \in Int, NEW a, NEW b,
         Shuffled(a, b, lo, hi), \A x \in Dom : 0 <= x /\ x <= N - 1
  PROVE  Shuffled(a, b, 0, N - 1)
<1>1. PICK p \in Bijection(Dom, Dom) : b = [x \in Dom |-> a[p[x]]]
  BY DEF Shuffled
<1>2. p \in [Dom -> Dom]
  BY Fun_BijectionProperties
<1> QED BY <1>1, <1>2 DEF Shuffled

(* Numbers outside the bounds stay, those inside stay inside. *)
LEMMA ShuffledKeeps ==
  ASSUME Dom \subseteq Int, NEW lo \in Int, NEW hi \in Int, NEW a \in [Dom -> Int], NEW b,
         Shuffled(a, b, lo, hi)
  PROVE  /\ b \in [Dom -> Int]
         /\ \A x \in Dom : ~(lo <= x /\ x <= hi) => b[x] = a[x]
         /\ \A x \in Dom : lo <= x /\ x <= hi =>
              \E y \in Dom : lo <= y /\ y <= hi /\ b[x] = a[y]
<1>1. PICK p \in Bijection(Dom, Dom) :
        /\ \A x \in Dom : IF lo <= x /\ x <= hi THEN lo <= p[x] /\ p[x] <= hi ELSE p[x] = x
        /\ b = [x \in Dom |-> a[p[x]]]
  BY DEF Shuffled
<1>2. p \in [Dom -> Dom]
  BY Fun_BijectionProperties
<1> QED BY <1>1, <1>2

(* What the array's rearrangement between left and right disturbs. *)
LEMMA RangeStaysShuffled ==
  ASSUME Typed, RangeHoldsAnswer, Rearranged,
         Shuffled(nums, nums', left, right), UNCHANGED <<asked, left, right, k>>
  PROVE  nums' \in [Dom -> Int] /\ RangeHoldsAnswer' /\ Rearranged'
<1>1. Dom = 0 .. N - 1 /\ N \in Nat /\ Dom' = Dom /\ N' = N
  BY DomFacts DEF Typed, Dom, N, asked
<1>2. /\ nums' \in [Dom -> Int]
      /\ \A x \in Dom : ~(left <= x /\ x <= right) => nums'[x] = nums[x]
      /\ \A x \in Dom : left <= x /\ x <= right =>
           \E y \in Dom : left <= y /\ y <= right /\ nums'[x] = nums[y]
  <2>1. Dom \subseteq Int
    BY <1>1
  <2>2. nums \in [Dom -> Int] /\ left \in Int /\ right \in Int
    BY DEF Typed
  <2> QED BY <2>1, <2>2, ShuffledKeeps
<1>3. Indices = Dom /\ Indices' = Dom
  BY <1>2 DEF Indices, Typed
<1>4. RangeHoldsAnswer'
  <2>1. /\ left \in Int /\ right \in Int /\ left <= right
        /\ \A x, y \in Dom : x < left /\ left <= y => nums[x] <= nums[y]
        /\ \A x, y \in Dom : x <= right /\ right < y => nums[x] <= nums[y]
    BY <1>3 DEF RangeHoldsAnswer, Typed
  <2>2. ASSUME NEW x \in Dom, NEW y \in Dom, x < left, left <= y
        PROVE  nums'[x] <= nums'[y]
    <3>1. nums'[x] = nums[x]
      BY <1>1, <1>2, <2>1, <2>2
    <3>2. PICK z \in Dom : left <= z /\ nums'[y] = nums[z]
      BY <1>1, <1>2, <2>1, <2>2
    <3> QED BY <2>1, <2>2, <3>1, <3>2
  <2>3. ASSUME NEW x \in Dom, NEW y \in Dom, x <= right, right < y
        PROVE  nums'[x] <= nums'[y]
    <3>1. nums'[y] = nums[y]
      BY <1>1, <1>2, <2>1, <2>3
    <3>2. PICK z \in Dom : z <= right /\ nums'[x] = nums[z]
      BY <1>1, <1>2, <2>1, <2>3
    <3> QED BY <2>1, <2>3, <3>1, <3>2
  <2> QED BY <1>3, <2>2, <2>3 DEF RangeHoldsAnswer, Size, asked
<1>5. Rearranged'
  <2>1. Shuffled(nums, nums', 0, N - 1)
    BY <1>1, ShuffledWider DEF Typed
  <2>2. Shuffled(given, nums', 0, N - 1)
    BY <1>1, <2>1, ShuffledTwice DEF Rearranged
  <2> QED BY <1>1, <2>2 DEF Rearranged, Shuffled, asked
<1> QED BY <1>2, <1>4, <1>5

------------------------------------------------------------------------------
(* The pivot of linear select *)

(* Rearranging within groups is rearranging within the range. *)
LEMMA GroupsShuffle ==
  ASSUME Typed, NEW a \in SortedGroups
  PROVE  Shuffled(nums, a, left, right)
<1>1. IsFiniteSet(Dom) /\ Indices = Dom
  BY DomFacts DEF Typed, Indices
<1>2. PICK p \in GroupOrders : a = [x \in Dom |-> nums[p[x]]]
  BY <1>1 DEF SortedGroups
<1>3. /\ p \in [Dom -> Dom]
      /\ \A x, y \in Dom : p[x] = p[y] => x = y
      /\ \A x \in Dom : InGroup(x, p[x])
  BY <1>1 DEF GroupOrders
<1>4. p \in Injection(Dom, Dom)
  BY <1>3, Fun_IsInj
<1>5. p \in Surjection(Dom, Dom)
  BY <1>1, <1>4, FS_Injection
<1>6. p \in Bijection(Dom, Dom)
  BY <1>4, <1>5, Fun_IsBij
<1> QED BY <1>2, <1>3, <1>6 DEF Shuffled, InGroup

(* The middle of a group of the range is in the range. *)
LEMMA PivotInRange ==
  ASSUME left \in Int, right \in Int, left < right
  PROVE  LET p == Middle(PivotGroup) IN p \in Int /\ left <= p /\ p <= right
<1> DEFINE q == (Size - 1) \div dividedSize
           g == IF Groups = 1 THEN 0 ELSE Groups \div 2 - 1
<1>1. dividedSize \in Nat /\ dividedSize > 1 /\ Size - 1 = right - left /\ Size - 1 \in Nat
  BY SelectAssumption DEF Size
<1>2. q \in Nat /\ dividedSize * q <= Size - 1
  BY <1>1, SMTT(30)
<1>3. g \in Nat /\ g <= q
  <2>1. Groups = q + 1
    BY DEF Groups
  <2> HIDE DEF q
  <2> QED BY <1>2, <2>1
<1>4. dividedSize * g \in Nat /\ dividedSize * g <= dividedSize * q
  <2> HIDE DEF q, g
  <2> QED BY <1>1, <1>2, <1>3, SMTT(30)
<1>5. PivotGroup \in Int /\ left <= PivotGroup /\ PivotGroup <= right
  <2>1. PivotGroup = left + dividedSize * g
    BY DEF PivotGroup
  <2> HIDE DEF q, g
  <2> QED BY <1>1, <1>2, <1>4, <2>1
<1> HIDE DEF q, g
<1> DEFINE last == IF PivotGroup + dividedSize - 1 < right THEN PivotGroup + dividedSize - 1 ELSE right
<1>6. last \in Int /\ PivotGroup <= last /\ last <= right
  BY <1>1, <1>5
<1>7. Middle(PivotGroup) = PivotGroup + (last - PivotGroup) \div 2
  BY DEF Middle
<1> HIDE DEF last
<1> QED BY <1>5, <1>6, <1>7

------------------------------------------------------------------------------
(* The invariant *)

LEMMA RangeFacts ==
  ASSUME Typed, RangeHoldsAnswer
  PROVE  /\ Dom = 0 .. N - 1 /\ N \in Nat /\ Dom \subseteq Int
         /\ left \in Dom /\ right \in Dom /\ left <= right
         /\ 1 <= k /\ k <= right - left + 1 /\ left + k = rank
         /\ \A x, y \in Dom : x < left /\ left <= y => nums[x] <= nums[y]
         /\ \A x, y \in Dom : x <= right /\ right < y => nums[x] <= nums[y]
<1>1. Dom = 0 .. N - 1 /\ N \in Nat
  BY DomFacts DEF Typed
<1>2. Indices = Dom
  BY DEF Typed, Indices
<1> QED BY <1>1, <1>2 DEF RangeHoldsAnswer, Size, Typed

LEMMA InitInv == SelectInit => Inv
<1> SUFFICES ASSUME SelectInit PROVE Inv
  OBVIOUS
<1>1. /\ N \in Nat \ {0} /\ Dom = 0 .. N - 1 /\ given \in [Dom -> Int]
  BY DomFacts DEF SelectInit
<1>2. Typed
  BY <1>1 DEF SelectInit, Typed, N, Dom
<1>3. left = 0 /\ right = N - 1 /\ k = rank /\ 1 <= k /\ k <= N /\ nums = given
  BY <1>1 DEF SelectInit, N, Dom
<1>4. RangeHoldsAnswer
  <2>1. Indices = Dom
    BY <1>3 DEF Indices, Dom
  <2>2. \A x, y \in Dom : ~(x < left /\ left <= y) /\ ~(x <= right /\ right < y)
    BY <1>1, <1>3
  <2>3. 0 <= left /\ left <= right /\ right \in Dom /\ k <= right - left + 1 /\ left + k = rank
    BY <1>1, <1>2, <1>3 DEF Typed
  <2> QED BY <1>3, <2>1, <2>2, <2>3 DEF RangeHoldsAnswer, Size
<1>5. Rearranged
  BY <1>1, <1>3, NothingShuffled DEF Rearranged
<1> QED BY <1>2, <1>4, <1>5 DEF Inv, Partitioned, Placed, Answered, SelectInit

LEMMA OneInv == Inv /\ One => Inv'
<1> SUFFICES ASSUME Inv, One PROVE Inv'
  OBVIOUS
<1> USE DEF Inv
<1>1. Dom' = Dom /\ N' = N /\ nums' = nums
  BY DEF One, Dom, N, asked
<1>2. /\ left \in Dom /\ rank - 1 = left
      /\ \A x \in Dom : x < left => nums[x] <= nums[left]
      /\ \A x \in Dom : x > left => nums[left] <= nums[x]
  BY RangeFacts DEF One, Typed
<1>3. Answered'
  BY <1>1, <1>2 DEF Answered, One, Answer, asked
<1>4. Typed' /\ RangeHoldsAnswer' /\ Rearranged' /\ Partitioned' /\ Placed'
  BY <1>1 DEF Typed, RangeHoldsAnswer, Size, Indices, Rearranged, Shuffled, Partitioned,
              Placed, One, Answer, asked
<1> QED BY <1>3, <1>4

LEMMA PartitionInv ==
  ASSUME Inv, NEW a, Shuffled(nums, a, left, right),
         NEW p \in Int, left <= p, p <= right, Partition(a, p)
  PROVE  Inv'
<1> USE DEF Inv
<1>1. Dom' = Dom /\ UNCHANGED <<asked, left, right, k>>
  BY DEF Partition, Dom, asked
<1>2. /\ Dom = 0 .. N - 1 /\ N \in Nat /\ Dom \subseteq Int
      /\ left \in Dom /\ right \in Dom /\ left <= right
  BY RangeFacts
<1>3. nums \in [Dom -> Int] /\ p \in Dom
  BY <1>2 DEF Typed
<1>4. a \in [Dom -> Int]
  BY <1>2, <1>3, ShuffledKeeps
<1>5. nums' = Swapped(a, p, right) /\ Shuffled(a, nums', left, right)
  BY <1>2, <1>3, <1>4, SwapShuffles DEF Partition
<1>6. Shuffled(nums, nums', left, right)
  BY <1>2, <1>5, ShuffledTwice
<1>7. nums' \in [Dom -> Int] /\ RangeHoldsAnswer' /\ Rearranged'
  BY <1>1, <1>6, RangeStaysShuffled
<1>8. Typed'
  BY <1>1, <1>7 DEF Typed, Partition, asked
<1>9. Partitioned' /\ Placed' /\ Answered'
  BY <1>1, <1>2 DEF Partitioned, Placed, Answered, Partition
<1> QED BY <1>7, <1>8, <1>9

LEMMA LoopInv == Inv /\ Loop => Inv'
<1> SUFFICES ASSUME Inv, Loop PROVE Inv'
  OBVIOUS
<1> USE DEF Inv
<1>1. Dom' = Dom /\ UNCHANGED <<asked, left, right, k, phase, answer>>
  BY DEF Loop, Dom, asked
<1>2. /\ Dom = 0 .. N - 1 /\ N \in Nat /\ Dom \subseteq Int
      /\ left \in Dom /\ right \in Dom /\ left <= right /\ nums \in [Dom -> Int]
  BY RangeFacts DEF Typed
<1>3. /\ phase = "loop" /\ left <= i /\ i <= j /\ j < right /\ i \in Dom /\ j \in Dom
      /\ \A x \in Dom : left <= x /\ x < i => nums[x] < nums[right]
      /\ \A x \in Dom : i <= x /\ x < j => nums[x] >= nums[right]
  BY <1>2 DEF Loop, Partitioned, Typed
<1>4. CASE Moves(j)
  <2>1. nums' = Swapped(nums, i, j) /\ i' = i + 1 /\ j' = j + 1 /\ nums[j] < nums[right]
    BY <1>4 DEF Loop, Moves
  <2>2. /\ Shuffled(nums, nums', left, right)
        /\ \A z \in Dom : nums'[z] = IF z = i THEN nums[j] ELSE IF z = j THEN nums[i] ELSE nums[z]
    <3>1. /\ Shuffled(nums, Swapped(nums, i, j), left, right)
          /\ \A z \in Dom : Swapped(nums, i, j)[z] =
               IF z = i THEN nums[j] ELSE IF z = j THEN nums[i] ELSE nums[z]
      <4>1. /\ left \in Int /\ right \in Int /\ i <= right /\ left <= j /\ j <= right
            /\ Dom \subseteq Int /\ i \in Dom /\ j \in Dom /\ left <= i
        BY <1>2, <1>3
      <4>2. nums \in [Dom -> Int]
        BY <1>2
      <4> QED BY <4>1, <4>2, SwapShuffles
    <3> QED BY <2>1, <3>1
  <2>3. nums' \in [Dom -> Int] /\ RangeHoldsAnswer' /\ Rearranged'
    BY <1>1, <2>2, RangeStaysShuffled
  <2>4. nums'[right] = nums[right]
    BY <1>2, <1>3, <2>2
  <2>5. \A x \in Dom : left <= x /\ x < i + 1 => nums'[x] < nums'[right]
    <3> SUFFICES ASSUME NEW x \in Dom, left <= x, x < i + 1
                 PROVE  nums'[x] < nums'[right]
      OBVIOUS
    <3>1. CASE x = i
      BY <2>1, <2>2, <2>4, <3>1
    <3>2. CASE x # i
      <4>1. x \in Int /\ x < i /\ x # j
        BY <1>2, <1>3, <3>2
      <4> QED BY <1>3, <2>2, <2>4, <4>1
    <3> QED BY <3>1, <3>2
  <2>6. \A x \in Dom : i + 1 <= x /\ x < j + 1 => nums'[x] >= nums'[right]
    <3> SUFFICES ASSUME NEW x \in Dom, i + 1 <= x, x < j + 1
                 PROVE  nums'[x] >= nums'[right]
      OBVIOUS
    <3>1. x \in Int /\ i \in Int /\ j \in Int
      BY <1>2, <1>3
    <3>2. CASE x = j
      <4>1. i # j /\ i <= i /\ i < j
        BY <1>3, <3>1, <3>2
      <4>2. nums[i] >= nums[right]
        BY <1>3, <4>1
      <4>3. nums'[x] = nums[i]
        BY <2>2, <3>2, <4>1
      <4> QED BY <2>4, <4>2, <4>3
    <3>3. CASE x # j
      <4>1. x # i /\ i <= x /\ x < j
        BY <3>1, <3>3
      <4>2. nums'[x] = nums[x]
        BY <2>2, <3>3, <4>1
      <4>3. nums[x] >= nums[right]
        BY <1>3, <4>1
      <4> QED BY <2>4, <4>2, <4>3
    <3> QED BY <3>2, <3>3
  <2>7. Partitioned'
    BY <1>1, <1>2, <1>3, <2>1, <2>5, <2>6 DEF Partitioned
  <2>8. Typed'
    BY <1>1, <1>3, <2>1, <2>3 DEF Typed, asked
  <2> QED BY <1>1, <1>3, <2>3, <2>7, <2>8 DEF Placed, Answered
<1>5. CASE ~Moves(j)
  <2>1. nums' = nums /\ i' = i /\ j' = j + 1
    BY <1>5 DEF Loop
  <2>2. nums[j] >= nums[right]
    BY <1>2, <1>3, <1>5 DEF Moves
  <2>3. Partitioned'
    BY <1>1, <1>2, <1>3, <2>1, <2>2 DEF Partitioned
  <2>4. Shuffled(nums, nums', left, right)
    BY <1>2, <2>1, NothingShuffled
  <2>5. RangeHoldsAnswer' /\ Rearranged'
    BY <1>1, <2>4, RangeStaysShuffled
  <2>6. Typed'
    BY <1>1, <2>1 DEF Typed, asked
  <2> QED BY <1>1, <1>3, <2>3, <2>5, <2>6 DEF Placed, Answered
<1> QED BY <1>4, <1>5

LEMMA PlaceInv == Inv /\ Place => Inv'
<1> SUFFICES ASSUME Inv, Place PROVE Inv'
  OBVIOUS
<1> USE DEF Inv
<1>1. Dom' = Dom /\ UNCHANGED <<asked, left, right, k, i, j, answer>> /\ phase' = "decide"
  BY DEF Place, Dom, asked
<1>2. /\ Dom = 0 .. N - 1 /\ N \in Nat /\ Dom \subseteq Int
      /\ left \in Dom /\ right \in Dom /\ left <= right /\ nums \in [Dom -> Int]
  BY RangeFacts DEF Typed
<1>3. /\ left <= i /\ i <= right /\ i \in Dom
      /\ \A x \in Dom : left <= x /\ x < i => nums[x] < nums[right]
      /\ \A x \in Dom : i <= x /\ x < right => nums[x] >= nums[right]
  BY <1>2 DEF Place, Partitioned, Typed
<1>4. /\ Shuffled(nums, nums', left, right)
      /\ \A z \in Dom : nums'[z] =
           IF z = i THEN nums[right] ELSE IF z = right THEN nums[i] ELSE nums[z]
  <2>1. /\ Shuffled(nums, Swapped(nums, i, right), left, right)
        /\ \A z \in Dom : Swapped(nums, i, right)[z] =
             IF z = i THEN nums[right] ELSE IF z = right THEN nums[i] ELSE nums[z]
    <3>1. /\ left \in Int /\ right \in Int /\ left <= right /\ right <= right
          /\ Dom \subseteq Int /\ i \in Dom /\ right \in Dom /\ left <= i /\ i <= right
      BY <1>2, <1>3
    <3>2. nums \in [Dom -> Int]
      BY <1>2
    <3> QED BY <3>1, <3>2, SwapShuffles
  <2> QED BY <2>1 DEF Place
<1>5. nums' \in [Dom -> Int] /\ RangeHoldsAnswer' /\ Rearranged'
  BY <1>1, <1>4, RangeStaysShuffled
<1>6. \A x \in Dom : left <= x /\ x < i => nums'[x] <= nums'[i]
  BY <1>2, <1>3, <1>4
<1>7. \A x \in Dom : i < x /\ x <= right => nums'[i] <= nums'[x]
  BY <1>2, <1>3, <1>4
<1>8. Placed'
  BY <1>1, <1>3, <1>6, <1>7 DEF Placed
<1>9. Typed'
  BY <1>1, <1>5 DEF Typed, asked
<1> QED BY <1>1, <1>5, <1>8, <1>9 DEF Partitioned, Answered

LEMMA HitInv == Inv /\ Hit => Inv'
<1> SUFFICES ASSUME Inv, Hit PROVE Inv'
  OBVIOUS
<1> USE DEF Inv
<1>1. Dom' = Dom /\ UNCHANGED <<asked, nums, left, right, k, i, j>> /\ phase' = "done"
  BY DEF Hit, Answer, Dom, asked
<1>2. /\ Dom = 0 .. N - 1 /\ N \in Nat
      /\ left \in Dom /\ right \in Dom /\ left + k = rank
      /\ \A x, y \in Dom : x < left /\ left <= y => nums[x] <= nums[y]
      /\ \A x, y \in Dom : x <= right /\ right < y => nums[x] <= nums[y]
  BY RangeFacts
<1>3. /\ left <= i /\ i <= right /\ i \in Dom
      /\ \A x \in Dom : left <= x /\ x < i => nums[x] <= nums[i]
      /\ \A x \in Dom : i < x /\ x <= right => nums[i] <= nums[x]
  BY <1>2 DEF Hit, Placed, Typed
<1>4. rank - 1 = i
  BY <1>2, <1>3 DEF Hit, pivotRank, Typed
<1>5. \A x \in Dom : x < i => nums[x] <= nums[i]
  BY <1>2, <1>3
<1>6. \A x \in Dom : x > i => nums[i] <= nums[x]
  BY <1>2, <1>3
<1>7. Answered'
  BY <1>1, <1>3, <1>4, <1>5, <1>6 DEF Answered, Hit, Answer, asked
<1>8. Typed' /\ RangeHoldsAnswer' /\ Rearranged'
  BY <1>1 DEF Typed, RangeHoldsAnswer, Size, Indices, Rearranged, Shuffled, N, Dom, asked
<1> QED BY <1>1, <1>7, <1>8 DEF Partitioned, Placed

LEMMA NarrowInv == Inv /\ (GoLeft \/ GoRight) => Inv'
<1> SUFFICES ASSUME Inv, GoLeft \/ GoRight PROVE Inv'
  OBVIOUS
<1> USE DEF Inv
<1>1. Dom' = Dom /\ N' = N /\ UNCHANGED <<asked, nums, i, j, answer>> /\ phase' = "range"
  BY DEF GoLeft, GoRight, Dom, N, asked
<1>2. /\ Dom = 0 .. N - 1 /\ N \in Nat
      /\ left \in Dom /\ right \in Dom /\ left <= right
      /\ 1 <= k /\ k <= right - left + 1 /\ left + k = rank
      /\ \A x, y \in Dom : x < left /\ left <= y => nums[x] <= nums[y]
      /\ \A x, y \in Dom : x <= right /\ right < y => nums[x] <= nums[y]
  BY RangeFacts
<1>3. /\ left <= i /\ i <= right /\ i \in Dom /\ k \in Int /\ nums \in [Dom -> Int]
      /\ \A x \in Dom : left <= x /\ x < i => nums[x] <= nums[i]
      /\ \A x \in Dom : i < x /\ x <= right => nums[i] <= nums[x]
  BY <1>2 DEF GoLeft, GoRight, Placed, Typed
<1>4. Indices = Dom /\ Indices' = Dom
  BY <1>1, <1>3 DEF Indices
<1>5. CASE GoLeft
  <2>1. left' = left /\ right' = i - 1 /\ k' = k /\ k <= i - left
    BY <1>2, <1>3, <1>5 DEF GoLeft, endOfLeft, pivotRank
  <2>2. ASSUME NEW x \in Dom, NEW y \in Dom, x <= i - 1, i - 1 < y
        PROVE  nums[x] <= nums[y]
    <3>1. nums[x] <= nums[i]
      BY <1>2, <1>3, <2>2
    <3>2. nums[i] <= nums[y]
      BY <1>2, <1>3, <2>2
    <3> QED BY <1>3, <2>2, <3>1, <3>2
  <2>3. RangeHoldsAnswer'
    BY <1>1, <1>2, <1>3, <1>4, <2>1, <2>2 DEF RangeHoldsAnswer, Size, asked
  <2> QED BY <1>1, <1>2, <1>3, <2>1, <2>3
          DEF Typed, Rearranged, Shuffled, Partitioned, Placed, Answered, asked
<1>6. CASE GoRight
  <2>1. left' = i + 1 /\ right' = right /\ k' = k - (i - left + 1) /\ k > i - left + 1
    BY <1>6 DEF GoRight, pivotRank
  <2>2. ASSUME NEW x \in Dom, NEW y \in Dom, x < i + 1, i + 1 <= y
        PROVE  nums[x] <= nums[y]
    <3>1. nums[x] <= nums[i]
      BY <1>2, <1>3, <2>2
    <3>2. nums[i] <= nums[y]
      BY <1>2, <1>3, <2>2
    <3> QED BY <1>3, <2>2, <3>1, <3>2
  <2>3. RangeHoldsAnswer'
    BY <1>1, <1>2, <1>3, <1>4, <2>1, <2>2 DEF RangeHoldsAnswer, Size, asked
  <2> QED BY <1>1, <1>2, <1>3, <2>1, <2>3
          DEF Typed, Rearranged, Shuffled, Partitioned, Placed, Answered, asked
<1> QED BY <1>5, <1>6

LEMMA NextInv == Inv /\ [SelectNext]_selectVars => Inv'
<1> SUFFICES ASSUME Inv, [SelectNext]_selectVars PROVE Inv'
  OBVIOUS
<1>1. CASE QuickPartition
  <2>1. PICK p \in left .. right : Partition(nums, p)
    BY <1>1 DEF QuickPartition
  <2>2. Shuffled(nums, nums, left, right) /\ left \in Int /\ right \in Int
    BY NothingShuffled DEF Inv, Typed
  <2> QED BY <2>1, <2>2, PartitionInv
<1>2. CASE LinearPartition
  <2>1. PICK a \in SortedGroups : Partition(a, Middle(PivotGroup))
    BY <1>2 DEF LinearPartition
  <2>2. Shuffled(nums, a, left, right)
    BY GroupsShuffle DEF Inv
  <2>3. left \in Int /\ right \in Int /\ left < right
    BY <1>2, RangeFacts DEF LinearPartition, Inv, Typed
  <2> HIDE DEF Inv
  <2> QED BY <2>1, <2>2, <2>3, PivotInRange, PartitionInv
<1>3. CASE UNCHANGED selectVars
  BY <1>3 DEF Inv, selectVars, asked, Typed, RangeHoldsAnswer, Size, Indices, Partitioned,
              Placed, Answered, Rearranged, Shuffled, Dom, N
<1> QED BY <1>1, <1>2, <1>3, OneInv, LoopInv, PlaceInv, HitInv, NarrowInv DEF SelectNext

------------------------------------------------------------------------------
(* What an order of numbers says about ranks *)

LEMMA InvAnswers == Inv => AnswerRight
<1> SUFFICES ASSUME Inv, phase = "done" PROVE
      /\ Cardinality({x \in Dom : given[x] < answer}) < rank
      /\ rank <= Cardinality({x \in Dom : given[x] <= answer})
  BY DEF AnswerRight, Dom
<1>1. /\ Dom = 0 .. N - 1 /\ N \in Nat /\ IsFiniteSet(Dom) /\ given \in [Dom -> Int]
      /\ nums \in [Dom -> Int] /\ rank \in Int
  BY DomFacts DEF Inv, Typed
<1>2. /\ rank - 1 \in Dom /\ answer \in Int /\ answer = nums[rank - 1]
      /\ \A x \in Dom : x < rank - 1 => nums[x] <= answer
      /\ \A x \in Dom : x > rank - 1 => answer <= nums[x]
  BY <1>1 DEF Inv, Answered
<1>3. PICK p \in Bijection(Dom, Dom) : nums = [x \in Dom |-> given[p[x]]]
  BY DEF Inv, Rearranged, Shuffled
<1>4. /\ p \in [Dom -> Dom]
      /\ \A x, y \in Dom : p[x] = p[y] => x = y
      /\ \A y \in Dom : \E x \in Dom : p[x] = y
  BY Fun_BijectionProperties
<1> DEFINE Smaller == {x \in Dom : given[x] < answer}
           Upto    == {x \in Dom : given[x] <= answer}
<1>5. Cardinality(Smaller) < rank
  <2> DEFINE before == [y \in 0 .. rank - 2 |-> p[y]]
  <2> DEFINE Q == {p[y] : y \in 0 .. rank - 2}
  <2>0. rank - 1 \in 0 .. N - 1 /\ rank - 2 \in Int
    BY <1>1, <1>2
  <2>1. Smaller \subseteq Q
    <3>1. SUFFICES ASSUME NEW x \in Dom, given[x] < answer PROVE x \in Q
      OBVIOUS
    <3>2. PICK y \in Dom : p[y] = x
      BY <1>4
    <3>3. nums[y] < answer
      BY <1>3, <3>1, <3>2
    <3>4. y < rank - 1
      <4>1. y \in Int /\ nums[y] \in Int /\ ~(answer <= nums[y])
        BY <1>1, <1>2, <3>3
      <4>2. ~(y > rank - 1) /\ y # rank - 1
        BY <1>2, <4>1
      <4> QED BY <1>1, <4>1, <4>2
    <3>5. y \in 0 .. rank - 2
      BY <1>1, <2>0, <3>4
    <3> QED BY <3>2, <3>5
  <2>2. before \in Surjection(0 .. rank - 2, Q)
    BY Fun_IsSurj
  <2>3. IsFiniteSet(0 .. rank - 2) /\ Cardinality(0 .. rank - 2) <= rank - 1
    <3>1. 0 \in Int /\ rank - 2 \in Int /\ rank - 1 >= 0 /\ rank \in Int
      BY <1>1, <2>0
    <3>2. /\ IsFiniteSet(0 .. rank - 2)
          /\ Cardinality(0 .. rank - 2) = IF 0 > rank - 2 THEN 0 ELSE rank - 2 - 0 + 1
      BY <3>1, FS_Interval
    <3> QED BY <3>1, <3>2
  <2>4. IsFiniteSet(Q) /\ Cardinality(Q) <= Cardinality(0 .. rank - 2)
    BY <2>2, <2>3, FS_Surjection
  <2> HIDE DEF Q, Smaller, before
  <2>5. Cardinality(Smaller) <= Cardinality(Q)
    BY <2>1, <2>4, FS_Subset
  <2>6. Cardinality(Smaller) \in Nat /\ Cardinality(Q) \in Nat /\ Cardinality(0 .. rank - 2) \in Nat
    BY <2>1, <2>3, <2>4, FS_Subset, FS_CardinalityType
  <2> QED BY <1>1, <2>3, <2>4, <2>5, <2>6
<1>6. rank <= Cardinality(Upto)
  <2> DEFINE upto == [y \in 0 .. rank - 1 |-> p[y]]
  <2>0. 0 .. rank - 1 \subseteq Dom
    BY <1>1, <1>2
  <2>1. upto \in [0 .. rank - 1 -> Upto]
    <3>1. SUFFICES ASSUME NEW y \in 0 .. rank - 1 PROVE p[y] \in Upto
      OBVIOUS
    <3>2. nums[y] <= answer
      BY <1>1, <1>2, <2>0
    <3> QED BY <1>3, <1>4, <2>0, <3>2
  <2>2. \A x, y \in 0 .. rank - 1 : upto[x] = upto[y] => x = y
    BY <1>4, <2>0
  <2>3. IsFiniteSet(Upto)
    BY <1>1, FS_Subset
  <2> HIDE DEF upto, Upto
  <2>4. upto \in Injection(0 .. rank - 1, Upto)
    BY <2>1, <2>2, Fun_IsInj
  <2>5. Cardinality(0 .. rank - 1) <= Cardinality(Upto)
    BY <2>3, <2>4, FS_Injection
  <2>6. Cardinality(0 .. rank - 1) = rank
    BY <1>1, <1>2, FS_Interval
  <2> QED BY <2>5, <2>6
<1> QED BY <1>5, <1>6

(* Both selections return a number of the rank asked for, for every array,  *)
(* every draw of pivots and every length of the groups (findKthSmallest).   *)
THEOREM SelectionIsRight == SelectSpec => []AnswerRight
<1>1. Inv => AnswerRight
  BY InvAnswers
<1> QED BY <1>1, InitInv, NextInv, PTL DEF SelectSpec

(* The recursion never leaves the part of the array that holds the answer   *)
(* (partition and findKthSmallest).                                         *)
THEOREM SelectionStaysInRange == SelectSpec => []RangeHoldsAnswer
<1>1. Inv => RangeHoldsAnswer
  BY DEF Inv
<1> QED BY <1>1, InitInv, NextInv, PTL DEF SelectSpec
==============================================================================
