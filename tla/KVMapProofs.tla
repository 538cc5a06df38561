------------------------------ MODULE KVMapProofs ------------------------------
(***************************************************************************)
(* That KVStore keeps the map, for every choice of the constants: whatever  *)
(* flush, compactions and gc do with tables and records, every key keeps    *)
(* the value get returns, and gc never punches a record a table still       *)
(* finds.  The argument goes from what get finds in the tables, which no    *)
(* compaction changes except that it forgets deleted keys, to the record of *)
(* the log it points to, and from there to the value.                       *)
(***************************************************************************)
EXTENDS KVStoreProofs, KVScan

(* What get finds in tables of level 0 and of the levels below. *)
In0(l0, k) == {i \in DOMAIN l0 : k \in KeysOf(l0[i])}
InLevels(lv, k) == {l \in DOMAIN lv : Holding(lv[l], k) # {}}
Find(l0, lv, k) ==
  IF In0(l0, k) # {} THEN l0[Max(In0(l0, k))].items[k]
  ELSE IF InLevels(lv, k) # {}
       THEN Newest(Holding(lv[Min(InLevels(lv, k))], k)).items[k]
       ELSE NoItem

(* Tables in which that is determined: below level 0 no two tables of a     *)
(* level overlap.                                                           *)
Tidy(l0, lv, n) ==
  /\ n \in Nat
  /\ l0 \in Seq(Range(l0)) /\ \A i \in DOMAIN l0 : IsTable(l0[i], Keys, n)
  /\ lv \in Seq(Range(lv)) /\ \A l \in DOMAIN lv : \A t \in lv[l] : IsTable(t, Keys, n)
  /\ \A l \in DOMAIN lv : \A t, u \in lv[l] : t # u => Apart(t, u)

(* The three ways a search ends: in the youngest table of level 0 that has  *)
(* the key, in the only table of the first level that has it, or nowhere.   *)
TopAt(l0, k, i) == /\ i \in DOMAIN l0 /\ k \in KeysOf(l0[i])
                   /\ \A j \in DOMAIN l0 : k \in KeysOf(l0[j]) => j <= i
NotIn0(l0, k) == \A i \in DOMAIN l0 : k \notin KeysOf(l0[i])
NotAbove(lv, k, l) == \A m \in DOMAIN lv : m < l => \A u \in lv[m] : k \notin KeysOf(u)
BelowAt(lv, k, l, t) == /\ l \in DOMAIN lv /\ t \in lv[l] /\ k \in KeysOf(t)
                        /\ NotAbove(lv, k, l)
NotBelow(lv, k) == \A l \in DOMAIN lv : \A u \in lv[l] : k \notin KeysOf(u)

LEMMA ItemIsFind == \A k : Item(k) = Find(level0, levels, k)
BY DEF Item, Find, Level0With, LevelsWith, In0, InLevels

(* Two tables of a level never have the same key. *)
LEMMA OneHolder ==
  ASSUME NEW n \in Nat, NEW t, IsTable(t, Keys, n), NEW u, IsTable(u, Keys, n),
         Apart(t, u), NEW k, k \in KeysOf(t)
  PROVE  k \notin KeysOf(u)
<1>1. MaxKey \in Nat /\ Keys \in SUBSET (0 .. MaxKey)
  BY KeysBounded
<1>2. \A x \in {t, u} : /\ KeysOf(x) \in SUBSET Nat
                        /\ Smallest(x) \in Nat /\ Largest(x) \in Nat
                        /\ \A j \in KeysOf(x) : Smallest(x) <= j /\ j <= Largest(x)
  BY <1>1, TableFacts
<1> QED BY <1>2 DEF Apart

LEMMA FindTop ==
  ASSUME NEW l0, NEW lv, NEW n, Tidy(l0, lv, n), NEW k, NEW i, TopAt(l0, k, i)
  PROVE  Find(l0, lv, k) = l0[i].items[k]
<1>1. DOMAIN l0 = 1 .. Len(l0) /\ Len(l0) \in Nat
  BY SeqFacts DEF Tidy
<1>2. In0(l0, k) \in SUBSET Nat /\ i \in In0(l0, k) /\ \A j \in In0(l0, k) : j <= i
  BY <1>1 DEF In0, TopAt
<1>3. Max(In0(l0, k)) \in In0(l0, k) /\ i <= Max(In0(l0, k))
  BY <1>2, MaxInSet
<1>4. Max(In0(l0, k)) = i
  BY <1>2, <1>3
<1> QED BY <1>2, <1>4 DEF Find

LEMMA FindBelow ==
  ASSUME NEW l0, NEW lv, NEW n, Tidy(l0, lv, n), NEW k, NotIn0(l0, k),
         NEW l, NEW t, BelowAt(lv, k, l, t)
  PROVE  Find(l0, lv, k) = t.items[k]
<1>1. MaxKey \in Nat /\ Keys \in SUBSET (0 .. MaxKey) /\ n \in Nat
  BY KeysBounded DEF Tidy
<1>2. DOMAIN lv = 1 .. Len(lv) /\ Len(lv) \in Nat
  BY SeqFacts DEF Tidy
<1>3. In0(l0, k) = {}
  BY DEF In0, NotIn0
<1>4. InLevels(lv, k) \in SUBSET Nat /\ l \in InLevels(lv, k)
  BY <1>2 DEF InLevels, Holding, BelowAt
<1>5. \A m \in InLevels(lv, k) : ~(m < l)
  BY DEF InLevels, Holding, BelowAt, NotAbove
<1>6. Min(InLevels(lv, k)) \in InLevels(lv, k) /\ Min(InLevels(lv, k)) <= l
  BY <1>4, MinInSet
<1>7. Min(InLevels(lv, k)) = l
  BY <1>4, <1>5, <1>6
<1> DEFINE S == Holding(lv[l], k)
<1>8. t \in S /\ \A u \in S : u \in lv[l] /\ k \in KeysOf(u)
  BY DEF Holding, BelowAt
<1>9. \A u \in S : IsTable(u, Keys, n)
  BY <1>8 DEF Tidy, BelowAt
<1>10. \A u \in S : u = t
  <2> SUFFICES ASSUME NEW u \in S, u # t PROVE FALSE
    OBVIOUS
  <2>1. Apart(t, u)
    BY <1>8 DEF Tidy, BelowAt
  <2> QED BY <1>1, <1>8, <1>9, <2>1, OneHolder
<1>11. Newest(S) = t
  <2> HIDE DEF S
  <2>1. Newest(S) \in S
    BY <1>1, <1>8, <1>9, NewestInSet
  <2> QED BY <2>1, <1>10
<1> QED BY <1>3, <1>4, <1>7, <1>11 DEF Find

LEMMA FindNone ==
  ASSUME NEW l0, NEW lv, NEW k, NotIn0(l0, k), NotBelow(lv, k)
  PROVE  Find(l0, lv, k) = NoItem
BY DEF Find, In0, InLevels, Holding, NotIn0, NotBelow

LEMMA FindCases ==
  ASSUME NEW l0, NEW lv, NEW n, Tidy(l0, lv, n), NEW k
  PROVE  \/ \E i : TopAt(l0, k, i)
         \/ NotIn0(l0, k) /\ \E l, t : BelowAt(lv, k, l, t)
         \/ NotIn0(l0, k) /\ NotBelow(lv, k)
<1>1. DOMAIN l0 = 1 .. Len(l0) /\ Len(l0) \in Nat /\ DOMAIN lv = 1 .. Len(lv) /\ Len(lv) \in Nat
  BY SeqFacts DEF Tidy
<1>2. CASE In0(l0, k) # {}
  <2>1. In0(l0, k) \in SUBSET Nat /\ \A j \in In0(l0, k) : j <= Len(l0)
    BY <1>1 DEF In0
  <2>2. /\ Max(In0(l0, k)) \in In0(l0, k)
        /\ \A j \in In0(l0, k) : j <= Max(In0(l0, k))
    BY <1>1, <1>2, <2>1, MaxInSet
  <2>3. TopAt(l0, k, Max(In0(l0, k)))
    BY <2>2 DEF TopAt, In0
  <2> QED BY <2>3
<1>3. CASE In0(l0, k) = {} /\ InLevels(lv, k) # {}
  <2> DEFINE l == Min(InLevels(lv, k))
  <2>1. InLevels(lv, k) \in SUBSET Nat
    BY <1>1 DEF InLevels
  <2>2. l \in InLevels(lv, k) /\ \A m \in InLevels(lv, k) : l <= m
    BY <1>3, <2>1, MinInSet
  <2> HIDE DEF l
  <2>3. PICK t \in lv[l] : k \in KeysOf(t)
    BY <2>2 DEF InLevels, Holding
  <2>4. ASSUME NEW m \in DOMAIN lv, m < l, NEW u \in lv[m], k \in KeysOf(u)
        PROVE  FALSE
    <3>1. m \in InLevels(lv, k)
      BY <2>4 DEF InLevels, Holding
    <3> QED BY <2>1, <2>2, <2>4, <3>1
  <2>5. BelowAt(lv, k, l, t)
    BY <2>2, <2>3, <2>4 DEF BelowAt, NotAbove, InLevels
  <2> QED BY <1>3, <2>5 DEF NotIn0, In0
<1>4. CASE In0(l0, k) = {} /\ InLevels(lv, k) = {}
  BY <1>4 DEF NotIn0, NotBelow, In0, InLevels, Holding
<1> QED BY <1>2, <1>3, <1>4

------------------------------------------------------------------------------
(* Cutting and merging *)

(* Cutting items into tables neither changes, loses nor adds one. *)
LEMMA SplitItems ==
  ASSUME NEW D, NEW f \in [D -> Items], NEW a
  PROVE  /\ \A k \in D : \E t \in Split(f, a) : k \in KeysOf(t) /\ t.items[k] = f[k]
         /\ \A t \in Split(f, a) : \A k \in KeysOf(t) : k \in D /\ t.items[k] = f[k]
<1>1. ASSUME NEW k \in D
      PROVE  \E t \in Split(f, a) : k \in KeysOf(t) /\ t.items[k] = f[k]
  <2> DEFINE t == Table(a, Restrict(f, ChunkOf(D, k)))
  <2>1. t \in Split(f, a)
    BY DEF Split
  <2>2. k \in ChunkOf(D, k)
    BY DEF ChunkOf
  <2>3. k \in KeysOf(t) /\ t.items[k] = f[k]
    BY <2>2 DEF KeysOf, Table, Restrict
  <2> QED BY <2>1, <2>3
<1>2. ASSUME NEW t \in Split(f, a), NEW k \in KeysOf(t)
      PROVE  k \in D /\ t.items[k] = f[k]
  <2>1. PICK j \in D : t = Table(a, Restrict(f, ChunkOf(D, j)))
    BY DEF Split
  <2>2. k \in ChunkOf(D, j) /\ t.items[k] = f[k]
    BY <2>1 DEF KeysOf, Table, Restrict
  <2> QED BY <2>2 DEF ChunkOf
<1> QED BY <1>1, <1>2

(* Merging takes an item from the table that is younger than all others     *)
(* that have its key.                                                       *)
LEMMA MergedAt ==
  ASSUME NEW n \in Nat, NEW S, \A t \in S : IsTable(t, Keys, n),
         NEW t \in S, NEW k \in KeysOf(t),
         \A u \in S : k \in KeysOf(u) /\ u # t => Older(u, t)
  PROVE  k \in UNION {KeysOf(u) : u \in S} /\ Merged(S)[k] = t.items[k]
<1>1. MaxKey \in Nat /\ Keys \in SUBSET (0 .. MaxKey)
  BY KeysBounded
<1> DEFINE H == Holding(S, k)
<1>2. t \in H /\ \A u \in H : u \in S /\ k \in KeysOf(u) /\ IsTable(u, Keys, n)
  BY DEF Holding
<1> HIDE DEF H
<1>3. Newest(H) \in H /\ \A u \in H : ~Older(Newest(H), u)
  BY <1>1, <1>2, NewestInSet
<1>4. Newest(H) = t
  BY <1>2, <1>3
<1> QED BY <1>4 DEF Merged, H

LEMMA KeptAt ==
  ASSUME NEW D, NEW f \in [D -> Items], NEW isLastLevel
  PROVE  /\ Kept(f, isLastLevel) \in [{k \in D : ~(isLastLevel /\ f[k].vlen = 0)} -> Items]
         /\ \A k \in D : ~(isLastLevel /\ f[k].vlen = 0) => Kept(f, isLastLevel)[k] = f[k]
BY DEF Kept, Restrict

------------------------------------------------------------------------------
(* What a compaction does to the items get finds *)

(* The item of the key stays what it was, or it is forgotten because it     *)
(* says that the key was deleted.                                           *)
SameItem(k) == \/ Item(k)' = Item(k)
               \/ Item(k).vlen = 0 /\ Item(k)' = NoItem

TablesInv == LevelsInv /\ LevelsDisjoint /\ AgesDescend

LEMMA TablesInvInductive ==
  ASSUME NarrowKeys
  PROVE  /\ Init => TablesInv
         /\ TablesInv /\ [Next]_vars => TablesInv'
<1>1. Init => LevelsDisjoint /\ AgesDescend
  BY NoTables DEF Init, LevelsDisjoint, AgesDescend
<1>2. TablesInv /\ [Next]_vars => TablesInv'
  BY LevelsInvInductive, DisjointStep, AgesDescendStep DEF TablesInv
<1> QED BY <1>1, <1>2, LevelsInvInductive DEF TablesInv

LEMMA ItemsAreFound ==
  ASSUME TablesInv
  PROVE  Tidy(level0, levels, Stamps)
<1>1. TablesOK
  BY TypeParts DEF TablesInv, LevelsInv, Inv
<1> QED BY <1>1, DisjointIsApart DEF TablesInv, TablesOK, Tidy, Made, Stamps

LEMMA ItemsAreFoundNext ==
  ASSUME TablesInv'
  PROVE  /\ Tidy(level0', levels', Stamps')
         /\ \A k : Item(k)' = Find(level0', levels', k)
<1>1. TypeOK' /\ LevelsDisjoint'
  BY DEF TablesInv, LevelsInv, Inv
<1>0. Stamps' \in Nat
  BY <1>1 DEF TypeOK, Stamps
<1>2. /\ Stamps' \in Nat
      /\ level0' \in Seq(Range(level0'))
      /\ \A i \in DOMAIN level0' : IsTable(level0'[i], Keys, Stamps')
      /\ levels' \in Seq(Range(levels'))
      /\ \A l \in DOMAIN levels' : \A t \in levels'[l] : IsTable(t, Keys, Stamps')
  BY <1>0, <1>1 DEF TypeOK, Made
<1>3. \A l \in DOMAIN levels' : \A t, u \in levels'[l] : t # u => Apart(t, u)
  BY <1>1 DEF LevelsDisjoint, Apart
<1>4. \A k : Item(k)' = Find(level0', levels', k)
  BY DEF Item, Find, Level0With, LevelsWith, In0, InLevels
<1> QED BY <1>2, <1>3, <1>4 DEF Tidy

(* compactLevel0: what it merges is, for every key of the merged tables,    *)
(* what get found, and all other tables stay.                               *)
LEMMA CompactLevel0Items ==
  ASSUME TablesInv, TablesInv', CompactLevel0, NEW k \in Keys
  PROVE  SameItem(k)
<1> DEFINE S == From0 \cup Into0
           D == UNION {KeysOf(t) : t \in S}
           last == Len(levels) = 0
           kept == Kept(Merged(S), last)
<1>1. /\ Tidy(level0, levels, Stamps) /\ Tidy(level0', levels', Stamps')
      /\ Item(k) = Find(level0, levels, k) /\ Item(k)' = Find(level0', levels', k)
      /\ Stamps \in Nat
  BY ItemIsFind, ItemsAreFound, ItemsAreFoundNext DEF Tidy
<1>2. /\ \A t \in From0 \cup Lower0 : IsTable(t, Keys, Stamps)
      /\ Into0 \subseteq Lower0
      /\ DOMAIN levels \subseteq DOMAIN levels' /\ 1 \in DOMAIN levels'
      /\ levels'[1] = (Lower0 \ Into0) \cup New0
      /\ (1 \in DOMAIN levels /\ Lower0 = levels[1]) \/ (1 \notin DOMAIN levels /\ Lower0 = {})
      /\ \A i \in DOMAIN levels' : i = 1 \/ (i \in DOMAIN levels /\ levels'[i] = levels[i])
  BY CompactLevel0Shape DEF TablesInv, LevelsInv, Made, Into0, Lower0, Overlapping
<1>3. DOMAIN levels' \subseteq Nat \ {0} /\ DOMAIN levels = 1 .. Len(levels) /\ Len(levels) \in Nat
  BY <1>1, SeqFacts DEF Tidy
<1>4. NotIn0(level0', k)
  BY NoTables DEF CompactLevel0, NotIn0
<1>5. /\ MaxKey \in Nat /\ Keys \in SUBSET (0 .. MaxKey)
      /\ \A t \in S : IsTable(t, Keys, Stamps)
  BY <1>2, KeysBounded
<1>6. Merged(S) \in [D -> Items]
  <2> HIDE DEF S
  <2> QED BY <1>1, <1>5, MergedItems
<1>7. /\ kept \in [{j \in D : ~(last /\ Merged(S)[j].vlen = 0)} -> Items]
      /\ \A j \in D : ~(last /\ Merged(S)[j].vlen = 0) => kept[j] = Merged(S)[j]
  <2> HIDE DEF D, last, S
  <2> QED BY <1>6, KeptAt
<1>8. New0 = Split(kept, MaxTimeId(S))
  BY DEF New0
<1>9. /\ \A j \in DOMAIN kept : \E t \in New0 : j \in KeysOf(t) /\ t.items[j] = kept[j]
      /\ \A t \in New0 : KeysOf(t) \subseteq DOMAIN kept
  <2> HIDE DEF kept, D, last, S
  <2> QED BY <1>7, <1>8, SplitItems
<1> HIDE DEF kept
(* Keys of the merged tables. *)
<1>10. CASE k \in D
  <2>1. Merged(S)[k] = Item(k)
    <3>1. ASSUME NEW i, TopAt(level0, k, i)
          PROVE  Merged(S)[k] = Item(k)
      <4>1. level0[i] \in S /\ i \in DOMAIN level0 /\ k \in KeysOf(level0[i])
        BY <3>1 DEF TopAt, From0, Range
      <4>2. ASSUME NEW u \in S, k \in KeysOf(u), u # level0[i]
            PROVE  u.timeId < level0[i].timeId
        <5>1. CASE u \in From0
          <6>1. PICK j \in DOMAIN level0 : u = level0[j]
            BY <5>1 DEF From0, Range
          <6>2. j < i
            <7>1. DOMAIN level0 \subseteq Nat
              BY <1>1, SeqFacts DEF Tidy
            <7> QED BY <3>1, <4>2, <6>1, <7>1 DEF TopAt
          <6> QED BY <4>1, <6>1, <6>2 DEF TablesInv, AgesDescend
        <5>2. CASE u \in Into0
          BY <1>2, <4>1, <5>2 DEF TablesInv, AgesDescend
        <5> QED BY <4>2, <5>1, <5>2
      <4>3. \A u \in S : k \in KeysOf(u) /\ u # level0[i] => Older(u, level0[i])
        BY <4>2 DEF Older
      <4>4. Merged(S)[k] = level0[i].items[k]
        <5> HIDE DEF S
        <5> QED BY <1>1, <1>5, <4>1, <4>3, MergedAt
      <4> QED BY <1>1, <3>1, <4>4, FindTop
    <3>2. ASSUME NotIn0(level0, k)
          PROVE  Merged(S)[k] = Item(k)
      <4>1. \A u \in S : k \in KeysOf(u) => u \in Into0
        BY <3>2 DEF NotIn0, From0, Range
      <4>2. PICK t \in Into0 : k \in KeysOf(t)
        BY <1>10, <4>1
      <4>3. 1 \in DOMAIN levels /\ t \in levels[1] /\ Into0 \subseteq levels[1]
        BY <1>2, <4>2
      <4>4. \A u \in S : k \in KeysOf(u) /\ u # t => Older(u, t)
        <5> SUFFICES ASSUME NEW u \in S, k \in KeysOf(u), u # t
                     PROVE  FALSE
          OBVIOUS
        <5>1. u \in levels[1] /\ Apart(t, u)
          BY <1>1, <4>1, <4>3 DEF Tidy
        <5> QED BY <1>1, <4>2, <4>3, <5>1, OneHolder DEF Tidy
      <4>5. Merged(S)[k] = t.items[k]
        <5>1. t \in S
          BY <4>2
        <5> HIDE DEF S
        <5> QED BY <1>1, <1>5, <4>2, <4>4, <5>1, MergedAt
      <4>6. BelowAt(levels, k, 1, t)
        BY <1>3, <4>2, <4>3 DEF BelowAt, NotAbove
      <4> QED BY <1>1, <3>2, <4>5, <4>6, FindBelow
    <3> QED BY <1>1, <3>1, <3>2, FindCases
  <2>2. CASE k \in DOMAIN kept
    <3>1. PICK t \in New0 : k \in KeysOf(t) /\ t.items[k] = kept[k]
      BY <1>9, <2>2
    <3>2. kept[k] = Item(k)
      BY <1>7, <2>1, <2>2
    <3>3. BelowAt(levels', k, 1, t)
      BY <1>2, <1>3, <3>1 DEF BelowAt, NotAbove
    <3> QED BY <1>1, <1>4, <3>1, <3>2, <3>3, FindBelow DEF SameItem
  <2>3. CASE k \notin DOMAIN kept
    <3>1. last /\ Item(k).vlen = 0
      BY <1>7, <1>10, <2>1, <2>3
    <3>2. DOMAIN levels = {}
      BY <1>3, <3>1
    <3>3. NotBelow(levels', k)
      <4> SUFFICES ASSUME NEW l \in DOMAIN levels', NEW u \in levels'[l]
                   PROVE  k \notin KeysOf(u)
        BY DEF NotBelow
      <4>1. l = 1 /\ Lower0 = {}
        BY <1>2, <3>2
      <4> QED BY <1>2, <1>9, <2>3, <4>1
    <3> QED BY <1>1, <1>4, <3>1, <3>3, FindNone DEF SameItem
  <2> QED BY <2>2, <2>3
(* Keys of none of them. *)
<1>11. CASE k \notin D
  <2>1. NotIn0(level0, k) /\ \A u \in Into0 : k \notin KeysOf(u)
    BY <1>11 DEF NotIn0, From0, Range
  <2>2. \A u \in New0 : k \notin KeysOf(u)
    BY <1>7, <1>9, <1>11
  <2>3. ASSUME NEW l, NEW t, BelowAt(levels, k, l, t)
        PROVE  SameItem(k)
    <3>1. l \in DOMAIN levels' /\ t \in levels'[l]
      <4>1. l \in DOMAIN levels /\ t \in levels[l] /\ t \notin Into0
        BY <2>1, <2>3 DEF BelowAt
      <4>2. CASE l = 1
        BY <1>2, <1>3, <4>1, <4>2
      <4>3. CASE l # 1
        BY <1>2, <4>1, <4>3
      <4> QED BY <4>2, <4>3
    <3>2. ASSUME NEW m \in DOMAIN levels', m < l, NEW u \in levels'[m]
          PROVE  k \notin KeysOf(u)
      <4>1. CASE u \in New0
        BY <2>2, <4>1
      <4>2. CASE u \notin New0
        <5>1. m \in DOMAIN levels /\ u \in levels[m]
          BY <1>2, <3>2, <4>2
        <5> QED BY <2>3, <3>2, <5>1 DEF BelowAt, NotAbove
      <4> QED BY <4>1, <4>2
    <3>3. BelowAt(levels', k, l, t)
      BY <2>3, <3>1, <3>2 DEF BelowAt, NotAbove
    <3> QED BY <1>1, <1>4, <2>1, <2>3, <3>3, FindBelow DEF SameItem
  <2>4. ASSUME NotBelow(levels, k)
        PROVE  SameItem(k)
    <3>1. NotBelow(levels', k)
      BY <1>2, <2>2, <2>4 DEF NotBelow
    <3> QED BY <1>1, <1>4, <2>1, <2>4, <3>1, FindNone DEF SameItem
  <2>5. ~\E i : TopAt(level0, k, i)
    BY <2>1 DEF NotIn0, TopAt
  <2> QED BY <1>1, <2>3, <2>4, <2>5, FindCases
<1> QED BY <1>10, <1>11

(* compact: an item found on the level compacted goes one level down, where *)
(* it overrides what it meets; one found below keeps its place in the order. *)
LEMMA CompactItems ==
  ASSUME TablesInv, TablesInv', Compact, NEW k \in Keys
  PROVE  SameItem(k)
<1> DEFINE d == depth
           next == d + 1
           D == UNION {KeysOf(t) : t \in From}
           E == UNION {KeysOf(t) : t \in Into}
           B == D \cup E
           last == Len(levels) = d
           merged == Overriding(Merged(From), Merged(Into))
           kept == Kept(merged, last)
<1>1. /\ Tidy(level0, levels, Stamps) /\ Tidy(level0', levels', Stamps')
      /\ Item(k) = Find(level0, levels, k) /\ Item(k)' = Find(level0', levels', k)
      /\ Stamps \in Nat /\ level0' = level0
  BY ItemIsFind, ItemsAreFound, ItemsAreFoundNext DEF Tidy, Compact
<1>2. /\ d \in DOMAIN levels /\ d \in Nat /\ d > 0
      /\ From \subseteq levels[d] /\ Into \subseteq Lower
      /\ \A t \in levels[d] \cup Lower : IsTable(t, Keys, Stamps)
      /\ DOMAIN levels \subseteq DOMAIN levels'
      /\ d \in DOMAIN levels' /\ levels'[d] = levels[d] \ From
      /\ next \in DOMAIN levels' /\ levels'[next] = (Lower \ Into) \cup New
      /\ \/ next \in DOMAIN levels /\ Lower = levels[next]
         \/ next \notin DOMAIN levels /\ Lower = {}
      /\ \A i \in DOMAIN levels' :
           i \in {d, next} \/ (i \in DOMAIN levels /\ levels'[i] = levels[i])
  BY CompactShape DEF TablesInv, LevelsInv, Made, Into, Lower, Overlapping
<1>3. /\ DOMAIN levels' \subseteq Nat /\ DOMAIN levels = 1 .. Len(levels)
      /\ Len(levels) \in Nat /\ next \in Nat /\ next > d
  BY <1>1, <1>2, SeqFacts DEF Tidy
<1>4. MaxKey \in Nat /\ Keys \in SUBSET (0 .. MaxKey)
  BY KeysBounded
<1>5. /\ Merged(From) \in [D -> Items] /\ D \in SUBSET Keys
      /\ Merged(Into) \in [E -> Items] /\ E \in SUBSET Keys
  <2>1. /\ \A t \in From : IsTable(t, Keys, Stamps)
        /\ \A t \in Into : IsTable(t, Keys, Stamps)
    BY <1>2
  <2>2. Merged(From) \in [D -> Items] /\ D \subseteq Keys
    BY <1>1, <1>4, <2>1, MergedItems
  <2>3. Merged(Into) \in [E -> Items] /\ E \subseteq Keys
    BY <1>1, <1>4, <2>1, MergedItems
  <2> HIDE DEF D, E
  <2> QED BY <2>2, <2>3
<1>6. /\ merged \in [B -> Items]
      /\ \A j \in B : merged[j] = IF j \in D THEN Merged(From)[j] ELSE Merged(Into)[j]
  <2> HIDE DEF D, E
  <2> QED BY <1>5, OverridingItems DEF Overriding
<1>7. /\ kept \in [{j \in B : ~(last /\ merged[j].vlen = 0)} -> Items]
      /\ \A j \in B : ~(last /\ merged[j].vlen = 0) => kept[j] = merged[j]
  <2>1. merged \in [B -> Items]
    BY <1>6
  <2> HIDE DEF B, last, merged
  <2> QED BY <2>1 DEF Kept, Restrict
<1>8. New = Split(kept, MaxTimeId(From))
  BY DEF New
<1>9. /\ \A j \in DOMAIN kept : \E t \in New : j \in KeysOf(t) /\ t.items[j] = kept[j]
      /\ \A t \in New : KeysOf(t) \subseteq DOMAIN kept
  <2> HIDE DEF kept, B, last, merged
  <2> QED BY <1>7, <1>8, SplitItems
<1> HIDE DEF kept, merged, last, next, d
(* A table of a level that has the key is the only one of its level.        *)
<1>10. ASSUME NEW l \in DOMAIN levels, NEW t \in levels[l], NEW u \in levels[l],
              k \in KeysOf(t), k \in KeysOf(u)
       PROVE  u = t
  <2> SUFFICES ASSUME u # t PROVE FALSE
    OBVIOUS
  <2>1. Apart(t, u) /\ IsTable(t, Keys, Stamps) /\ IsTable(u, Keys, Stamps)
    BY <1>1 DEF Tidy
  <2> QED BY <1>1, <1>10, <2>1, OneHolder
<1>11. ASSUME NEW S, NEW l \in DOMAIN levels, S \subseteq levels[l],
              NEW t \in S, k \in KeysOf(t)
       PROVE  Merged(S)[k] = t.items[k]
  <2>1. \A u \in S : IsTable(u, Keys, Stamps)
    BY <1>1, <1>11 DEF Tidy
  <2>2. \A u \in S : k \in KeysOf(u) /\ u # t => Older(u, t)
    BY <1>10, <1>11
  <2> QED BY <1>1, <1>11, <2>1, <2>2, MergedAt
<1>12. k \notin DOMAIN kept => \A t \in New : k \notin KeysOf(t)
  BY <1>9
<1>13. k \notin B => \A t \in New : k \notin KeysOf(t)
  BY <1>7, <1>9
<1>14. k \in DOMAIN kept =>
         \E t \in New : k \in KeysOf(t) /\ t.items[k] = merged[k]
  BY <1>7, <1>9
(* Levels that are not rewritten.                                           *)
<1>15. ASSUME NEW l, NotAbove(levels, k, l), NEW m \in DOMAIN levels', m < l, m # next,
              NEW u \in levels'[m]
       PROVE  k \notin KeysOf(u)
  <2>1. m \in DOMAIN levels /\ u \in levels[m]
    BY <1>2, <1>15
  <2> QED BY <1>15, <2>1 DEF NotAbove
<1>16. CASE \E i : TopAt(level0, k, i)
  BY <1>1, <1>16, FindTop DEF SameItem
<1>17. ASSUME NotIn0(level0, k), NEW l, NEW t, BelowAt(levels, k, l, t)
       PROVE  SameItem(k)
  <2>1. /\ l \in DOMAIN levels /\ t \in levels[l] /\ k \in KeysOf(t) /\ l \in Nat
        /\ NotAbove(levels, k, l) /\ Item(k) = t.items[k]
    <3>1. l \in DOMAIN levels /\ t \in levels[l] /\ k \in KeysOf(t) /\ NotAbove(levels, k, l)
      BY <1>17 DEF BelowAt
    <3>2. Item(k) = t.items[k]
      BY <1>1, <1>17, FindBelow
    <3> QED BY <1>3, <3>1, <3>2
  (* The same item is found on level m after the step. *)
  <2>2. ASSUME NEW m, NEW u, BelowAt(levels', k, m, u), u.items[k] = Item(k)
        PROVE  SameItem(k)
    BY <1>1, <1>17, <2>2, FindBelow DEF SameItem
  <2>3. CASE l < d \/ (l = d /\ t \notin From)
    <3>1. t \in levels'[l] /\ l \in DOMAIN levels'
      BY <1>2, <1>3, <2>1, <2>3
    <3>2. NotAbove(levels', k, l)
      BY <1>2, <1>3, <1>15, <2>1, <2>3 DEF NotAbove
    <3> QED BY <2>1, <2>2, <3>1, <3>2 DEF BelowAt
  <2>4. CASE l = d /\ t \in From
    <3>1. k \in B /\ merged[k] = Item(k)
      <4>1. k \in D
        BY <2>1, <2>4
      <4>2. Merged(From)[k] = t.items[k]
        BY <1>2, <1>11, <2>1, <2>4
      <4> QED BY <1>6, <2>1, <4>1, <4>2
    <3>2. \A m \in DOMAIN levels' : m < next => \A u \in levels'[m] : k \notin KeysOf(u)
      <4> SUFFICES ASSUME NEW m \in DOMAIN levels', m < next, NEW u \in levels'[m]
                   PROVE  k \notin KeysOf(u)
        OBVIOUS
      <4>1. m \in Nat /\ (m < d \/ m = d)
        BY <1>2, <1>3 DEF next
      <4>2. CASE m < d
        BY <1>3, <1>15, <2>1, <2>4, <4>1, <4>2
      <4>3. CASE m = d
        BY <1>2, <1>10, <2>1, <2>4, <4>3
      <4> QED BY <4>1, <4>2, <4>3
    <3>3. CASE k \in DOMAIN kept
      <4>1. PICK u \in New : k \in KeysOf(u) /\ u.items[k] = merged[k]
        BY <1>14, <3>3
      <4>2. BelowAt(levels', k, next, u)
        BY <1>2, <3>2, <4>1 DEF BelowAt, NotAbove
      <4> QED BY <2>2, <3>1, <4>1, <4>2
    <3>4. CASE k \notin DOMAIN kept
      <4>1. last /\ Item(k).vlen = 0
        BY <1>7, <3>1, <3>4
      <4>2. Lower = {} /\ \A m \in DOMAIN levels : m < next
        BY <1>2, <1>3, <4>1 DEF last, next
      <4>3. NotBelow(levels', k)
        <5> SUFFICES ASSUME NEW m \in DOMAIN levels', NEW u \in levels'[m]
                     PROVE  k \notin KeysOf(u)
          BY DEF NotBelow
        <5>1. CASE m = next
          BY <1>2, <1>12, <3>4, <4>2, <5>1
        <5>2. CASE m # next
          <6>1. m \in DOMAIN levels
            BY <1>2, <5>2
          <6> QED BY <3>2, <4>2, <6>1
        <5> QED BY <5>1, <5>2
      <4> QED BY <1>1, <1>17, <4>1, <4>3, FindNone DEF SameItem
    <3> QED BY <3>3, <3>4
  <2>5. CASE l > d
    <3>1. \A u \in levels[d] : k \notin KeysOf(u)
      BY <1>2, <2>1, <2>5 DEF NotAbove
    <3>2. k \notin D
      BY <1>2, <3>1
    <3>3. l = next \/ l > next
      BY <1>2, <2>1, <2>5 DEF next
    <3>4. CASE l = next /\ t \in Into
      <4>1. k \in E /\ Merged(Into)[k] = t.items[k]
        BY <1>2, <1>11, <2>1, <3>4
      <4>2. k \in B /\ merged[k] = Item(k)
        BY <1>6, <2>1, <3>2, <4>1
      <4>3. ~last
        BY <1>2, <1>3, <2>1, <3>4 DEF last, next
      <4>4. k \in DOMAIN kept
        BY <1>7, <4>2, <4>3
      <4>5. PICK u \in New : k \in KeysOf(u) /\ u.items[k] = merged[k]
        BY <1>14, <4>4
      <4>6. BelowAt(levels', k, next, u)
        BY <1>2, <1>15, <2>1, <3>4, <4>5 DEF BelowAt, NotAbove
      <4> QED BY <2>2, <4>2, <4>5, <4>6
    <3>5. CASE l = next /\ t \notin Into
      <4>1. t \in levels'[next]
        BY <1>2, <2>1, <3>5
      <4>2. BelowAt(levels', k, next, t)
        BY <1>2, <1>15, <2>1, <3>5, <4>1 DEF BelowAt, NotAbove
      <4> QED BY <2>1, <2>2, <4>2
    <3>6. CASE l > next
      <4>1. \A u \in Lower : k \notin KeysOf(u)
        BY <1>2, <2>1, <3>6 DEF NotAbove
      <4>2. k \notin B
        BY <1>2, <3>2, <4>1
      <4>3. NotAbove(levels', k, l)
        BY <1>2, <1>13, <1>15, <2>1, <4>1, <4>2 DEF NotAbove
      <4>4. l \in DOMAIN levels' /\ t \in levels'[l]
        BY <1>2, <1>3, <2>1, <2>5, <3>6
      <4> QED BY <2>1, <2>2, <4>3, <4>4 DEF BelowAt
    <3> QED BY <3>3, <3>4, <3>5, <3>6
  <2>6. l < d \/ l = d \/ l > d
    BY <1>2, <2>1
  <2> QED BY <2>3, <2>4, <2>5, <2>6
<1>18. ASSUME NotIn0(level0, k), NotBelow(levels, k)
       PROVE  SameItem(k)
  <2>1. (\A u \in levels[d] : k \notin KeysOf(u)) /\ (\A u \in Lower : k \notin KeysOf(u))
    BY <1>2, <1>18 DEF NotBelow
  <2>2. k \notin B
    BY <1>2, <2>1
  <2>3. NotBelow(levels', k)
    <3> SUFFICES ASSUME NEW m \in DOMAIN levels', NEW u \in levels'[m]
                 PROVE  k \notin KeysOf(u)
      BY DEF NotBelow
    <3>1. CASE m = next
      BY <1>2, <1>13, <2>1, <2>2, <3>1
    <3>2. CASE m # next
      <4>1. m \in DOMAIN levels /\ u \in levels[m]
        BY <1>2, <3>2
      <4> QED BY <1>18, <4>1 DEF NotBelow
    <3> QED BY <3>1, <3>2
  <2> QED BY <1>1, <1>18, <2>3, FindNone DEF SameItem
<1> QED BY <1>1, <1>16, <1>17, <1>18, FindCases

LEMMA ItemType ==
  ASSUME TablesInv, NEW k \in Keys
  PROVE  Item(k) \in Items
<1>1. Tidy(level0, levels, Stamps) /\ Item(k) = Find(level0, levels, k)
  BY ItemIsFind, ItemsAreFound
<1>2. MaxKey \in Nat /\ Keys \in SUBSET (0 .. MaxKey) /\ Stamps \in Nat
  BY <1>1, KeysBounded DEF Tidy
<1>3. ASSUME NEW t, IsTable(t, Keys, Stamps), k \in KeysOf(t)
      PROVE  t.items[k] \in Items
  <2>1. t.items \in [KeysOf(t) -> Items]
    BY <1>2, <1>3, TableFacts
  <2> QED BY <1>3, <2>1
<1>4. ASSUME NEW i, TopAt(level0, k, i)
      PROVE  Item(k) \in Items
  <2>1. IsTable(level0[i], Keys, Stamps) /\ k \in KeysOf(level0[i])
    BY <1>1, <1>4 DEF TopAt, Tidy
  <2>2. Item(k) = level0[i].items[k]
    BY <1>1, <1>4, FindTop
  <2> QED BY <1>3, <2>1, <2>2
<1>5. ASSUME NotIn0(level0, k), NEW l, NEW t, BelowAt(levels, k, l, t)
      PROVE  Item(k) \in Items
  <2>1. IsTable(t, Keys, Stamps) /\ k \in KeysOf(t)
    BY <1>1, <1>5 DEF BelowAt, Tidy
  <2> QED BY <1>1, <1>3, <1>5, <2>1, FindBelow
<1>6. ASSUME NotIn0(level0, k), NotBelow(levels, k)
      PROVE  Item(k) \in Items
  BY <1>1, <1>6, FindNone DEF NoItem, NoOffset, Items
<1> QED BY <1>1, <1>4, <1>5, <1>6, FindCases

(* Only a flush gives a key another item, and only reset takes one away     *)
(* that is not a deletion.                                                  *)
LEMMA ItemsStay ==
  ASSUME TablesInv, TablesInv', [Next]_vars
  PROVE  Flush \/ Reset \/ \A k \in Keys : SameItem(k)
<1>1. CASE Quiet
  BY <1>1 DEF Quiet, SameItem, Item, Level0With, LevelsWith
<1> QED BY <1>1, StepCases, CompactLevel0Items, CompactItems

LEMMA FlushItems ==
  ASSUME TablesInv, TablesInv', Flush, NEW k \in Keys
  PROVE  /\ k \in DOMAIN memtable =>
              Item(k)' = [off |-> NewOffset(k), vlen |-> VLen(memtable[k])]
         /\ k \notin DOMAIN memtable => Item(k)' = Item(k)
<1>1. /\ Tidy(level0, levels, Stamps) /\ Tidy(level0', levels', Stamps')
      /\ Item(k) = Find(level0, levels, k) /\ Item(k)' = Find(level0', levels', k)
  BY ItemIsFind, ItemsAreFound, ItemsAreFoundNext
<1> DEFINE n == Len(level0) + 1
<1>2. /\ Len(level0) \in Nat /\ DOMAIN level0 = 1 .. Len(level0)
      /\ DOMAIN level0' = 1 .. n /\ levels' = levels
      /\ \A i \in 1 .. n : level0'[i] = IF i = n THEN NewTable ELSE level0[i]
  BY <1>1, SeqFacts, AppendFacts DEF Flush, Tidy
<1>3. /\ KeysOf(NewTable) = DOMAIN memtable
      /\ \A j \in DOMAIN memtable :
           NewTable.items[j] = [off |-> NewOffset(j), vlen |-> VLen(memtable[j])]
  BY DEF NewTable, Table, KeysOf
<1>4. /\ n \in DOMAIN level0' /\ level0'[n] = NewTable /\ n \in Nat
      /\ \A i \in DOMAIN level0 : i \in DOMAIN level0' /\ level0'[i] = level0[i] /\ i <= n
      /\ \A i \in DOMAIN level0' : i <= n /\ (i = n \/ i \in DOMAIN level0)
  BY <1>2
<1> HIDE DEF n
<1>5. ASSUME k \in DOMAIN memtable
      PROVE  Item(k)' = [off |-> NewOffset(k), vlen |-> VLen(memtable[k])]
  <2>1. TopAt(level0', k, n)
    BY <1>3, <1>4, <1>5 DEF TopAt
  <2>2. Item(k)' = level0'[n].items[k]
    BY <1>1, <2>1, FindTop
  <2> QED BY <1>3, <1>4, <1>5, <2>2
<1>6. ASSUME k \notin DOMAIN memtable
      PROVE  Item(k)' = Item(k)
  <2>1. ASSUME NEW i, TopAt(level0, k, i)
        PROVE  Item(k)' = Item(k)
    <3>1. TopAt(level0', k, i)
      BY <1>3, <1>4, <1>6, <2>1 DEF TopAt
    <3>2. level0'[i] = level0[i]
      BY <1>4, <2>1 DEF TopAt
    <3> QED BY <1>1, <2>1, <3>1, <3>2, FindTop
  <2>2. ASSUME NotIn0(level0, k)
        PROVE  NotIn0(level0', k)
    BY <1>3, <1>4, <1>6, <2>2 DEF NotIn0
  <2>3. ASSUME NotIn0(level0, k), NEW l, NEW t, BelowAt(levels, k, l, t)
        PROVE  Item(k)' = Item(k)
    BY <1>1, <1>2, <2>2, <2>3, FindBelow
  <2>4. ASSUME NotIn0(level0, k), NotBelow(levels, k)
        PROVE  Item(k)' = Item(k)
    BY <1>1, <1>2, <2>2, <2>4, FindNone
  <2> QED BY <1>1, <2>1, <2>3, <2>4, FindCases
<1> QED BY <1>5, <1>6

LEMMA ResetItems ==
  ASSUME TablesInv', Reset, NEW k \in Keys
  PROVE  Item(k)' = NoItem
<1>1. Item(k)' = Find(level0', levels', k)
  BY ItemsAreFoundNext
<1>2. NotIn0(level0', k) /\ NotBelow(levels', k)
  BY NoTables DEF Reset, NotIn0, NotBelow
<1> QED BY <1>1, <1>2, FindNone

------------------------------------------------------------------------------
(* The log *)

(* Callers that never ask gc for more than the log holds, nor for nothing.  *)
GcWithinLog == \A c \in GcChunks : c > 0 /\ GcSlack = 0

(* The call is a gc that has not punched its records yet.                   *)
Collecting ==
  \/ pc \in {"gc", "punch"}
  \/ pc \in {"flush", "compactLevel0", "compact", "clean"} /\ after # "return"

(* The readable records are the last ones of the log, without a gap; what   *)
(* gc has still to scan is among them, so no read fails.                    *)
LogInv ==
  /\ streamOk
  /\ \A x \in DOMAIN vlog : x .. tail - 1 \subseteq DOMAIN vlog
  /\ Collecting =>
       /\ gc.start <= gc.off /\ gc.off + gc.left <= tail
       /\ gc.off .. tail - 1 \subseteq DOMAIN vlog
       /\ \A x \in DOMAIN vlog : gc.start <= x
  /\ ~Collecting => gc = NoGc

LEMMA MemPutFacts ==
  ASSUME NEW k, NEW v, NEW next, MemPut(k, v, next)
  PROVE  /\ DOMAIN memtable' = DOMAIN memtable \cup {k}
         /\ memtable'[k] = v
         /\ \A j \in DOMAIN memtable : j # k => memtable'[j] = memtable[j]
         /\ (pc' = "flush" /\ after' = next) \/ (pc' = next /\ after' = after)
<1> DEFINE one == [j \in {k} |-> v]
<1>1. memtable' = Overriding(one, memtable) /\ DOMAIN one = {k} /\ one[k] = v
  BY DEF MemPut
<1> HIDE DEF one
<1>2. /\ DOMAIN memtable' = DOMAIN memtable \cup {k}
      /\ memtable'[k] = v
      /\ \A j \in DOMAIN memtable : j # k => memtable'[j] = memtable[j]
  BY <1>1 DEF Overriding
<1>3. (pc' = "flush" /\ after' = next) \/ (pc' = next /\ after' = after)
  BY DEF MemPut
<1> QED BY <1>2, <1>3

(* A flush appends one record for every value of the memory table, at the   *)
(* offset it notes in the new table.                                        *)
LEMMA FlushLog ==
  ASSUME Inv, streamOk, Flush
  PROVE  /\ streamOk' /\ tail \in Nat /\ tail' \in Nat /\ tail <= tail'
         /\ DOMAIN vlog \subseteq 0 .. tail - 1
         /\ DOMAIN vlog' = DOMAIN vlog \cup (tail .. tail' - 1)
         /\ \A off \in DOMAIN vlog : vlog'[off] = vlog[off]
         /\ \A k \in Logged :
              /\ NewOffset(k) \in tail .. tail' - 1
              /\ vlog'[NewOffset(k)] = [key |-> k, val |-> memtable[k]]
         /\ \A off \in tail .. tail' - 1 :
              \E k \in Logged : vlog'[off] = [key |-> k, val |-> memtable[k]]
<1>1. MemOK /\ LogOK
  BY TypeParts DEF Inv
<1> DEFINE n == Cardinality(Logged)
<1>2. MaxKey \in Nat /\ Logged \in SUBSET (0 .. MaxKey)
  BY <1>1, KeysBounded DEF Logged, MemOK
<1>3. /\ n \in Nat
      /\ \A k \in Logged : Rank(Logged, k) \in Nat /\ Rank(Logged, k) < n
      /\ \A j, k \in Logged : j < k => Rank(Logged, j) < Rank(Logged, k)
  BY <1>2, RankRises
<1>4. /\ tail \in Nat /\ DOMAIN vlog \subseteq 0 .. tail - 1
      /\ vlog' = Overriding(vlog, NewRecords) /\ tail' = tail + n /\ streamOk'
  BY <1>1 DEF Flush, LogOK
<1>5. DOMAIN NewRecords = tail .. tail + n - 1
  BY DEF NewRecords
<1> HIDE DEF n
<1>6. /\ DOMAIN vlog' = DOMAIN vlog \cup (tail .. tail' - 1)
      /\ \A off \in DOMAIN vlog : vlog'[off] = vlog[off]
      /\ \A off \in tail .. tail' - 1 : vlog'[off] = NewRecords[off]
  <2>1. \A off \in tail .. tail' - 1 : off \notin DOMAIN vlog /\ off \in DOMAIN NewRecords
    BY <1>3, <1>4, <1>5
  <2>2. DOMAIN NewRecords = tail .. tail' - 1
    <3>1. tail' - 1 = tail + n - 1
      BY <1>3, <1>4
    <3> QED BY <1>5, <3>1
  <2> QED BY <1>4, <2>1, <2>2 DEF Overriding
<1>7. ASSUME NEW off \in tail .. tail' - 1, NEW k \in Logged, Rank(Logged, k) = off - tail
      PROVE  vlog'[off] = [key |-> k, val |-> memtable[k]]
  <2> DEFINE c == CHOOSE j \in Logged : Rank(Logged, j) = off - tail
  <2>1. c \in Logged /\ Rank(Logged, c) = off - tail
    BY <1>7
  <2>2. NewRecords[off] = [key |-> c, val |-> memtable[c]]
    <3>1. off \in tail .. tail + Cardinality(Logged) - 1
      <4>1. tail' - 1 = tail + n - 1
        BY <1>3, <1>4
      <4> QED BY <1>7, <4>1 DEF n
    <3> QED BY <3>1 DEF NewRecords
  <2> HIDE DEF c
  <2>3. c = k
    <3>1. c \in Nat /\ k \in Nat
      BY <1>2, <2>1
    <3>2. ~(c < k) /\ ~(k < c)
      BY <1>3, <1>7, <2>1
    <3> QED BY <3>1, <3>2
  <2> QED BY <1>6, <2>2, <2>3
<1>8. ASSUME NEW k \in Logged
      PROVE  /\ NewOffset(k) \in tail .. tail' - 1
             /\ vlog'[NewOffset(k)] = [key |-> k, val |-> memtable[k]]
  <2>1. NewOffset(k) = tail + Rank(Logged, k)
    BY DEF NewOffset
  <2>2. NewOffset(k) \in tail .. tail' - 1 /\ Rank(Logged, k) = NewOffset(k) - tail
    BY <1>3, <1>4, <2>1
  <2> QED BY <1>7, <2>2
<1>9. ASSUME NEW off \in tail .. tail' - 1
      PROVE  \E k \in Logged : vlog'[off] = [key |-> k, val |-> memtable[k]]
  <2>1. off - tail \in 0 .. n - 1
    BY <1>3, <1>4
  <2>2. PICK k \in Logged : Rank(Logged, k) = off - tail
    BY <1>2, <2>1, RankOnto DEF n
  <2> QED BY <1>7, <2>2
<1> QED BY <1>3, <1>4, <1>6, <1>8, <1>9

(* gc begins at the first readable record, and ends within the log.         *)
LEMMA GcStartLog ==
  ASSUME GcWithinLog, Inv, LogInv, NEW chunk \in GcChunks, GcStart(chunk)
  PROVE  LogInv'
<1>1. LogOK
  BY TypeParts DEF Inv
<1>2. /\ chunk \in Nat /\ chunk > 0 /\ GcSlack = 0 /\ tail \in Nat
      /\ DOMAIN vlog \subseteq 0 .. tail - 1 /\ DOMAIN vlog \in SUBSET Nat
  BY <1>1, KVStoreAssumption DEF GcWithinLog, LogOK
<1>3. IsFiniteSet(DOMAIN vlog) /\ Cardinality(DOMAIN vlog) \in Nat
  <2>1. IsFiniteSet(0 .. tail - 1)
    BY <1>2, FS_Interval
  <2> QED BY <1>2, <2>1, FS_Subset, FS_CardinalityType
<1>4. chunk <= Cardinality(DOMAIN vlog)
  BY <1>2, <1>3 DEF GcStart, Allowed
<1>5. DOMAIN vlog # {}
  BY <1>2, <1>4, FS_EmptySet
<1> DEFINE first == Min(DOMAIN vlog)
<1>6. first \in DOMAIN vlog /\ \A x \in DOMAIN vlog : first <= x
  BY <1>2, <1>5, MinInSet
<1>7. /\ gc' = [start |-> first, off |-> first, left |-> chunk]
      /\ pc' = "gc" /\ streamOk' /\ UNCHANGED <<vlog, tail>>
  BY <1>5 DEF GcStart, LogInv
<1> HIDE DEF first
<1>8. DOMAIN vlog = first .. tail - 1
  <2>1. first .. tail - 1 \subseteq DOMAIN vlog
    BY <1>6 DEF LogInv
  <2>2. \A x \in DOMAIN vlog : x \in first .. tail - 1
    BY <1>2, <1>6
  <2> QED BY <2>1, <2>2
<1>9. first + chunk <= tail
  <2>1. first \in Nat /\ first <= tail - 1
    BY <1>2, <1>6
  <2>2. Cardinality(first .. tail - 1) = (tail - 1) - first + 1
    BY <1>2, <2>1, FS_Interval
  <2> QED BY <1>2, <1>4, <1>8, <2>1, <2>2
<1>10. /\ gc'.start = first /\ gc'.off = first /\ gc'.left = chunk /\ first \in Nat
  BY <1>2, <1>6, <1>7
<1> QED BY <1>2, <1>6, <1>7, <1>8, <1>9, <1>10 DEF LogInv, Collecting

LEMMA AdvanceFacts ==
  ASSUME ControlOK, gc.left > 0, Advance(1)
  PROVE  /\ gc'.start = gc.start /\ gc'.off = gc.off + 1 /\ gc'.left = gc.left - 1
         /\ gc.start \in Nat /\ gc.off \in Nat /\ gc.left \in Nat
<1>1. gc \in [start: Nat, off: Nat, left: Nat]
  BY DEF ControlOK
<1>2. gc' = [gc EXCEPT !.off = gc.off + 1, !.left = IF 1 > gc.left THEN 0 ELSE gc.left - 1]
  BY DEF Advance
<1>3. ~(1 > gc.left)
  BY <1>1
<1> QED BY <1>1, <1>2, <1>3

LEMMA NoReadFails ==
  ASSUME Inv, LogInv
  PROVE  ~GcReadFails
<1> SUFFICES ASSUME GcReadFails PROVE FALSE
  OBVIOUS
<1>1. gc.off \in Nat /\ gc.left \in Nat /\ tail \in Nat
  BY TypeParts DEF Inv, LogOK, ControlOK
<1>2. Collecting /\ gc.left > 0 /\ ~(streamOk /\ gc.off \in DOMAIN vlog)
  BY DEF GcReadFails, Collecting
<1>3. gc.off \in gc.off .. tail - 1
  BY <1>1, <1>2 DEF LogInv
<1> QED BY <1>2, <1>3 DEF LogInv

LEMMA LogStep ==
  ASSUME GcWithinLog, Inv, LogInv, [Next]_vars
  PROVE  LogInv'
<1>1. LogOK /\ ControlOK
  BY TypeParts DEF Inv
<1>2. /\ gc.start \in Nat /\ gc.off \in Nat /\ gc.left \in Nat /\ tail \in Nat
      /\ DOMAIN vlog \subseteq 0 .. tail - 1
  BY <1>1 DEF LogOK, ControlOK
(* Steps that leave log and gc alone need only keep the phase.              *)
<1>3. ASSUME UNCHANGED <<log, gc>>, Collecting' <=> Collecting
      PROVE  LogInv'
  BY <1>3 DEF LogInv, log
<1>4. CASE UNCHANGED vars
  BY <1>3, <1>4 DEF vars, log, control, Collecting
<1>5. ASSUME NEW k, NEW v, Put(k, v) \/ Del(k)
      PROVE  LogInv'
  <2>1. UNCHANGED <<log, gc>> /\ pc = "idle"
    BY <1>5 DEF Put, Del, Ready
  <2>2. pc' = "return" \/ (pc' = "flush" /\ after' = "return")
    BY <1>5, MemPutFacts DEF Put, Del
  <2> QED BY <1>3, <2>1, <2>2 DEF Collecting
<1>6. ASSUME NEW chunk \in GcChunks, GcNothing(chunk)
      PROVE  LogInv'
  BY <1>3, <1>6 DEF GcNothing, Ready, Collecting
<1>7. ASSUME NEW chunk \in GcChunks, GcStart(chunk)
      PROVE  LogInv'
  BY <1>7, GcStartLog
<1>8. CASE Reset
  <2>1. DOMAIN vlog' = {} /\ streamOk' /\ gc' = gc /\ pc = "idle" /\ pc' = "return"
    BY <1>8, NoTables DEF Reset
  <2> QED BY <2>1 DEF LogInv, Collecting
<1>9. CASE FlushNothing \/ CompactLevel0 \/ Compact
  <2>1. UNCHANGED <<log, gc, after>> /\ pc \in {"flush", "compactLevel0", "compact"}
    BY <1>9 DEF FlushNothing, CompactLevel0, Compact
  <2>2. pc' \in {"compact", "clean"}
    BY <1>9 DEF FlushNothing, CompactLevel0, Compact, Cascade
  <2> QED BY <1>3, <2>1, <2>2 DEF Collecting
<1>10. CASE Clean \/ Return \/ GcFlush
  <2>1. UNCHANGED <<log, gc>>
    BY <1>10 DEF Clean, Return, GcFlush
  <2>2. Collecting' <=> Collecting
    BY <1>1, <1>10 DEF Clean, Return, GcFlush, Collecting, ControlOK
  <2> QED BY <1>3, <2>1, <2>2
<1>11. CASE Flush
  <2>1. /\ streamOk' /\ tail' \in Nat /\ tail <= tail'
        /\ DOMAIN vlog' = DOMAIN vlog \cup (tail .. tail' - 1)
    BY <1>11, FlushLog DEF LogInv
  <2>2. gc' = gc /\ (Collecting' <=> Collecting)
    BY <1>11 DEF Flush, Collecting
  <2>3. \A x \in DOMAIN vlog' : x .. tail' - 1 \subseteq DOMAIN vlog'
    <3> DEFINE end == tail' - 1
    <3>0. end \in Int /\ end = tail' - 1
      BY <2>1
    <3> HIDE DEF end
    <3> SUFFICES ASSUME NEW x \in DOMAIN vlog', NEW y \in x .. end
                 PROVE  y \in DOMAIN vlog'
      BY <3>0
    <3>1. tail' \in Nat /\ x \in Nat
      BY <1>2, <2>1
    <3>2. y \in Int /\ x <= y /\ y <= end
      <4>1. x \in Nat
        BY <3>1
      <4> QED BY <3>0, <4>1
    <3>3. CASE y < tail
      <4>1. x \in DOMAIN vlog /\ y \in x .. tail - 1
        BY <1>2, <2>1, <3>1, <3>2, <3>3
      <4>2. x .. tail - 1 \subseteq DOMAIN vlog
        BY <4>1 DEF LogInv
      <4> QED BY <2>1, <4>1, <4>2
    <3>4. CASE tail <= y
      <4>1. y \in tail .. end
        <5>1. tail \in Nat
          BY <1>2
        <5> QED BY <3>2, <3>4, <5>1
      <4> QED BY <2>1, <3>0, <4>1
    <3> QED BY <1>2, <3>2, <3>3, <3>4
  <2>4. ASSUME Collecting
        PROVE  /\ gc.start <= gc.off /\ gc.off + gc.left <= tail'
               /\ gc.off .. tail' - 1 \subseteq DOMAIN vlog'
               /\ \A x \in DOMAIN vlog' : gc.start <= x
    <3>1. /\ gc.start <= gc.off /\ gc.off + gc.left <= tail
          /\ gc.off .. tail - 1 \subseteq DOMAIN vlog
          /\ \A x \in DOMAIN vlog : gc.start <= x
      BY <2>4 DEF LogInv
    <3>2. gc.off .. tail' - 1 \subseteq (gc.off .. tail - 1) \cup (tail .. tail' - 1)
      BY <1>2, <2>1
    <3> QED BY <1>2, <2>1, <3>1, <3>2
  <2> QED BY <2>1, <2>2, <2>3, <2>4 DEF LogInv
<1>12. CASE GcMove \/ GcSkip
  <2>1. /\ gc.left > 0 /\ Advance(1) /\ UNCHANGED log /\ pc = "gc"
        /\ pc' = "gc" \/ (pc' = "flush" /\ after' = "gc")
    <3>1. CASE GcMove
      BY <3>1 DEF GcMove, MemPut
    <3>2. CASE GcSkip
      BY <3>2 DEF GcSkip
    <3> QED BY <1>12, <3>1, <3>2
  <2>2. /\ gc'.start = gc.start /\ gc'.off = gc.off + 1 /\ gc'.left = gc.left - 1
    BY <1>1, <2>1, AdvanceFacts
  <2>3. Collecting /\ Collecting'
    BY <2>1 DEF Collecting
  <2>4. /\ gc'.start <= gc'.off /\ gc'.off + gc'.left <= tail
        /\ gc'.off .. tail - 1 \subseteq gc.off .. tail - 1
    BY <1>2, <2>2, <2>3 DEF LogInv
  <2> QED BY <2>1, <2>2, <2>3, <2>4 DEF LogInv, log
<1>13. ~GcReadFails
  BY NoReadFails
<1>14. CASE GcPunch
  <2>1. /\ DOMAIN vlog' = DOMAIN vlog \ (gc.start .. gc.off - 1)
        /\ gc' = NoGc /\ pc' = "return" /\ UNCHANGED <<tail, streamOk>>
        /\ Collecting
    BY <1>14 DEF GcPunch, Restrict, Collecting
  <2>2. \A x \in DOMAIN vlog' : x .. tail - 1 \subseteq DOMAIN vlog'
    <3> SUFFICES ASSUME NEW x \in DOMAIN vlog', NEW y \in x .. tail - 1
                 PROVE  y \in DOMAIN vlog'
      OBVIOUS
    <3>1. x \in DOMAIN vlog /\ x \in Nat /\ gc.start <= x /\ y \in DOMAIN vlog
      BY <1>2, <2>1 DEF LogInv
    <3>2. ~(x <= gc.off - 1)
      BY <1>2, <2>1, <3>1
    <3>3. ~(y \in gc.start .. gc.off - 1)
      BY <1>2, <3>1, <3>2
    <3> QED BY <2>1, <3>1, <3>3
  <2> QED BY <2>1, <2>2 DEF LogInv, Collecting
<1> QED BY <1>4, <1>5, <1>6, <1>7, <1>8, <1>9, <1>10, <1>11, <1>12, <1>13, <1>14
        DEF Next, Invoke, Continue

------------------------------------------------------------------------------
(* What get finds is in the log *)

(* A key whose item points to a record the running gc has scanned is in the *)
(* memory table, from where the next flush gives it another item.           *)
Moved ==
  \A k \in Keys : Item(k).vlen # 0 /\ Item(k).off \in gc.start .. gc.off - 1 =>
    pc \in {"gc", "flush"} /\ k \in DOMAIN memtable

BackedInv == TablesInv /\ LogInv /\ VisibleBacked /\ Moved

LEMMA LogCases ==
  ASSUME [Next]_vars
  PROVE  Flush \/ Reset \/ GcPunch \/ UNCHANGED vlog
<1>1. CASE UNCHANGED vars
  BY <1>1 DEF vars, log
<1>2. ASSUME NEW k, NEW v, NEW c, Put(k, v) \/ Del(k) \/ GcNothing(c) \/ GcStart(c)
      PROVE  UNCHANGED vlog
  BY <1>2 DEF Put, Del, GcNothing, GcStart, log
<1>3. CASE GcMove \/ GcSkip \/ GcReadFails \/ GcFlush
  BY <1>3 DEF GcMove, GcSkip, GcReadFails, GcFlush, log
<1>4. CASE FlushNothing \/ CompactLevel0 \/ Compact \/ Clean \/ Return
  BY <1>4 DEF FlushNothing, CompactLevel0, Compact, Clean, Return, log
<1> QED BY <1>1, <1>2, <1>3, <1>4 DEF Next, Invoke, Continue

LEMMA BackedStep ==
  ASSUME BackedInv, TablesInv', [Next]_vars
  PROVE  VisibleBacked'
<1> SUFFICES ASSUME NEW k \in Keys, Item(k)'.vlen # 0
             PROVE  Item(k)'.off \in DOMAIN vlog' /\ vlog'[Item(k)'.off].key = k
  BY DEF VisibleBacked
<1>1. NoItem.vlen = 0
  BY DEF NoItem
<1>2. Item(k).vlen # 0 => Item(k).off \in DOMAIN vlog /\ vlog[Item(k).off].key = k
  BY DEF BackedInv, VisibleBacked
<1>3. CASE Flush
  <2>1. /\ DOMAIN vlog' = DOMAIN vlog \cup (tail .. tail' - 1)
        /\ \A off \in DOMAIN vlog : vlog'[off] = vlog[off]
        /\ \A j \in Logged :
             /\ NewOffset(j) \in tail .. tail' - 1
             /\ vlog'[NewOffset(j)] = [key |-> j, val |-> memtable[j]]
    BY <1>3, FlushLog DEF BackedInv, TablesInv, LevelsInv, LogInv
  <2>2. CASE k \in DOMAIN memtable
    <3>1. Item(k)' = [off |-> NewOffset(k), vlen |-> VLen(memtable[k])]
      BY <1>3, <2>2, FlushItems DEF BackedInv
    <3>2. k \in Logged
      BY <2>2, <3>1 DEF VLen, Logged
    <3>3. Item(k)'.off = NewOffset(k)
      BY <3>1
    <3>4. /\ NewOffset(k) \in DOMAIN vlog'
          /\ vlog'[NewOffset(k)] = [key |-> k, val |-> memtable[k]]
      BY <2>1, <3>2
    <3> QED BY <3>3, <3>4
  <2>3. CASE k \notin DOMAIN memtable
    <3>1. Item(k)' = Item(k)
      BY <1>3, <2>3, FlushItems DEF BackedInv
    <3> QED BY <1>2, <2>1, <3>1
  <2> QED BY <2>2, <2>3
<1>4. CASE Reset
  BY <1>1, <1>4, ResetItems
<1>5. ASSUME ~Flush, ~Reset
      PROVE  Item(k)' = Item(k)
  BY <1>1, <1>5, ItemsStay DEF BackedInv, SameItem
<1>6. CASE GcPunch
  <2>1. ~Flush /\ ~Reset
    BY <1>6 DEF GcPunch, Flush, Reset
  <2>2. /\ DOMAIN vlog' = DOMAIN vlog \ (gc.start .. gc.off - 1)
        /\ \A off \in DOMAIN vlog' : vlog'[off] = vlog[off]
    BY <1>6 DEF GcPunch, Restrict
  <2>3. pc = "punch"
    BY <1>6 DEF GcPunch
  <2>4. Item(k).off \notin gc.start .. gc.off - 1
    BY <1>5, <2>1, <2>3 DEF BackedInv, Moved
  <2> QED BY <1>2, <1>5, <2>1, <2>2, <2>4
<1>7. CASE UNCHANGED vlog /\ ~Flush /\ ~Reset
  BY <1>2, <1>5, <1>7
<1> QED BY <1>3, <1>4, <1>6, <1>7, LogCases

LEMMA MovedStep ==
  ASSUME BackedInv, TablesInv', [Next]_vars
  PROVE  Moved'
<1>1. Inv /\ LogInv /\ ControlOK /\ LogOK
  BY TypeParts DEF BackedInv, TablesInv, LevelsInv, Inv
<1>2. /\ gc.start \in Nat /\ gc.off \in Nat /\ gc.left \in Nat /\ tail \in Nat
  BY <1>1 DEF LogOK, ControlOK
<1>3. SUFFICES ASSUME NEW k \in Keys, Item(k)'.vlen # 0,
                      Item(k)'.off \in gc'.start .. gc'.off - 1
               PROVE  pc' \in {"gc", "flush"} /\ k \in DOMAIN memtable'
  BY DEF Moved
<1>4. NoItem.vlen = 0 /\ NoGc.start .. NoGc.off - 1 = {}
  BY DEF NoItem, NoGc
(* Nothing is in the range of a gc that does not run or has just begun.     *)
<1>5. gc' # NoGc
  BY <1>3, <1>4
<1>6. ~Collecting => gc = NoGc
  BY <1>1 DEF LogInv
<1>7. ASSUME ~Flush, ~Reset
      PROVE  Item(k)' = Item(k)
  BY <1>3, <1>4, <1>7, ItemsStay DEF BackedInv, SameItem
<1>8. ASSUME Item(k)' = Item(k), Item(k).off \in gc.start .. gc.off - 1
      PROVE  pc \in {"gc", "flush"} /\ k \in DOMAIN memtable
  BY <1>3, <1>8 DEF BackedInv, Moved
<1>9. CASE UNCHANGED vars
  <2>1. gc' = gc /\ pc' = pc /\ memtable' = memtable /\ Item(k)' = Item(k)
    BY <1>9 DEF vars, tables, control, Item, Level0With, LevelsWith
  <2> QED BY <1>3, <1>8, <2>1
<1>10. ASSUME NEW a, NEW v, NEW c, Put(a, v) \/ Del(a) \/ GcNothing(c) \/ Reset \/ Return
       PROVE  FALSE
  <2>1. gc' = gc /\ ~Collecting
    BY <1>10 DEF Put, Del, GcNothing, Reset, Return, Ready, Collecting
  <2> QED BY <1>5, <1>6, <2>1
<1>11. ASSUME NEW c, GcStart(c)
       PROVE  FALSE
  <2> DEFINE first == IF DOMAIN vlog = {} THEN tail ELSE Min(DOMAIN vlog)
  <2>1. gc' = [start |-> first, off |-> first, left |-> c]
    BY <1>11 DEF GcStart
  <2> HIDE DEF first
  <2>2. first \in Nat
    <3>1. DOMAIN vlog \in SUBSET Nat
      BY <1>1 DEF LogOK
    <3> QED BY <1>2, <3>1, MinInSet DEF first
  <2>3. gc'.start .. gc'.off - 1 = {}
    BY <2>1, <2>2
  <2> QED BY <1>3, <2>3
<1>12. ~GcPunch
  BY <1>5 DEF GcPunch
<1>13. ~GcReadFails
  BY <1>1, NoReadFails
<1>14. CASE Flush
  <2>1. gc' = gc /\ Collecting
    BY <1>5, <1>6, <1>14 DEF Flush
  <2>2. gc.off <= tail
    BY <1>1, <1>2, <2>1 DEF LogInv
  <2>3. ASSUME k \in DOMAIN memtable
        PROVE  FALSE
    <3>1. Item(k)' = [off |-> NewOffset(k), vlen |-> VLen(memtable[k])]
      BY <1>14, <2>3, FlushItems DEF BackedInv
    <3>2. k \in Logged
      BY <1>3, <2>3, <3>1 DEF VLen, Logged
    <3>3. NewOffset(k) \in tail .. tail' - 1 /\ tail' \in Nat
      BY <1>1, <1>14, <3>2, FlushLog DEF LogInv
    <3>4. Item(k)'.off = NewOffset(k) /\ Item(k)'.off \in gc.start .. gc.off - 1
      BY <1>3, <2>1, <3>1
    <3> QED BY <1>2, <2>2, <3>3, <3>4
  <2>4. ASSUME k \notin DOMAIN memtable
        PROVE  FALSE
    <3>1. Item(k)' = Item(k)
      BY <1>14, <2>4, FlushItems DEF BackedInv
    <3> QED BY <1>3, <1>8, <2>1, <2>4, <3>1
  <2> QED BY <2>3, <2>4
<1>15. CASE FlushNothing \/ CompactLevel0 \/ Compact \/ Clean
  <2>1. /\ gc' = gc /\ ~Flush /\ ~Reset
        /\ pc \notin {"gc", "flush"} \/ DOMAIN memtable = {}
    BY <1>15 DEF FlushNothing, CompactLevel0, Compact, Clean, Flush, Reset
  <2> QED BY <1>3, <1>7, <1>8, <2>1
<1>16. CASE GcMove \/ GcSkip
  <2>1. /\ gc.left > 0 /\ Advance(1) /\ ~Flush /\ ~Reset /\ pc = "gc"
    BY <1>16 DEF GcMove, GcSkip, Flush, Reset
  <2>2. gc'.start = gc.start /\ gc'.off = gc.off + 1
    BY <1>1, <2>1, AdvanceFacts
  <2>3. /\ pc' \in {"gc", "flush"}
        /\ DOMAIN memtable \subseteq DOMAIN memtable'
        /\ GcMove => vlog[gc.off].key \in DOMAIN memtable'
    <3>1. CASE GcMove
      BY <3>1 DEF GcMove, MemPut, Overriding
    <3>2. CASE GcSkip
      <4>1. UNCHANGED <<memtable, pc>> /\ ~GcMove
        BY <3>2 DEF GcSkip, GcMove
      <4> QED BY <2>1, <4>1
    <3> QED BY <1>16, <3>1, <3>2
  <2>4. Item(k)' = Item(k)
    BY <1>7, <2>1
  <2>5. CASE Item(k).off \in gc.start .. gc.off - 1
    BY <1>8, <2>3, <2>4, <2>5
  <2>6. CASE Item(k).off = gc.off
    <3>1. vlog[gc.off].key = k
      BY <1>3, <2>4, <2>6 DEF BackedInv, VisibleBacked
    <3>2. CASE GcMove
      BY <2>3, <3>1, <3>2
    <3>3. CASE GcSkip
      <4>1. ~InUse(k, gc.off)
        BY <3>1, <3>3 DEF GcSkip
      <4>2. MemGet(k) # Empty
        BY <2>6, <4>1 DEF InUse, Offset
      <4> QED BY <2>3, <4>2 DEF MemGet
    <3> QED BY <1>16, <3>2, <3>3
  <2>7. Item(k).off \in gc.start .. gc.off
    <3>1. Item(k).off \in gc.start .. (gc.off + 1) - 1
      BY <1>3, <2>2, <2>4
    <3> QED BY <1>2, <3>1
  <2> QED BY <1>2, <2>5, <2>6, <2>7
<1>17. CASE GcFlush
  <2>1. gc' = gc /\ memtable' = memtable /\ pc' = "flush" /\ ~Flush /\ ~Reset
    BY <1>17 DEF GcFlush, Flush, Reset
  <2> QED BY <1>3, <1>7, <1>8, <2>1
<1> QED BY <1>9, <1>10, <1>11, <1>12, <1>13, <1>14, <1>15, <1>16, <1>17
        DEF Next, Invoke, Continue

LEMMA BackedInvInductive ==
  ASSUME NarrowKeys, GcWithinLog
  PROVE  /\ Init => BackedInv
         /\ BackedInv /\ [Next]_vars => BackedInv'
<1>1. ASSUME Init
      PROVE  BackedInv
  <2>1. \A k : Item(k) = NoItem
    BY <1>1, NoTables DEF Init, Item, Level0With, LevelsWith
  <2>2. VisibleBacked /\ Moved
    BY <2>1 DEF NoItem, VisibleBacked, Moved
  <2>3. LogInv
    BY <1>1, NoTables DEF Init, LogInv, Collecting
  <2> QED BY <1>1, <2>2, <2>3, TablesInvInductive DEF BackedInv
<1>2. ASSUME BackedInv, [Next]_vars
      PROVE  BackedInv'
  <2>1. TablesInv'
    BY <1>2, TablesInvInductive DEF BackedInv
  <2>2. LogInv'
    BY <1>2, LogStep DEF BackedInv, TablesInv, LevelsInv
  <2>3. VisibleBacked' /\ Moved'
    BY <1>2, <2>1, BackedStep, MovedStep
  <2> QED BY <2>1, <2>2, <2>3 DEF BackedInv
<1> QED BY <1>1, <1>2

(* As long as keys fit an int and callers ask gc for no more than the log   *)
(* has, every item get finds points to a record of its key: gc has rewritten*)
(* what it punches, and no compaction brings an older item back.            *)
THEOREM ItemsStayBacked ==
  ASSUME NarrowKeys, GcWithinLog
  PROVE  Spec => []VisibleBacked
<1>1. BackedInv => VisibleBacked
  BY DEF BackedInv
<1> QED BY <1>1, BackedInvInductive, PTL DEF Spec

------------------------------------------------------------------------------
(* What get returns *)

(* Callers put no empty value.                                              *)
NoEmptyPuts == Empty \notin PutValues

Shown(v) == IF v = Tombstone THEN Empty ELSE v

(* Values of the memory table and of the log are never empty.  Only where   *)
(* keys are deleted are there tombstones and items that say so, which have  *)
(* offset 0, and only where gc is called does it run.                       *)
ValuesInv ==
  /\ \A k \in DOMAIN memtable :
       memtable[k] # Empty /\ (memtable[k] = Tombstone => DelKeys # {})
  /\ \A x \in DOMAIN vlog : vlog[x].val \notin {Empty, Tombstone}
  /\ \A k \in Keys : Item(k).vlen = 0 =>
       Item(k) = NoItem \/ (Item(k).off = 0 /\ DelKeys # {})
  /\ Collecting => GcChunks # {}

(* From the flush until the memory table is cleaned, the tables return what *)
(* the memory table returns.                                                *)
Duplicated ==
  pc \in {"compactLevel0", "compact", "clean"} =>
    \A k \in DOMAIN memtable : Stored(k) = Shown(memtable[k])

ShownInv == BackedInv /\ ValuesInv /\ Duplicated

LEMMA ViewCases ==
  ASSUME ValuesInv, NEW k
  PROVE  View(k) = IF k \in DOMAIN memtable THEN Shown(memtable[k]) ELSE Stored(k)
<1>1. Tombstone # Empty
  BY KVStoreAssumption
<1> QED BY <1>1 DEF ValuesInv, View, MemGet, Shown

LEMMA ViewCasesNext ==
  ASSUME ValuesInv', NEW k
  PROVE  View(k)' = IF k \in DOMAIN memtable' THEN Shown(memtable'[k]) ELSE Stored(k)'
<1>1. Tombstone # Empty
  BY KVStoreAssumption
<1>2. \A j \in DOMAIN memtable' : memtable'[j] # Empty
  BY DEF ValuesInv
<1> QED BY <1>1, <1>2 DEF View, MemGet, Shown

(* What the tables return changes with a flush and a reset only.            *)
LEMMA StoredStays ==
  ASSUME BackedInv, BackedInv', [Next]_vars, ~Flush, ~Reset, NEW k \in Keys
  PROVE  Stored(k)' = Stored(k)
<1>1. Item(k)' = Item(k) \/ (Item(k).vlen = 0 /\ Item(k)' = NoItem)
  BY ItemsStay DEF BackedInv, SameItem
<1>2. CASE Item(k).vlen = 0
  BY <1>1, <1>2 DEF Stored, NoItem
<1>3. CASE Item(k).vlen # 0
  <2>1. Item(k)' = Item(k) /\ Item(k).off \in DOMAIN vlog /\ Item(k)'.off \in DOMAIN vlog'
    BY <1>1, <1>3 DEF BackedInv, VisibleBacked
  <2>2. streamOk /\ streamOk'
    BY DEF BackedInv, LogInv
  <2>3. vlog'[Item(k).off] = vlog[Item(k).off]
    <3>1. CASE UNCHANGED vlog
      BY <3>1
    <3>2. CASE GcPunch
      BY <2>1, <3>2 DEF GcPunch, Restrict
    <3> QED BY <3>1, <3>2, LogCases
  <2> QED BY <1>3, <2>1, <2>2, <2>3 DEF Stored, ReadLog
<1> QED BY <1>2, <1>3

LEMMA FlushStored ==
  ASSUME BackedInv, BackedInv', ValuesInv, Flush, NEW k \in Keys
  PROVE  Stored(k)' = IF k \in DOMAIN memtable THEN Shown(memtable[k]) ELSE Stored(k)
<1>1. streamOk /\ streamOk'
  BY DEF BackedInv, LogInv
<1>2. /\ \A off \in DOMAIN vlog : off \in DOMAIN vlog' /\ vlog'[off] = vlog[off]
      /\ \A j \in Logged : /\ NewOffset(j) \in DOMAIN vlog'
                           /\ vlog'[NewOffset(j)] = [key |-> j, val |-> memtable[j]]
  BY <1>1, FlushLog DEF BackedInv, TablesInv, LevelsInv
<1>3. CASE k \in DOMAIN memtable
  <2>1. Item(k)' = [off |-> NewOffset(k), vlen |-> VLen(memtable[k])]
    BY <1>3, FlushItems DEF BackedInv
  <2>2. CASE memtable[k] = Tombstone
    BY <1>3, <2>1, <2>2 DEF VLen, Stored, Shown
  <2>3. CASE memtable[k] # Tombstone
    <3>1. k \in Logged /\ memtable[k] # Empty
      BY <1>3, <2>3 DEF Logged, ValuesInv
    <3>2. Item(k)'.vlen = 1 /\ Item(k)'.off = NewOffset(k)
      BY <2>1, <2>3, <3>1 DEF VLen
    <3>3. NewOffset(k) \in DOMAIN vlog' /\ vlog'[NewOffset(k)].val = memtable[k]
      <4>1. /\ NewOffset(k) \in DOMAIN vlog'
            /\ vlog'[NewOffset(k)] = [key |-> k, val |-> memtable[k]]
        BY <1>2, <3>1
      <4> QED BY <4>1
    <3>4. Stored(k)' = vlog'[NewOffset(k)].val
      <4>1. Stored(k)' = ReadLog(Item(k).off)'
        BY <3>2 DEF Stored
      <4> QED BY <1>1, <3>2, <3>3, <4>1 DEF ReadLog
    <3> QED BY <1>3, <2>3, <3>3, <3>4 DEF Shown
  <2> QED BY <2>2, <2>3
<1>4. CASE k \notin DOMAIN memtable
  <2>1. Item(k)' = Item(k)
    BY <1>4, FlushItems DEF BackedInv
  <2>2. Item(k).vlen # 0 => Item(k).off \in DOMAIN vlog
    BY DEF BackedInv, VisibleBacked
  <2> QED BY <1>1, <1>2, <1>4, <2>1, <2>2 DEF Stored, ReadLog
<1> QED BY <1>3, <1>4

(* What gc moves becomes the value of its key, which it was unless the key  *)
(* was deleted and the record is the first of the log.                      *)
LEMMA MovedView ==
  ASSUME ShownInv, GcMove, NEW k, k = vlog[gc.off].key
  PROVE  /\ k \in Keys /\ k \notin DOMAIN memtable
         /\ vlog[gc.off].val \notin {Empty, Tombstone}
         /\ \/ Stored(k) = vlog[gc.off].val
            \/ Stored(k) = Empty /\ gc.off = 0 /\ DelKeys # {}
<1>1. LogOK /\ ControlOK
  BY TypeParts DEF ShownInv, BackedInv, TablesInv, LevelsInv, Inv
<1>2. gc.off \in DOMAIN vlog /\ streamOk /\ MemGet(k) = Empty /\ Item(k).off = gc.off
  BY DEF GcMove, InUse, Offset
<1>3. k \in Keys /\ gc.off \in Nat
  BY <1>1, <1>2 DEF LogOK, ControlOK, LogRecord
<1>4. k \notin DOMAIN memtable /\ vlog[gc.off].val \notin {Empty, Tombstone}
  BY <1>2 DEF MemGet, ShownInv, ValuesInv
<1>5. CASE Item(k).vlen = 0
  <2>1. Item(k) # NoItem
    BY <1>2, <1>3 DEF NoItem, NoOffset
  <2>2. Item(k).off = 0 /\ DelKeys # {}
    BY <1>3, <1>5, <2>1 DEF ShownInv, ValuesInv
  <2> QED BY <1>2, <1>3, <1>4, <1>5, <2>2 DEF Stored
<1>6. CASE Item(k).vlen # 0
  BY <1>2, <1>3, <1>4, <1>6 DEF Stored, ReadLog
<1> QED BY <1>3, <1>4, <1>5, <1>6

(* Only gc begins to collect.                                               *)
LEMMA CollectingStarts ==
  ASSUME Inv, ~Collecting, Collecting', [Next]_vars
  PROVE  \E c \in GcChunks : GcStart(c)
<1>1. ControlOK
  BY TypeParts DEF Inv
<1>2. CASE UNCHANGED vars
  BY <1>2 DEF vars, control, Collecting
<1>3. ASSUME NEW k \in Keys, NEW v \in PutValues, Put(k, v)
      PROVE  FALSE
  <2>1. (pc' = "flush" /\ after' = "return") \/ pc' = "return"
    BY <1>3, MemPutFacts DEF Put
  <2> QED BY <2>1 DEF Collecting
<1>4. ASSUME NEW k \in DelKeys, Del(k)
      PROVE  FALSE
  <2>1. CASE MemPut(k, Tombstone, "return")
    <3>1. (pc' = "flush" /\ after' = "return") \/ pc' = "return"
      BY <2>1, MemPutFacts
    <3> QED BY <3>1 DEF Collecting
  <2>2. CASE pc' = "return"
    BY <2>2 DEF Collecting
  <2> QED BY <1>4, <2>1, <2>2 DEF Del
<1>5. CASE Reset \/ Return \/ Clean
  BY <1>1, <1>5 DEF Reset, Return, Clean, Collecting, ControlOK
<1>6. CASE FlushNothing \/ Flush \/ CompactLevel0 \/ Compact
  BY <1>6 DEF FlushNothing, Flush, CompactLevel0, Compact, Cascade, Collecting
<1>7. CASE GcMove \/ GcSkip \/ GcReadFails \/ GcFlush \/ GcPunch
  BY <1>7 DEF GcMove, GcSkip, GcReadFails, GcFlush, GcPunch, Collecting
<1>8. ASSUME NEW c, GcNothing(c)
      PROVE  FALSE
  BY <1>8 DEF GcNothing, Collecting
<1> QED BY <1>2, <1>3, <1>4, <1>5, <1>6, <1>7, <1>8 DEF Next, Invoke, Continue

LEMMA ValuesStep ==
  ASSUME NoEmptyPuts, ShownInv, BackedInv', [Next]_vars
  PROVE  ValuesInv'
<1>1. LogOK /\ ControlOK /\ MemOK /\ Inv /\ streamOk
  BY TypeParts DEF ShownInv, BackedInv, TablesInv, LevelsInv, LogInv, Inv
<1>2. Tombstone # Empty /\ Tombstone \notin PutValues /\ DelKeys \subseteq Keys
  BY KVStoreAssumption
<1>3. ASSUME NEW k \in DOMAIN memtable'
      PROVE  memtable'[k] # Empty /\ (memtable'[k] = Tombstone => DelKeys # {})
  <2>1. \A j \in DOMAIN memtable :
          memtable[j] # Empty /\ (memtable[j] = Tombstone => DelKeys # {})
    BY DEF ShownInv, ValuesInv
  <2>2. ASSUME NEW a, NEW v, NEW next, MemPut(a, v, next), v # Empty,
               v = Tombstone => DelKeys # {}
        PROVE  memtable'[k] # Empty /\ (memtable'[k] = Tombstone => DelKeys # {})
    BY <1>3, <2>1, <2>2, MemPutFacts
  <2>3. ASSUME NEW a \in Keys, NEW v \in PutValues, Put(a, v)
        PROVE  memtable'[k] # Empty /\ (memtable'[k] = Tombstone => DelKeys # {})
    BY <1>2, <2>2, <2>3 DEF Put, NoEmptyPuts
  <2>4. ASSUME NEW a \in DelKeys, Del(a)
        PROVE  memtable'[k] # Empty /\ (memtable'[k] = Tombstone => DelKeys # {})
    <3>1. CASE UNCHANGED memtable
      BY <1>3, <2>1, <3>1
    <3>2. CASE MemPut(a, Tombstone, "return")
      BY <1>2, <2>2, <3>2
    <3> QED BY <2>4, <3>1, <3>2 DEF Del
  <2>5. CASE GcMove
    <3>1. /\ memtable'[vlog[gc.off].key] = vlog[gc.off].val
          /\ \A j \in DOMAIN memtable : j # vlog[gc.off].key => memtable'[j] = memtable[j]
          /\ DOMAIN memtable' = DOMAIN memtable \cup {vlog[gc.off].key}
      BY <2>5 DEF GcMove, MemPut, Overriding
    <3>2. vlog[gc.off].val \notin {Empty, Tombstone}
      BY <2>5, MovedView
    <3> QED BY <1>3, <2>1, <3>1, <3>2
  <2>6. CASE Clean \/ Reset
    <3>1. DOMAIN memtable' = {}
      BY <2>6 DEF Clean, Reset, EmptyMap
    <3> QED BY <1>3, <3>1
  <2>7. CASE UNCHANGED memtable
    BY <1>3, <2>1, <2>7
  <2>8. ~GcReadFails
    BY NoReadFails DEF ShownInv, BackedInv, TablesInv, LevelsInv
  <2>9. CASE UNCHANGED vars \/ FlushNothing \/ Flush \/ CompactLevel0 \/ Compact
    BY <2>7, <2>9 DEF vars, FlushNothing, Flush, CompactLevel0, Compact
  <2>10. CASE GcSkip \/ GcFlush \/ GcPunch \/ Return
    BY <2>7, <2>10 DEF GcSkip, GcFlush, GcPunch, Return
  <2>11. ASSUME NEW c, GcNothing(c) \/ GcStart(c)
         PROVE  UNCHANGED memtable
    BY <2>11 DEF GcNothing, GcStart
  <2> QED BY <2>3, <2>4, <2>5, <2>6, <2>7, <2>8, <2>9, <2>10, <2>11
          DEF Next, Invoke, Continue
<1>4. ASSUME NEW x \in DOMAIN vlog'
      PROVE  vlog'[x].val \notin {Empty, Tombstone}
  <2>1. \A y \in DOMAIN vlog : vlog[y].val \notin {Empty, Tombstone}
    BY DEF ShownInv, ValuesInv
  <2>2. CASE Flush
    <3>1. \A y \in DOMAIN vlog : vlog'[y] = vlog[y]
      BY <1>1, <2>2, FlushLog
    <3>2. DOMAIN vlog' = DOMAIN vlog \cup (tail .. tail' - 1)
      BY <1>1, <2>2, FlushLog
    <3>3. CASE x \in tail .. tail' - 1
      <4>1. PICK k \in Logged : vlog'[x] = [key |-> k, val |-> memtable[k]]
        BY <1>1, <2>2, <3>3, FlushLog
      <4> QED BY <4>1 DEF Logged, ShownInv, ValuesInv
    <3> QED BY <1>4, <2>1, <3>1, <3>2, <3>3
  <2>3. CASE Reset
    BY <1>4, <2>3, NoTables DEF Reset
  <2>4. CASE GcPunch
    BY <1>4, <2>1, <2>4 DEF GcPunch, Restrict
  <2> QED BY <1>4, <2>1, <2>2, <2>3, <2>4, LogCases
<1>5. ASSUME NEW k \in Keys, Item(k)'.vlen = 0
      PROVE  Item(k)' = NoItem \/ (Item(k)'.off = 0 /\ DelKeys # {})
  <2>1. Item(k).vlen = 0 => Item(k) = NoItem \/ (Item(k).off = 0 /\ DelKeys # {})
    BY DEF ShownInv, ValuesInv
  <2>2. CASE Flush /\ k \in DOMAIN memtable
    <3>1. Item(k)' = [off |-> NewOffset(k), vlen |-> VLen(memtable[k])]
      BY <2>2, FlushItems DEF ShownInv, BackedInv
    <3>2. memtable[k] = Tombstone /\ DelKeys # {}
      BY <1>5, <2>2, <3>1 DEF VLen, ShownInv, ValuesInv
    <3>3. NewOffset(k) = 0
      BY <3>2 DEF NewOffset, Logged
    <3> QED BY <3>1, <3>2, <3>3
  <2>3. CASE Flush /\ k \notin DOMAIN memtable
    BY <1>5, <2>1, <2>3, FlushItems DEF ShownInv, BackedInv
  <2>4. CASE Reset
    BY <2>4, ResetItems DEF BackedInv
  <2>5. CASE ~Flush /\ ~Reset
    BY <1>5, <2>1, <2>5, ItemsStay DEF ShownInv, BackedInv, SameItem
  <2> QED BY <2>2, <2>3, <2>4, <2>5
<1>6. ASSUME Collecting'
      PROVE  GcChunks # {}
  BY <1>1, <1>6, CollectingStarts DEF ShownInv, ValuesInv
<1> QED BY <1>3, <1>4, <1>5, <1>6 DEF ValuesInv

LEMMA DuplicatedStep ==
  ASSUME ShownInv, BackedInv', [Next]_vars
  PROVE  Duplicated'
<1> SUFFICES ASSUME pc' \in {"compactLevel0", "compact", "clean"}, NEW k \in DOMAIN memtable'
             PROVE  Stored(k)' = Shown(memtable'[k])
  BY DEF Duplicated
<1>1. ControlOK /\ MemOK
  BY TypeParts DEF ShownInv, BackedInv, TablesInv, LevelsInv, Inv
<1>2. CASE Flush
  <2>1. memtable' = memtable /\ k \in Keys
    BY <1>1, <1>2 DEF Flush, MemOK
  <2> QED BY <1>2, <2>1, FlushStored DEF ShownInv
<1>3. CASE FlushNothing
  BY <1>3 DEF FlushNothing
<1>4. CASE CompactLevel0 \/ Compact \/ UNCHANGED vars
  <2>1. memtable' = memtable /\ pc \in {"compactLevel0", "compact", "clean"}
    BY <1>4 DEF CompactLevel0, Compact, vars, control
  <2>2. k \in Keys /\ Stored(k) = Shown(memtable[k])
    BY <1>1, <2>1 DEF ShownInv, Duplicated, MemOK
  <2>3. ~Flush /\ ~Reset
    BY <2>1 DEF Flush, Reset
  <2> QED BY <2>1, <2>2, <2>3, StoredStays DEF ShownInv
<1>5. CASE Clean \/ Reset
  BY <1>5 DEF Clean, Reset, EmptyMap
<1>6. ASSUME NEW a, NEW v, NEW c, Put(a, v) \/ Del(a) \/ GcNothing(c) \/ GcStart(c)
      PROVE  FALSE
  BY <1>6 DEF Put, Del, MemPut, GcNothing, GcStart
<1>7. ~(GcMove \/ GcSkip \/ GcReadFails)
  BY DEF GcMove, MemPut, GcSkip, GcReadFails
<1>8. ~(GcFlush \/ GcPunch \/ Return)
  BY DEF GcFlush, GcPunch, Return
<1> QED BY <1>2, <1>3, <1>4, <1>5, <1>6, <1>7, <1>8 DEF Next, Invoke, Continue

LEMMA ShownInvInductive ==
  ASSUME NarrowKeys, GcWithinLog, NoEmptyPuts
  PROVE  /\ Init => ShownInv
         /\ ShownInv /\ [Next]_vars => ShownInv'
<1>1. ASSUME Init
      PROVE  ShownInv
  <2>1. \A k : Item(k) = NoItem
    BY <1>1, NoTables DEF Init, Item, Level0With, LevelsWith
  <2>2. ValuesInv
    BY <1>1, <2>1, NoTables DEF Init, EmptyMap, ValuesInv, Collecting
  <2>3. Duplicated
    BY <1>1 DEF Init, Duplicated
  <2> QED BY <1>1, <2>2, <2>3, BackedInvInductive DEF ShownInv
<1>2. ASSUME ShownInv, [Next]_vars
      PROVE  ShownInv'
  <2>1. BackedInv'
    BY <1>2, BackedInvInductive DEF ShownInv
  <2>2. ValuesInv' /\ Duplicated'
    BY <1>2, <2>1, ValuesStep, DuplicatedStep
  <2> QED BY <2>1, <2>2 DEF ShownInv
<1> QED BY <1>1, <1>2

LEMMA PutView ==
  ASSUME NoEmptyPuts, ShownInv, ShownInv', [Next]_vars,
         NEW a \in Keys, NEW v \in PutValues, Put(a, v), NEW k \in Keys
  PROVE  View(k)' = IF k = a THEN v ELSE View(k)
<1>1. v # Tombstone
  BY KVStoreAssumption
<1>2. /\ DOMAIN memtable' = DOMAIN memtable \cup {a} /\ memtable'[a] = v
      /\ \A j \in DOMAIN memtable : j # a => memtable'[j] = memtable[j]
  BY MemPutFacts DEF Put
<1>3. Stored(k)' = Stored(k)
  <2>1. ~Flush /\ ~Reset
    BY DEF Put, Ready, Flush, Reset, API!PutCall, API!ResetCall
  <2> QED BY <2>1, StoredStays DEF ShownInv
<1> QED BY <1>1, <1>2, <1>3, ViewCases, ViewCasesNext DEF ShownInv, Shown

LEMMA DelView ==
  ASSUME ShownInv, ShownInv', [Next]_vars, NEW a \in DelKeys, Del(a), NEW k \in Keys
  PROVE  View(k)' = IF k = a THEN Empty ELSE View(k)
<1>1. Stored(k)' = Stored(k)
  <2>1. ~Flush /\ ~Reset
    BY DEF Del, Ready, Flush, Reset, API!DelCall, API!ResetCall
  <2> QED BY <2>1, StoredStays DEF ShownInv
<1>2. CASE View(a) = Empty
  <2>1. memtable' = memtable
    BY <1>2 DEF Del
  <2>2. View(k)' = View(k)
    BY <1>1, <2>1, ViewCases, ViewCasesNext DEF ShownInv
  <2> QED BY <1>2, <2>2
<1>3. CASE View(a) # Empty
  <2>1. /\ DOMAIN memtable' = DOMAIN memtable \cup {a} /\ memtable'[a] = Tombstone
        /\ \A j \in DOMAIN memtable : j # a => memtable'[j] = memtable[j]
    BY <1>3, MemPutFacts DEF Del
  <2> QED BY <1>1, <2>1, ViewCases, ViewCasesNext DEF ShownInv, Shown
<1> QED BY <1>2, <1>3

LEMMA ResetView ==
  ASSUME ShownInv', Reset, NEW k \in Keys
  PROVE  View(k)' = Empty
<1>1. Item(k)' = NoItem
  BY ResetItems DEF ShownInv, BackedInv
<1>2. Stored(k)' = Empty
  BY <1>1 DEF Stored, NoItem
<1>3. DOMAIN memtable' = {}
  BY DEF Reset, EmptyMap
<1> QED BY <1>2, <1>3, ViewCasesNext DEF ShownInv

LEMMA GcMoveView ==
  ASSUME ShownInv, ShownInv', [Next]_vars, GcMove, NEW k \in Keys
  PROVE  \/ View(k)' = View(k)
         \/ /\ gc.off = 0 /\ vlog[0].key = k /\ DelKeys # {}
            /\ View(k) = Empty /\ View(k)' = vlog[0].val
<1> DEFINE a == vlog[gc.off].key
<1>1. /\ DOMAIN memtable' = DOMAIN memtable \cup {a}
      /\ memtable'[a] = vlog[gc.off].val
      /\ \A j \in DOMAIN memtable : j # a => memtable'[j] = memtable[j]
  BY DEF GcMove, MemPut, Overriding
<1>2. Stored(k)' = Stored(k)
  <2>1. ~Flush /\ ~Reset
    BY DEF GcMove, Flush, Reset
  <2> QED BY <2>1, StoredStays DEF ShownInv
<1>3. CASE k = a
  <2>1. View(k)' = vlog[gc.off].val /\ View(k) = Stored(k)
    BY <1>1, <1>3, MovedView, ViewCases, ViewCasesNext DEF ShownInv, Shown
  <2>2. \/ Stored(k) = vlog[gc.off].val
        \/ Stored(k) = Empty /\ gc.off = 0 /\ DelKeys # {}
    BY <1>3, MovedView
  <2> QED BY <1>3, <2>1, <2>2
<1>4. CASE k # a
  <2> HIDE DEF a
  <2>1. /\ k \in DOMAIN memtable' <=> k \in DOMAIN memtable
        /\ k \in DOMAIN memtable => memtable'[k] = memtable[k]
    BY <1>1, <1>4
  <2> QED BY <1>2, <2>1, ViewCases, ViewCasesNext DEF ShownInv
<1> QED BY <1>3, <1>4

(* No other step changes what get returns.                                  *)
LEMMA OtherViews ==
  ASSUME ShownInv, ShownInv', [Next]_vars, NEW k \in Keys,
         UNCHANGED memtable \/ Clean, ~Reset
  PROVE  View(k)' = View(k)
<1>1. CASE Flush
  <2>1. UNCHANGED memtable
    BY <1>1 DEF Flush
  <2>2. Stored(k)' = IF k \in DOMAIN memtable THEN Shown(memtable[k]) ELSE Stored(k)
    BY <1>1, FlushStored DEF ShownInv
  <2> QED BY <2>1, <2>2, ViewCases, ViewCasesNext DEF ShownInv
<1>2. CASE UNCHANGED memtable /\ ~Flush
  <2>1. Stored(k)' = Stored(k)
    BY <1>2, StoredStays DEF ShownInv
  <2> QED BY <1>2, <2>1, ViewCases, ViewCasesNext DEF ShownInv
<1>3. CASE Clean
  <2>1. ~Flush /\ DOMAIN memtable' = {} /\ pc = "clean"
    BY <1>3 DEF Clean, Flush, EmptyMap
  <2>2. Stored(k)' = Stored(k)
    BY <2>1, StoredStays DEF ShownInv
  <2>3. k \in DOMAIN memtable => Stored(k) = Shown(memtable[k])
    BY <2>1 DEF ShownInv, Duplicated
  <2> QED BY <2>1, <2>2, <2>3, ViewCases, ViewCasesNext DEF ShownInv
<1> QED BY <1>1, <1>2, <1>3

------------------------------------------------------------------------------
(* The map *)

(* A call is being executed whenever the store is not idle.                 *)
CallInv == pc = "idle" <=> call = API!NoCall

LEMMA CallInvInductive ==
  /\ Init => CallInv
  /\ Inv /\ CallInv /\ [Next]_vars => CallInv'
<1>1. Init => CallInv
  BY DEF Init, CallInv
<1>2. ASSUME Inv, CallInv, [Next]_vars
      PROVE  CallInv'
  <2>1. ControlOK
    BY <1>2, TypeParts DEF Inv
  <2>2. CASE UNCHANGED vars
    BY <1>2, <2>2 DEF vars, control, CallInv
  <2>3. ASSUME NEW k, NEW v, Put(k, v)
        PROVE  CallInv'
    <3>1. pc' # "idle"
      BY <2>3 DEF Put, MemPut
    <3>2. call' # API!NoCall
      BY <2>3 DEF Put, API!PutCall, API!NoCall
    <3> QED BY <3>1, <3>2 DEF CallInv
  <2>4. ASSUME NEW k, Del(k)
        PROVE  CallInv'
    <3>1. pc' # "idle"
      BY <2>4 DEF Del, MemPut
    <3>2. call' # API!NoCall
      BY <2>4 DEF Del, API!DelCall, API!NoCall
    <3> QED BY <3>1, <3>2 DEF CallInv
  <2>5. ASSUME NEW c, GcNothing(c) \/ GcStart(c)
        PROVE  CallInv'
    BY <2>5 DEF GcNothing, GcStart, API!GcCall, API!NoCall, CallInv
  <2>6. CASE Reset \/ Return
    BY <2>6 DEF Reset, Return, API!ResetCall, API!NoCall, CallInv
  <2>7. CASE FlushNothing \/ Flush \/ CompactLevel0 \/ Compact \/ Clean
    BY <1>2, <2>1, <2>7 DEF FlushNothing, Flush, CompactLevel0, Compact, Cascade, Clean,
                            CallInv, ControlOK
  <2>8. CASE GcMove \/ GcReadFails
    BY <1>2, <2>8 DEF GcMove, GcReadFails, MemPut, CallInv
  <2>9. CASE GcSkip \/ GcFlush \/ GcPunch
    BY <1>2, <2>9 DEF GcSkip, GcFlush, GcPunch, CallInv
  <2> QED BY <1>2, <2>2, <2>3, <2>4, <2>5, <2>6, <2>7, <2>8, <2>9
          DEF Next, Invoke, Continue
<1> QED BY <1>1, <1>2

MapInv == ShownInv /\ CallInv

LEMMA MapInvInductive ==
  ASSUME NarrowKeys, GcWithinLog, NoEmptyPuts
  PROVE  /\ Init => MapInv
         /\ MapInv /\ [Next]_vars => MapInv'
<1>1. Init => MapInv
  BY ShownInvInductive, CallInvInductive DEF MapInv
<1>2. MapInv /\ [Next]_vars => MapInv'
  BY ShownInvInductive, CallInvInductive
     DEF MapInv, ShownInv, BackedInv, TablesInv, LevelsInv
<1> QED BY <1>1, <1>2

(* Every step is one of a call that changes the map, a record that gc moves,*)
(* or leaves what get returns alone.                                        *)
LEMMA ViewStep ==
  ASSUME NoEmptyPuts, MapInv, MapInv', [Next]_vars, NEW k \in Keys
  PROVE  \/ View(k)' = View(k)
         \/ call = API!NoCall /\ call' = API!ResetCall
         \/ call = API!NoCall /\ call' = API!DelCall(k) /\ View(k)' = Empty
         \/ call = API!NoCall /\ call' = API!PutCall(k, View(k)')
         \/ /\ pc = "gc" /\ gc.off = 0 /\ vlog[0].key = k
            /\ View(k) = Empty /\ View(k)' = vlog[0].val
<1>1. pc = "idle" => call = API!NoCall
  BY DEF MapInv, CallInv
<1>2. ShownInv /\ ShownInv'
  BY DEF MapInv
<1>3. ASSUME NEW a \in Keys, NEW v \in PutValues, Put(a, v)
      PROVE  \/ View(k)' = View(k)
             \/ call = API!NoCall /\ call' = API!PutCall(k, View(k)')
  <2>1. View(k)' = IF k = a THEN v ELSE View(k)
    BY <1>2, <1>3, PutView
  <2>2. call = API!NoCall /\ call' = API!PutCall(a, v)
    BY <1>1, <1>3 DEF Put, Ready
  <2> QED BY <2>1, <2>2
<1>4. ASSUME NEW a \in DelKeys, Del(a)
      PROVE  \/ View(k)' = View(k)
             \/ call = API!NoCall /\ call' = API!DelCall(k) /\ View(k)' = Empty
  <2>1. View(k)' = IF k = a THEN Empty ELSE View(k)
    BY <1>2, <1>4, DelView
  <2>2. call = API!NoCall /\ call' = API!DelCall(a)
    BY <1>1, <1>4 DEF Del, Ready
  <2> QED BY <2>1, <2>2
<1>5. CASE Reset
  BY <1>1, <1>5 DEF Reset
<1>6. CASE GcMove
  <2>1. pc = "gc"
    BY <1>6 DEF GcMove
  <2> QED BY <1>2, <1>6, <2>1, GcMoveView
<1>7. ~GcReadFails
  BY <1>2, NoReadFails DEF ShownInv, BackedInv, TablesInv, LevelsInv
<1>8. ASSUME UNCHANGED memtable \/ Clean, ~Reset
      PROVE  View(k)' = View(k)
  BY <1>2, <1>8, OtherViews
<1>9. ASSUME UNCHANGED vars \/ FlushNothing \/ Flush \/ CompactLevel0 \/ Compact
      PROVE  UNCHANGED memtable
  BY <1>9 DEF vars, FlushNothing, Flush, CompactLevel0, Compact
<1>10. ASSUME GcSkip \/ GcFlush \/ GcPunch \/ Return
       PROVE  UNCHANGED memtable
  BY <1>10 DEF GcSkip, GcFlush, GcPunch, Return
<1>11. ASSUME NEW c, GcNothing(c) \/ GcStart(c)
       PROVE  UNCHANGED memtable
  BY <1>11 DEF GcNothing, GcStart
<1> QED BY <1>3, <1>4, <1>5, <1>6, <1>7, <1>8, <1>9, <1>10, <1>11
        DEF Next, Invoke, Continue

(* As long as keys fit an int, callers put no empty value and ask gc for no *)
(* more than the log has, a key keeps its value through every flush,        *)
(* compaction and gc, except that gc may bring back the deleted key of the  *)
(* first record of the log.                                                 *)
THEOREM OnlyDeletedKeysReturn ==
  ASSUME NarrowKeys, GcWithinLog, NoEmptyPuts
  PROVE  Spec => OnlyFirstRecordReturns
<1>1. MapInv /\ MapInv' /\ [Next]_vars => [AnswersChange]_vars
  BY ViewStep DEF AnswersChange
<1>2. Init => MapInv
  BY MapInvInductive
<1>3. MapInv /\ [Next]_vars => MapInv'
  BY MapInvInductive
<1> QED BY <1>1, <1>2, <1>3, PTL DEF Spec, OnlyFirstRecordReturns

(* Where callers never delete, or never call gc, no deleted key returns.    *)
NoReturns == DelKeys = {} \/ GcChunks = {}

LEMMA MapStep ==
  ASSUME NoEmptyPuts, NoReturns, MapInv, MapInv', [Next]_vars
  PROVE  API!Next \/ UNCHANGED API!vars
<1> DEFINE Kept0 == \A k \in Keys : View(k)' = View(k)
<1>1. ShownInv /\ ShownInv' /\ (pc = "idle" <=> call = API!NoCall)
  BY DEF MapInv, CallInv
<1>2. Kept0 => [k \in Keys |-> View(k)]' = [k \in Keys |-> View(k)]
  OBVIOUS
<1> HIDE DEF Kept0
<1>3. ASSUME UNCHANGED memtable \/ Clean, ~Reset
      PROVE  Kept0
  BY <1>1, <1>3, OtherViews DEF Kept0
<1>4. ASSUME NEW a \in Keys, NEW v \in PutValues, Put(a, v)
      PROVE  API!Next
  <2>1. \A k \in Keys : View(k)' = IF k = a THEN v ELSE View(k)
    BY <1>1, <1>4, PutView
  <2>2. call = API!NoCall /\ call' = API!PutCall(a, v)
    BY <1>1, <1>4 DEF Put, Ready
  <2>3. [k \in Keys |-> View(k)]' = [[k \in Keys |-> View(k)] EXCEPT ![a] = v]
    BY <2>1
  <2> QED BY <2>2, <2>3 DEF API!Next, API!Invoke, API!Put
<1>5. ASSUME NEW a \in DelKeys, Del(a)
      PROVE  API!Next
  <2>1. \A k \in Keys : View(k)' = IF k = a THEN Empty ELSE View(k)
    BY <1>1, <1>5, DelView
  <2>2. call = API!NoCall /\ call' = API!DelCall(a) /\ a \in Keys
    BY <1>1, <1>5, KVStoreAssumption DEF Del, Ready
  <2>3. [k \in Keys |-> View(k)]' = [[k \in Keys |-> View(k)] EXCEPT ![a] = Empty]
    BY <2>1
  <2> QED BY <2>2, <2>3 DEF API!Next, API!Invoke, API!Del
<1>6. CASE Reset
  <2>1. \A k \in Keys : View(k)' = Empty
    BY <1>1, <1>6, ResetView
  <2>2. call = API!NoCall /\ call' = API!ResetCall
    BY <1>1, <1>6 DEF Reset
  <2>3. [k \in Keys |-> View(k)]' = API!AllEmpty
    BY <2>1 DEF API!AllEmpty
  <2> QED BY <2>2, <2>3 DEF API!Next, API!Invoke, API!Reset
<1>7. ASSUME NEW c \in GcChunks, GcNothing(c) \/ GcStart(c)
      PROVE  API!Next
  <2>1. UNCHANGED memtable /\ call = API!NoCall /\ call' = API!GcCall(c)
    BY <1>1, <1>7 DEF GcNothing, GcStart, Ready
  <2>2. ~Reset
    BY <2>1 DEF Reset, API!GcCall, API!ResetCall
  <2> QED BY <1>2, <1>3, <2>1, <2>2 DEF API!Next, API!Invoke, API!Gc
<1>8. CASE Return
  <2>1. UNCHANGED memtable /\ call # API!NoCall /\ call' = API!NoCall /\ ~Reset
    BY <1>1, <1>8 DEF Return, Reset
  <2> QED BY <1>2, <1>3, <2>1 DEF API!Next, API!Return
<1>9. CASE UNCHANGED vars \/ FlushNothing \/ Flush \/ CompactLevel0 \/ Compact \/ Clean
  <2>1. (UNCHANGED memtable \/ Clean) /\ call' = call
    BY <1>9 DEF vars, control, FlushNothing, Flush, CompactLevel0, Compact, Clean
  <2>2. ~Reset
    BY <1>1, <2>1 DEF Reset, API!NoCall, API!ResetCall
  <2> QED BY <1>2, <1>3, <2>1, <2>2 DEF API!vars
<1>10. CASE GcSkip \/ GcFlush \/ GcPunch
  <2>1. UNCHANGED memtable /\ call' = call /\ ~Reset
    BY <1>10 DEF GcSkip, GcFlush, GcPunch, Reset
  <2> QED BY <1>2, <1>3, <2>1 DEF API!vars
<1>11. CASE GcMove
  <2>1. call' = call /\ GcChunks # {}
    BY <1>1, <1>11 DEF GcMove, ShownInv, ValuesInv, Collecting
  <2>2. Kept0
    BY <1>1, <1>11, <2>1, GcMoveView DEF NoReturns, Kept0
  <2> QED BY <1>2, <2>1, <2>2 DEF API!vars
<1>12. ~GcReadFails
  BY <1>1, NoReadFails DEF ShownInv, BackedInv, TablesInv, LevelsInv
<1> QED BY <1>4, <1>5, <1>6, <1>7, <1>8, <1>9, <1>10, <1>11, <1>12
        DEF Next, Invoke, Continue

(* As long as keys fit an int, callers put no empty value, ask gc for no    *)
(* more than the log has, and do not both delete and call gc, the store     *)
(* implements the map its interface promises, with any number of keys,      *)
(* tables, levels and records.                                              *)
THEOREM StoreIsMap ==
  ASSUME NarrowKeys, GcWithinLog, NoEmptyPuts, NoReturns
  PROVE  Spec => MapRefined
<1>1. ASSUME Init
      PROVE  API!Init
  <2>1. \A k : Item(k) = NoItem
    BY <1>1, NoTables DEF Init, Item, Level0With, LevelsWith
  <2>2. \A k \in Keys : View(k) = Empty
    BY <1>1, <2>1, ViewCases, MapInvInductive
       DEF Init, EmptyMap, MapInv, ShownInv, Stored, NoItem
  <2> QED BY <1>1, <2>2 DEF Init, API!Init, API!AllEmpty
<1>2. MapInv /\ MapInv' /\ [Next]_vars => [API!Next]_API!vars
  BY MapStep
<1>3. Init => MapInv
  BY MapInvInductive
<1>4. MapInv /\ [Next]_vars => MapInv'
  BY MapInvInductive
<1> QED BY <1>1, <1>2, <1>3, <1>4, PTL DEF Spec, MapRefined, API!Spec

------------------------------------------------------------------------------
(* What gc takes out of the log *)

(* The chunk is done when the records are about to be punched.              *)
Punching == \/ pc = "punch"
            \/ pc \in {"flush", "compactLevel0", "compact", "clean"} /\ after = "punch"

(* What gc has scanned is still in the log, and with what is left it is the *)
(* chunk.                                                                   *)
ChunkInv ==
  /\ Collecting => /\ gc.start .. gc.off - 1 \subseteq DOMAIN vlog
                   /\ gc.off - gc.start + gc.left = call.chunk
  /\ Punching => gc.left = 0

ReclaimInv == Inv /\ LogInv /\ ChunkInv

LEMMA ChunkStep ==
  ASSUME ReclaimInv, LogInv', [Next]_vars
  PROVE  ChunkInv'
<1>1. ControlOK /\ LogOK /\ Inv /\ streamOk
  BY TypeParts DEF ReclaimInv, LogInv, Inv
<1>2. /\ gc.start \in Nat /\ gc.off \in Nat /\ gc.left \in Nat /\ tail \in Nat
  BY <1>1 DEF LogOK, ControlOK
<1>3. ASSUME ~Collecting'
      PROVE  ChunkInv'
  BY <1>3 DEF Collecting, Punching, ChunkInv
<1>4. ASSUME NEW c \in GcChunks, GcStart(c)
      PROVE  ChunkInv'
  <2> DEFINE first == IF DOMAIN vlog = {} THEN tail ELSE Min(DOMAIN vlog)
  <2>1. /\ gc' = [start |-> first, off |-> first, left |-> c]
        /\ call' = API!GcCall(c) /\ pc' = "gc"
    BY <1>4 DEF GcStart
  <2> HIDE DEF first
  <2>2. first \in Nat /\ c \in Nat
    <3>1. DOMAIN vlog \in SUBSET Nat
      BY <1>1 DEF LogOK
    <3> QED BY <1>2, <3>1, MinInSet, KVStoreAssumption DEF first
  <2>3. gc'.start .. gc'.off - 1 = {} /\ gc'.off - gc'.start + gc'.left = call'.chunk
    BY <2>1, <2>2 DEF API!GcCall
  <2> QED BY <2>1, <2>3 DEF ChunkInv, Punching
<1>5. ASSUME Collecting
      PROVE  /\ gc.start .. gc.off - 1 \subseteq DOMAIN vlog
             /\ gc.off - gc.start + gc.left = call.chunk
             /\ Punching => gc.left = 0
  BY <1>5 DEF ReclaimInv, ChunkInv
<1>6. ASSUME Collecting, UNCHANGED <<gc, call>>, DOMAIN vlog \subseteq DOMAIN vlog',
             Punching' => Punching \/ gc.left = 0
      PROVE  ChunkInv'
  BY <1>5, <1>6 DEF ChunkInv
<1>7. CASE UNCHANGED vars
  BY <1>3, <1>6, <1>7 DEF vars, log, control, Collecting, Punching
<1>8. ASSUME NEW k, NEW v, NEW c, Put(k, v) \/ Del(k) \/ GcNothing(c) \/ Reset \/ Return
      PROVE  ~Collecting
  BY <1>8 DEF Put, Del, GcNothing, Reset, Return, Ready, Collecting
<1>9. ASSUME Collecting, FlushNothing \/ CompactLevel0 \/ Compact \/ Clean
      PROVE  ChunkInv'
  <2>1. UNCHANGED <<gc, call, vlog>>
    BY <1>9 DEF FlushNothing, CompactLevel0, Compact, Clean, log
  <2>2. Punching' => Punching
    BY <1>1, <1>9 DEF FlushNothing, CompactLevel0, Compact, Clean, Cascade, Punching
  <2> QED BY <1>6, <1>9, <2>1, <2>2
<1>10. ASSUME Collecting, Flush
       PROVE  ChunkInv'
  <2>1. UNCHANGED <<gc, call>> /\ (Punching' => Punching)
    BY <1>10 DEF Flush, Punching
  <2>2. DOMAIN vlog \subseteq DOMAIN vlog'
    BY <1>1, <1>10, FlushLog
  <2> QED BY <1>6, <1>10, <2>1, <2>2
<1>11. CASE GcMove \/ GcSkip
  <2>1. /\ gc.left > 0 /\ Advance(1) /\ pc = "gc" /\ UNCHANGED <<vlog, call>>
        /\ gc.off \in DOMAIN vlog
    BY <1>11 DEF GcMove, GcSkip, log
  <2>2. /\ gc'.start = gc.start /\ gc'.off = gc.off + 1 /\ gc'.left = gc.left - 1
    BY <1>1, <2>1, AdvanceFacts
  <2>3. ~Punching'
    BY <1>11 DEF GcMove, GcSkip, MemPut, Punching
  <2>4. Collecting
    BY <2>1 DEF Collecting
  <2>5. gc'.start .. gc'.off - 1 \subseteq (gc.start .. gc.off - 1) \cup {gc.off}
    BY <1>2, <2>2
  <2>6. gc'.start .. gc'.off - 1 \subseteq DOMAIN vlog'
    BY <1>5, <2>1, <2>4, <2>5
  <2>7. gc'.off - gc'.start + gc'.left = call'.chunk
    BY <1>2, <1>5, <2>1, <2>2, <2>4
  <2> QED BY <2>3, <2>6, <2>7 DEF ChunkInv
<1>12. CASE GcFlush
  <2>1. UNCHANGED <<gc, call, vlog>> /\ gc.left = 0 /\ Collecting
    BY <1>12 DEF GcFlush, log, Collecting
  <2> QED BY <1>6, <2>1
<1>13. CASE GcPunch
  BY <1>3, <1>13 DEF GcPunch, Collecting
<1>14. ~GcReadFails
  BY NoReadFails DEF ReclaimInv
<1>15. ~Collecting /\ Collecting' => \E c \in GcChunks : GcStart(c)
  BY <1>1, CollectingStarts
<1> QED BY <1>3, <1>4, <1>7, <1>8, <1>9, <1>10, <1>11, <1>12, <1>13, <1>14, <1>15
        DEF Next, Invoke, Continue

(* As long as callers ask gc for no more than the log has, a collection     *)
(* takes as many records out of the log as it was asked for.                *)
THEOREM GcTakesItsChunk ==
  ASSUME GcWithinLog
  PROVE  Spec => GcReclaims
<1> DEFINE Taken == pc = "punch" => Cardinality(DOMAIN vlog \ DOMAIN vlog') >= call.chunk
<1>1. Init => ReclaimInv
  BY InitTypes, NoTables DEF Init, ReclaimInv, LogInv, ChunkInv, Collecting, Punching
<1>2. ReclaimInv /\ [Next]_vars => ReclaimInv'
  BY NextTypes, LogStep, ChunkStep DEF ReclaimInv
<1>3. ASSUME ReclaimInv, Next, pc = "punch"
      PROVE  Cardinality(DOMAIN vlog \ DOMAIN vlog') >= call.chunk
  <2>1. GcPunch
    BY <1>3 DEF Next, Invoke, Continue, Put, Del, GcNothing, GcStart, Reset, Ready,
                FlushNothing, Flush, CompactLevel0, Compact, Clean, GcMove, GcSkip,
                GcReadFails, GcFlush, Return
  <2>2. /\ gc.start .. gc.off - 1 \subseteq DOMAIN vlog
        /\ gc.off - gc.start + gc.left = call.chunk /\ gc.left = 0 /\ gc.start <= gc.off
    BY <1>3 DEF ReclaimInv, ChunkInv, LogInv, Collecting, Punching
  <2>3. DOMAIN vlog \ DOMAIN vlog' = gc.start .. gc.off - 1
    BY <2>1, <2>2 DEF GcPunch, Restrict
  <2>4. gc.start \in Nat /\ gc.off \in Nat
    BY <1>3, TypeParts DEF ReclaimInv, Inv, ControlOK
  <2>5. \A a, b \in Nat : a <= b => Cardinality(a .. b - 1) = b - a
    <3> SUFFICES ASSUME NEW a \in Nat, NEW b \in Nat, a <= b
                 PROVE  Cardinality(a .. b - 1) = b - a
      OBVIOUS
    <3> DEFINE c == b - 1
    <3>1. c \in Int /\ (a > c => b - a = 0) /\ c - a + 1 = b - a
      OBVIOUS
    <3> HIDE DEF c
    <3>2. Cardinality(a .. c) = IF a > c THEN 0 ELSE c - a + 1
      BY <3>1, FS_Interval
    <3> QED BY <3>1, <3>2 DEF c
  <2>6. Cardinality(gc.start .. gc.off - 1) = gc.off - gc.start
    BY <2>2, <2>4, <2>5
  <2>7. call.chunk = gc.off - gc.start
    BY <2>2, <2>4
  <2>8. call.chunk \in Int
    BY <2>4, <2>7
  <2>9. Cardinality(DOMAIN vlog \ DOMAIN vlog') = Cardinality(gc.start .. gc.off - 1)
    BY <2>3, Zenon
  <2> QED BY <2>6, <2>7, <2>8, <2>9
<1>4. ReclaimInv /\ [Next]_vars => [Taken]_vars
  BY <1>3
<1> QED BY <1>1, <1>2, <1>4, PTL DEF Spec, GcReclaims

------------------------------------------------------------------------------
(* The first element of a list that is in a set, or d if none is.           *)

Hits(s, A) == {i \in DOMAIN s : s[i] \in A}
FirstIn(s, A, d) == IF Hits(s, A) = {} THEN d ELSE s[Min(Hits(s, A))]

LEMMA FirstInHits ==
  ASSUME NEW T, NEW s \in Seq(T), NEW A, NEW d, Hits(s, A) # {}
  PROVE  LET m == Min(Hits(s, A)) IN
         /\ m \in 1 .. Len(s) /\ s[m] \in A /\ FirstIn(s, A, d) = s[m]
         /\ \A j \in 1 .. Len(s) : j < m => s[j] \notin A
<1> DEFINE m == Min(Hits(s, A))
<1>1. DOMAIN s = 1 .. Len(s) /\ Len(s) \in Nat
  BY LenProperties
<1>2. Hits(s, A) \in SUBSET Nat
  BY <1>1 DEF Hits
<1>3. m \in Hits(s, A) /\ \A j \in Hits(s, A) : m <= j
  BY <1>2, MinInSet
<1>4. FirstIn(s, A, d) = s[m]
  BY DEF FirstIn
<1> HIDE DEF m
<1>5. m \in 1 .. Len(s) /\ s[m] \in A
  BY <1>1, <1>3 DEF Hits
<1>6. ASSUME NEW j \in 1 .. Len(s), j < m, s[j] \in A PROVE FALSE
  <2>1. j \in Hits(s, A)
    BY <1>1, <1>6 DEF Hits
  <2> QED BY <1>1, <1>3, <1>5, <1>6, <2>1
<1> QED BY <1>4, <1>5, <1>6 DEF m

LEMMA FirstAt ==
  ASSUME NEW T, NEW s \in Seq(T), NEW A, NEW d,
         NEW i \in 1 .. Len(s), s[i] \in A,
         \A j \in 1 .. Len(s) : j < i => s[j] \notin A
  PROVE  Hits(s, A) # {} /\ Min(Hits(s, A)) = i /\ FirstIn(s, A, d) = s[i]
<1>1. DOMAIN s = 1 .. Len(s) /\ Len(s) \in Nat
  BY LenProperties
<1>2. i \in Hits(s, A)
  BY <1>1 DEF Hits
<1> DEFINE m == Min(Hits(s, A))
<1>3. Hits(s, A) \in SUBSET Nat
  BY <1>1 DEF Hits
<1>4. m \in Hits(s, A) /\ m <= i
  BY <1>2, <1>3, MinInSet
<1>5. FirstIn(s, A, d) = s[m]
  BY <1>2 DEF FirstIn
<1> HIDE DEF m
<1>6. m \in 1 .. Len(s) /\ s[m] \in A
  BY <1>1, <1>4 DEF Hits
<1>7. m = i
  BY <1>1, <1>4, <1>6
<1> QED BY <1>2, <1>5, <1>7 DEF m

(* u continues s by t, as far as the search is concerned. *)
Continues(u, s, t, A, d) ==
  /\ Hits(s, A) # {} => Hits(u, A) # {} /\ FirstIn(u, A, d) = FirstIn(s, A, d)
  /\ Hits(s, A) = {} => FirstIn(u, A, d) = FirstIn(t, A, d)
  /\ Hits(s, A) = {} /\ Hits(t, A) # {} => Hits(u, A) # {}
  /\ Hits(s, A) = {} /\ Hits(t, A) = {} => Hits(u, A) = {}

LEMMA FirstOfConcat ==
  ASSUME NEW T, NEW s \in Seq(T), NEW t \in Seq(T), NEW A, NEW d
  PROVE  s \o t \in Seq(T) /\ Continues(s \o t, s, t, A, d)
<1> DEFINE u == s \o t
<1>1. /\ u \in Seq(T) /\ Len(u) = Len(s) + Len(t)
      /\ \A i \in 1 .. Len(s) : u[i] = s[i]
      /\ \A i \in 1 .. Len(t) : u[Len(s) + i] = t[i]
  BY ConcatProperties, LenProperties
<1>2. /\ DOMAIN s = 1 .. Len(s) /\ Len(s) \in Nat
      /\ DOMAIN t = 1 .. Len(t) /\ Len(t) \in Nat
      /\ DOMAIN u = 1 .. Len(u) /\ Len(u) \in Nat
  BY <1>1, LenProperties
<1>3. \A i \in 1 .. Len(u) : i > Len(s) => i - Len(s) \in 1 .. Len(t) /\ u[i] = t[i - Len(s)]
  BY <1>1, <1>2
<1> HIDE DEF u
<1>4. ASSUME Hits(s, A) # {}
      PROVE  Hits(u, A) # {} /\ FirstIn(u, A, d) = FirstIn(s, A, d)
  <2> DEFINE m == Min(Hits(s, A))
  <2>1. /\ m \in 1 .. Len(s) /\ s[m] \in A /\ FirstIn(s, A, d) = s[m]
        /\ \A j \in 1 .. Len(s) : j < m => s[j] \notin A
    BY <1>4, FirstInHits
  <2> HIDE DEF m
  <2>2. m \in 1 .. Len(u) /\ u[m] \in A /\ u[m] = s[m]
    BY <1>1, <1>2, <2>1
  <2>3. \A j \in 1 .. Len(u) : j < m => u[j] \notin A
    BY <1>1, <1>2, <2>1
  <2>4. u \in Seq(T) /\ m \in 1 .. Len(u) /\ u[m] \in A
    BY <1>1, <2>2
  <2>5. Hits(u, A) # {} /\ FirstIn(u, A, d) = u[m]
    BY <2>3, <2>4, FirstAt
  <2> QED BY <2>1, <2>2, <2>5
<1>5. ASSUME Hits(s, A) = {}, Hits(t, A) # {}
      PROVE  Hits(u, A) # {} /\ FirstIn(u, A, d) = FirstIn(t, A, d)
  <2> DEFINE m == Min(Hits(t, A))
  <2>1. /\ m \in 1 .. Len(t) /\ t[m] \in A /\ FirstIn(t, A, d) = t[m]
        /\ \A j \in 1 .. Len(t) : j < m => t[j] \notin A
    BY <1>5, FirstInHits
  <2> HIDE DEF m
  <2> DEFINE i == Len(s) + m
  <2>2. i \in 1 .. Len(u) /\ u[i] \in A /\ u[i] = t[m]
    BY <1>1, <1>2, <2>1
  <2>3. ASSUME NEW j \in 1 .. Len(u), j < i, u[j] \in A PROVE FALSE
    <3>1. CASE j <= Len(s)
      <4>1. j \in DOMAIN s /\ s[j] \in A
        BY <1>1, <1>2, <2>3, <3>1
      <4> QED BY <1>5, <4>1 DEF Hits
    <3>2. CASE j > Len(s)
      <4>1. j - Len(s) \in 1 .. Len(t) /\ t[j - Len(s)] \in A /\ j - Len(s) < m
        BY <1>2, <1>3, <2>1, <2>3, <3>2
      <4> QED BY <2>1, <4>1
    <3>3. j \in Nat
      BY <1>2
    <3> QED BY <1>2, <3>1, <3>2, <3>3
  <2> HIDE DEF i
  <2>4. u \in Seq(T) /\ \A j \in 1 .. Len(u) : j < i => u[j] \notin A
    BY <1>1, <2>3
  <2>5. Hits(u, A) # {} /\ FirstIn(u, A, d) = u[i]
    BY <2>2, <2>4, FirstAt
  <2> QED BY <2>1, <2>2, <2>5
<1>6. ASSUME Hits(s, A) = {}, Hits(t, A) = {}
      PROVE  Hits(u, A) = {}
  <2> SUFFICES ASSUME NEW j \in 1 .. Len(u), u[j] \in A PROVE FALSE
    BY <1>2 DEF Hits
  <2>1. CASE j <= Len(s)
    BY <1>1, <1>2, <1>6, <2>1 DEF Hits
  <2>2. CASE j > Len(s)
    BY <1>2, <1>3, <1>6, <2>2 DEF Hits
  <2> QED BY <1>2, <2>1, <2>2
<1>7. Hits(s, A) = {} /\ Hits(t, A) = {} => FirstIn(u, A, d) = FirstIn(t, A, d)
  BY <1>6 DEF FirstIn
<1> QED BY <1>1, <1>4, <1>5, <1>6, <1>7 DEF u, Continues

LEMMA NoneOfConcat ==
  ASSUME NEW T, NEW s \in Seq(T), NEW t \in Seq(T), NEW A,
         Hits(s, A) = {}, Hits(t, A) = {}
  PROVE  s \o t \in Seq(T) /\ Hits(s \o t, A) = {}
<1> DEFINE d == 0
<1>1. s \o t \in Seq(T) /\ Continues(s \o t, s, t, A, d)
  <2> HIDE DEF d
  <2> QED BY FirstOfConcat
<1> QED BY <1>1 DEF Continues

(* What one list after the other keeps, all of them in a row keep. *)
LEMMA FlattenKeeps ==
  ASSUME NEW T, NEW ss \in Seq(Seq(T)), Len(ss) > 0,
         NEW I, ss[1] \in I[1],
         \A i \in 2 .. Len(ss) : \A s \in I[i - 1] : s \o ss[i] \in I[i]
  PROVE  FlattenSeq(ss) \in I[Len(ss)]
<1> DEFINE n == Len(ss)
           Goes(f, m) == f = [i \in 1 .. m |-> IF i = 1 THEN ss[i] ELSE f[i - 1] \o ss[i]]
           Going(m) == \E f : Goes(f, m)
           Bad == {m \in 1 .. n : ~Going(m)}
<1>1. n \in Nat /\ n > 0 /\ DOMAIN ss = 1 .. n
  BY LenProperties
<1> HIDE DEF n
<1>2. Bad = {}
  <2> SUFFICES ASSUME Bad # {} PROVE FALSE
    OBVIOUS
  <2> HIDE DEF Going
  <2>1. Bad \in SUBSET Nat
    BY <1>1
  <2>2. PICK m \in Bad : \A j \in Bad : m <= j
    <3> HIDE DEF Bad
    <3> QED BY <2>1, MinInSet
  <2>2a. m \in 1 .. n /\ ~Going(m)
    OBVIOUS
  <2>2b. m # 1 => m - 1 \in 1 .. n /\ m - 1 < m /\ m \in Nat /\ Going(m - 1)
    <3> SUFFICES ASSUME m # 1 PROVE m - 1 \in 1 .. n /\ m - 1 < m /\ m \in Nat /\ Going(m - 1)
      OBVIOUS
    <3>1. m - 1 \in 1 .. n /\ m - 1 < m /\ m \in Nat /\ ~(m <= m - 1)
      BY <1>1, <2>2a
    <3>2. m - 1 \in Bad => m <= m - 1
      BY <2>2, Zenon
    <3> QED BY <3>1, <3>2
  <2>3. m \in 1 .. n /\ ~ \E f : Goes(f, m)
    BY <2>2a DEF Going
  <2>4. CASE m = 1
    <3> DEFINE f == [i \in 1 .. 1 |-> ss[i]]
    <3>1. Goes(f, 1)
      OBVIOUS
    <3> QED BY <2>3, <2>4, <3>1
  <2>5. CASE m # 1
    <3>1. m - 1 \in 1 .. n /\ m - 1 < m /\ m \in Nat
      BY <2>5, <2>2b
    <3>3. PICK f : Goes(f, m - 1)
      BY <2>5, <2>2b DEF Going
    <3> DEFINE h == [i \in 1 .. m |-> IF i = m THEN f[i - 1] \o ss[i] ELSE f[i]]
    <3>4. \A i \in 1 .. m : i = m \/ i \in 1 .. m - 1
      BY <3>1
    <3>5. \A i \in 1 .. m : i # 1 => i - 1 \in 1 .. m /\ i - 1 # m /\ h[i - 1] = f[i - 1]
      BY <3>1
    <3>6. \A i \in 1 .. m - 1 : f[i] = IF i = 1 THEN ss[i] ELSE f[i - 1] \o ss[i]
      BY <3>3
    <3>7. \A i \in 1 .. m : h[i] = IF i = 1 THEN ss[i] ELSE h[i - 1] \o ss[i]
      <4> TAKE i \in 1 .. m
      <4>1. CASE i = m
        BY <2>5, <3>5, <4>1
      <4>2. CASE i # m
        BY <3>4, <3>5, <3>6, <4>2
      <4> QED BY <4>1, <4>2
    <3>8. h = [i \in 1 .. m |-> h[i]]
      OBVIOUS
    <3> HIDE DEF h
    <3>9. Goes(h, m)
      BY <3>7, <3>8
    <3> QED BY <2>3, <3>9
  <2> QED BY <2>4, <2>5
<1> DEFINE g[i \in 1 .. n] == IF i = 1 THEN ss[i] ELSE g[i - 1] \o ss[i]
<1>3. Goes(g, n)
  <2>1. Going(n)
    <3> HIDE DEF Going
    <3>1. n \in 1 .. n
      BY <1>1
    <3> QED BY <1>2, <3>1
  <2> QED BY <2>1
<1>4. FlattenSeq(ss) = g[n]
  BY <1>1 DEF FlattenSeq, n
<1> HIDE DEF g
<1>5. \A i \in 1 .. n : g[i] = IF i = 1 THEN ss[i] ELSE g[i - 1] \o ss[i]
  BY <1>3
<1> DEFINE Off == {m \in 1 .. n : g[m] \notin I[m]}
<1>6. Off = {}
  <2> SUFFICES ASSUME Off # {} PROVE FALSE
    OBVIOUS
  <2>1. Off \in SUBSET Nat
    BY <1>1
  <2>2. PICK m \in Off : \A j \in Off : m <= j
    <3> HIDE DEF Off
    <3> QED BY <2>1, MinInSet
  <2>3. m \in 1 .. n /\ g[m] \notin I[m]
    OBVIOUS
  <2>4. m # 1
    BY <1>1, <1>5, <2>3
  <2>5. m - 1 \in 1 .. n /\ m - 1 < m /\ m \in 2 .. n
    BY <1>1, <2>3, <2>4
  <2>6. g[m - 1] \in I[m - 1]
    BY <2>2, <2>5
  <2>7. g[m] = g[m - 1] \o ss[m]
    BY <1>5, <2>3, <2>4
  <2>8. g[m - 1] \o ss[m] \in I[m]
    BY <2>5, <2>6 DEF n
  <2> QED BY <2>3, <2>7, <2>8
<1> QED BY <1>1, <1>4, <1>6 DEF n

(* The first element of lists put in a row is that of the first list that   *)
(* has one.                                                                 *)
LEMMA FlattenFirst ==
  ASSUME NEW T, NEW ss \in Seq(Seq(T)), NEW A, NEW d,
         NEW m \in 1 .. Len(ss), Hits(ss[m], A) # {},
         \A i \in 1 .. Len(ss) : i < m => Hits(ss[i], A) = {}
  PROVE  /\ FlattenSeq(ss) \in Seq(T)
         /\ Hits(FlattenSeq(ss), A) # {}
         /\ FirstIn(FlattenSeq(ss), A, d) = FirstIn(ss[m], A, d)
<1> DEFINE Early  == {s \in Seq(T) : Hits(s, A) = {}}
           Found  == {s \in Seq(T) : Hits(s, A) # {} /\ FirstIn(s, A, d) = FirstIn(ss[m], A, d)}
           I      == [i \in 1 .. Len(ss) |-> IF i < m THEN Early ELSE Found]
<1>0. \A s, t \in Seq(T) : s \o t \in Seq(T) /\ Continues(s \o t, s, t, A, d)
  <2> HIDE DEF Early, Found, I
  <2> TAKE s, t \in Seq(T)
  <2> QED BY FirstOfConcat
<1>1. /\ Len(ss) \in Nat /\ m \in Nat /\ m <= Len(ss) /\ 1 <= m /\ Len(ss) > 0
      /\ \A i \in 1 .. Len(ss) : ss[i] \in Seq(T)
  BY LenProperties
<1>2. ss[1] \in I[1]
  <2>1. 1 \in 1 .. Len(ss) /\ (m = 1 \/ 1 < m)
    BY <1>1
  <2> QED BY <1>1, <2>1
<1>3. ASSUME NEW i \in 2 .. Len(ss), NEW s \in I[i - 1]
      PROVE  s \o ss[i] \in I[i]
  <2>1. i \in 1 .. Len(ss) /\ i - 1 \in 1 .. Len(ss) /\ i \in Nat /\ ss[i] \in Seq(T)
    BY <1>1
  <2>2. s \in Seq(T)
    BY <2>1
  <2>3. /\ s \o ss[i] \in Seq(T)
        /\ Hits(s, A) # {} => Hits(s \o ss[i], A) # {} /\ FirstIn(s \o ss[i], A, d) = FirstIn(s, A, d)
        /\ Hits(s, A) = {} => FirstIn(s \o ss[i], A, d) = FirstIn(ss[i], A, d)
        /\ Hits(s, A) = {} /\ Hits(ss[i], A) # {} => Hits(s \o ss[i], A) # {}
        /\ Hits(s, A) = {} /\ Hits(ss[i], A) = {} => Hits(s \o ss[i], A) = {}
    BY <1>0, <2>1, <2>2 DEF Continues
  <2>4. CASE i < m
    <3>1. i - 1 < m /\ s \in Early
      BY <1>1, <2>1, <2>4
    <3> QED BY <2>1, <2>3, <2>4, <3>1
  <2>5. CASE i = m
    <3>1. i - 1 < m /\ s \in Early /\ ~(i < m)
      BY <1>1, <2>1, <2>5
    <3>2. s \o ss[i] \in Found
      BY <2>3, <2>5, <3>1
    <3> QED BY <2>1, <3>1, <3>2
  <2>6. CASE i > m
    <3>1. ~(i - 1 < m) /\ s \in Found /\ ~(i < m)
      BY <1>1, <2>1, <2>6
    <3>2. s \o ss[i] \in Found
      BY <2>3, <3>1
    <3> QED BY <2>1, <3>1, <3>2
  <2> QED BY <1>1, <2>1, <2>4, <2>5, <2>6
<1>4. I[Len(ss)] = Found
  BY <1>1
<1> HIDE DEF I
<1>5. FlattenSeq(ss) \in Found
  BY <1>1, <1>2, <1>3, <1>4, FlattenKeeps
<1> QED BY <1>5

LEMMA FlattenNone ==
  ASSUME NEW T, NEW ss \in Seq(Seq(T)), NEW A,
         \A i \in 1 .. Len(ss) : Hits(ss[i], A) = {}
  PROVE  FlattenSeq(ss) \in Seq(T) /\ Hits(FlattenSeq(ss), A) = {}
<1>1. Len(ss) \in Nat /\ DOMAIN ss = 1 .. Len(ss) /\ \A i \in 1 .. Len(ss) : ss[i] \in Seq(T)
  BY LenProperties
<1>2. CASE Len(ss) = 0
  <2>1. ss = <<>>
    BY <1>2, EmptySeq
  <2>2. FlattenSeq(ss) = ss
    BY <1>2 DEF FlattenSeq
  <2>3. <<>> \in Seq(T) /\ DOMAIN <<>> = {}
    BY EmptySeq
  <2> QED BY <2>1, <2>2, <2>3 DEF Hits
<1>3. CASE Len(ss) > 0
  <2> DEFINE Early == {s \in Seq(T) : Hits(s, A) = {}}
             I     == [i \in 1 .. Len(ss) |-> Early]
  <2>1. 1 \in 1 .. Len(ss) /\ Len(ss) \in 1 .. Len(ss)
    BY <1>1, <1>3
  <2>2. ss[1] \in I[1]
    BY <1>1, <2>1
  <2>3. ASSUME NEW i \in 2 .. Len(ss), NEW s \in I[i - 1]
        PROVE  s \o ss[i] \in I[i]
    <3>1. i \in 1 .. Len(ss) /\ i - 1 \in 1 .. Len(ss)
      BY <1>1
    <3>2. s \in Seq(T) /\ ss[i] \in Seq(T) /\ Hits(s, A) = {} /\ Hits(ss[i], A) = {}
      BY <1>1, <3>1
    <3>3. s \o ss[i] \in Seq(T) /\ Hits(s \o ss[i], A) = {}
      <4> DEFINE t == ss[i]
      <4> HIDE DEF t, I
      <4>1. s \in Seq(T) /\ t \in Seq(T) /\ Hits(s, A) = {} /\ Hits(t, A) = {}
        BY <3>2 DEF t
      <4>2. s \o t \in Seq(T) /\ Hits(s \o t, A) = {}
        BY <4>1, NoneOfConcat
      <4> QED BY <4>2 DEF t
    <3> QED BY <3>1, <3>3
  <2>4. I[Len(ss)] = Early
    BY <2>1
  <2> HIDE DEF I
  <2>5. FlattenSeq(ss) \in Early
    BY <1>3, <2>2, <2>3, <2>4, FlattenKeeps
  <2> QED BY <2>5
<1> QED BY <1>1, <1>2, <1>3

------------------------------------------------------------------------------
(* What scan lists *)

(* A set of keys in ascending order. *)
LEMMA AscendingFacts ==
  ASSUME NEW b \in Nat, NEW D \in SUBSET (0 .. b)
  PROVE  /\ Ascending(D) \in Seq(D)
         /\ \A k \in D : \E i \in 1 .. Len(Ascending(D)) : Ascending(D)[i] = k
         /\ \A i, j \in 1 .. Len(Ascending(D)) : i < j => Ascending(D)[i] < Ascending(D)[j]
<1> DEFINE n == Cardinality(D)
           s == Ascending(D)
<1>1. n \in Nat /\ \A k \in D : Rank(D, k) \in Nat /\ Rank(D, k) < n
  BY RankRises
<1>2. \A x, y \in D : Rank(D, x) < Rank(D, y) => x < y
  <2> SUFFICES ASSUME NEW x \in D, NEW y \in D, Rank(D, x) < Rank(D, y)
               PROVE  x < y
    OBVIOUS
  <2>1. x \in Nat /\ y \in Nat /\ Rank(D, x) \in Nat /\ Rank(D, y) \in Nat
    BY <1>1
  <2>2. y < x => Rank(D, y) < Rank(D, x)
    BY RankRises
  <2>3. x # y
    BY <2>1
  <2> QED BY <2>1, <2>2, <2>3
<1>3. ASSUME NEW i \in 1 .. n PROVE s[i] \in D /\ Rank(D, s[i]) = i - 1
  <2>1. i - 1 \in 0 .. Cardinality(D) - 1
    BY <1>1
  <2> DEFINE r == i - 1
  <2>2. s[i] = CHOOSE k \in D : Rank(D, k) = r
    BY DEF Ascending
  <2>3. r \in 0 .. Cardinality(D) - 1
    BY <2>1
  <2> HIDE DEF r, s
  <2>4. \E k \in D : Rank(D, k) = r
    BY <2>3, RankOnto
  <2>5. s[i] \in D /\ Rank(D, s[i]) = r
    BY <2>2, <2>4
  <2> QED BY <2>5 DEF r
<1>4. s \in [1 .. n -> D]
  BY <1>3 DEF Ascending
<1>5. s \in Seq(D) /\ Len(s) = n
  <2> HIDE DEF s, n
  <2>1. s \in Seq(D)
    BY <1>1, <1>4, SeqDef
  <2>2. DOMAIN s = 1 .. n /\ DOMAIN s = 1 .. Len(s) /\ Len(s) \in Nat
    BY <1>4, <2>1, LenProperties
  <2> QED BY <1>1, <2>1, <2>2
<1> HIDE DEF s, n
<1>6. ASSUME NEW k \in D PROVE \E i \in 1 .. n : s[i] = k
  <2> DEFINE i == Rank(D, k) + 1
  <2>1. i \in 1 .. n /\ i - 1 = Rank(D, k)
    BY <1>1
  <2>2. s[i] \in D /\ Rank(D, s[i]) = Rank(D, k)
    BY <1>3, <2>1
  <2> HIDE DEF i
  <2>3. k \in Nat /\ s[i] \in Nat /\ Rank(D, k) \in Nat
    <3>1. \A x \in D : x \in Nat
      OBVIOUS
    <3> QED BY <1>1, <2>2, <3>1
  <2>4. (s[i] < k => Rank(D, s[i]) < Rank(D, k)) /\ (k < s[i] => Rank(D, k) < Rank(D, s[i]))
    BY <2>2, RankRises
  <2>5. s[i] = k
    BY <2>2, <2>3, <2>4
  <2> QED BY <2>1, <2>5
<1>7. ASSUME NEW i \in 1 .. n, NEW j \in 1 .. n, i < j PROVE s[i] < s[j]
  <2>1. i - 1 < j - 1
    BY <1>1, <1>7
  <2>2. s[i] \in D /\ s[j] \in D /\ Rank(D, s[i]) < Rank(D, s[j])
    BY <1>3, <2>1
  <2> QED BY <1>2, <2>2
<1> QED BY <1>5, <1>6, <1>7 DEF s

(* The sort of a level keeps its tables. *)
LEMMA YoungestFirstFacts ==
  ASSUME NEW n \in Nat, NEW S, IsFiniteSet(S), \A t \in S : IsTable(t, Keys, n),
         \A t, u \in S : t # u => Apart(t, u)
  PROVE  /\ YoungestFirst(S) \in Seq(S)
         /\ \A t \in S : \E i \in 1 .. Len(YoungestFirst(S)) : YoungestFirst(S)[i] = t
<1> DEFINE Below(t) == {u \in S : Older(t, u)}
           c == Cardinality(S)
           s == YoungestFirst(S)
           R == 0 .. c - 1
           f == [t \in S |-> Cardinality(Below(t))]
<1>1. \A t \in S : t.timeId \in Nat /\ Smallest(t) \in Nat /\ Largest(t) \in Nat
                   /\ Smallest(t) <= Largest(t)
  <2> TAKE t \in S
  <2>1. MaxKey \in Nat /\ Keys \in SUBSET (0 .. MaxKey)
    BY KeysBounded
  <2>2. /\ t.timeId \in Nat /\ Smallest(t) \in KeysOf(t) /\ Smallest(t) \in Nat
        /\ Largest(t) \in Nat /\ \A k \in KeysOf(t) : Smallest(t) <= k /\ k <= Largest(t)
    BY <2>1, TableFacts
  <2> QED BY <2>2
<1>2. c \in Nat
  BY FS_CardinalityType
<1>3. \A t \in S : IsFiniteSet(Below(t)) /\ Cardinality(Below(t)) \in Nat /\ Cardinality(Below(t)) < c
  <2> TAKE t \in S
  <2>1. Below(t) \in SUBSET S /\ t \notin Below(t)
    BY <1>1 DEF Older
  <2>2. Below(t) # S
    BY <2>1
  <2> HIDE DEF Below
  <2> QED BY <2>1, <2>2, FS_Subset, FS_CardinalityType
<1>4. ASSUME NEW t \in S, NEW u \in S, Older(t, u)
      PROVE  Cardinality(Below(u)) < Cardinality(Below(t))
  <2>1. u \in Below(t) /\ u \notin Below(u)
    BY <1>1, <1>4 DEF Older
  <2>2. \A v \in Below(u) : v \in Below(t)
    BY <1>1, <1>4 DEF Older
  <2>3. Below(u) \in SUBSET Below(t) /\ Below(u) # Below(t)
    BY <2>1, <2>2
  <2> HIDE DEF Below
  <2> QED BY <1>3, <2>3, FS_Subset, FS_CardinalityType
<1>5. \A t, u \in S : t # u => Older(t, u) \/ Older(u, t)
  BY <1>1 DEF Apart, Older
<1>6. \A t, u \in S : t # u => Cardinality(Below(t)) # Cardinality(Below(u))
  <2> HIDE DEF Below
  <2> QED BY <1>3, <1>4, <1>5
<1>7. f \in Injection(S, R)
  <2> HIDE DEF Below, c
  <2>1. f \in [S -> R]
    BY <1>2, <1>3
  <2>2. \A t, u \in S : f[t] = f[u] => t = u
    BY <1>6
  <2> QED BY <2>1, <2>2 DEF Injection, IsInjective
<1>8. IsFiniteSet(R) /\ Cardinality(R) = c
  BY <1>2, FS_Interval
<1>9. f \in Surjection(S, R)
  <2> HIDE DEF f, R
  <2> QED BY <1>7, <1>8, FS_Injection DEF c
<1>10. ASSUME NEW i \in 1 .. c PROVE s[i] \in S /\ Cardinality(Below(s[i])) = i - 1
  <2>1. i - 1 \in R
    BY <1>2
  <2> DEFINE r == i - 1
  <2>2. s[i] = CHOOSE t \in S : Cardinality(Below(t)) = r
    BY DEF YoungestFirst
  <2>3. r \in R
    BY <2>1
  <2> HIDE DEF r, s, R, Below
  <2>4. \E t \in S : f[t] = r
    BY <1>9, <2>3 DEF Surjection
  <2>5. \E t \in S : Cardinality(Below(t)) = r
    BY <2>4
  <2>6. s[i] \in S /\ Cardinality(Below(s[i])) = r
    BY <2>2, <2>5
  <2> QED BY <2>6 DEF r
<1>11. s \in [1 .. c -> S]
  BY <1>10 DEF YoungestFirst
<1>12. s \in Seq(S) /\ Len(s) = c
  <2> HIDE DEF s, c
  <2>1. s \in Seq(S)
    BY <1>2, <1>11, SeqDef
  <2>2. DOMAIN s = 1 .. c /\ DOMAIN s = 1 .. Len(s) /\ Len(s) \in Nat
    BY <1>11, <2>1, LenProperties
  <2> QED BY <1>2, <2>1, <2>2
<1> HIDE DEF s, c, R, f, Below
<1>13. ASSUME NEW t \in S PROVE \E i \in 1 .. c : s[i] = t
  <2> DEFINE i == Cardinality(Below(t)) + 1
  <2>1. i \in 1 .. c /\ i - 1 = Cardinality(Below(t))
    BY <1>2, <1>3
  <2>2. s[i] \in S /\ Cardinality(Below(s[i])) = Cardinality(Below(t))
    BY <1>10, <2>1
  <2> HIDE DEF i
  <2> QED BY <1>6, <2>1, <2>2
<1> QED BY <1>12, <1>13 DEF s

AllTables == Range(level0) \cup UNION {levels[l] : l \in DOMAIN levels}
With(k)   == {t \in AllTables : k \in KeysOf(t)}
Below     == [l \in DOMAIN levels |-> YoungestFirst(levels[l])]

LEMMA ReverseFacts ==
  ASSUME NEW T, NEW s \in Seq(T)
  PROVE  /\ Reverse(s) \in Seq(T) /\ Len(Reverse(s)) = Len(s)
         /\ \A i \in 1 .. Len(s) : Reverse(s)[i] = s[(Len(s) - i) + 1]
<1> DEFINE n == Len(s)
           r == Reverse(s)
<1>1. n \in Nat /\ DOMAIN s = 1 .. n /\ \A i \in 1 .. n : s[i] \in T
  BY LenProperties, ElementOfSeq
<1>2. \A i \in 1 .. n : r[i] = s[(n - i) + 1] /\ (n - i) + 1 \in 1 .. n
  BY <1>1 DEF Reverse
<1>3. r \in [1 .. n -> T]
  BY <1>1, <1>2 DEF Reverse
<1> HIDE DEF r, n
<1>4. r \in Seq(T)
  BY <1>1, <1>3, SeqDef
<1>5. Len(r) = n
  BY <1>1, <1>3, <1>4, LenProperties
<1> QED BY <1>2, <1>4, <1>5 DEF r, n

LEMMA SearchLists ==
  ASSUME TablesInv
  PROVE  /\ level0 \in Seq(AllTables) /\ Reverse(level0) \in Seq(AllTables)
         /\ Below \in Seq(Seq(AllTables)) /\ Len(Below) = Len(levels)
         /\ FlattenSeq(Below) \in Seq(AllTables)
         /\ DOMAIN levels = 1 .. Len(levels) /\ Len(levels) \in Nat
         /\ \A l \in DOMAIN levels :
              /\ Below[l] \in Seq(levels[l]) /\ Below[l] \in Seq(AllTables)
              /\ \A t \in levels[l] : \E i \in 1 .. Len(Below[l]) : Below[l][i] = t
<1>1. Tidy(level0, levels, Stamps)
  BY ItemsAreFound
<1>2. FiniteLevels
  BY DEF TablesInv, LevelsInv
<1>3. level0 \in Seq(AllTables)
  <2>1. level0 \in Seq(Range(level0)) /\ Range(level0) \in SUBSET AllTables
    BY <1>1 DEF Tidy, AllTables
  <2> QED BY <2>1, SeqMonotonic
<1>4. Reverse(level0) \in Seq(AllTables)
  BY <1>3, ReverseFacts
<1>5. DOMAIN levels = 1 .. Len(levels) /\ Len(levels) \in Nat
  BY <1>1, SeqFacts DEF Tidy
<1>6. ASSUME NEW l \in DOMAIN levels
      PROVE  /\ Below[l] \in Seq(levels[l]) /\ Below[l] \in Seq(AllTables)
             /\ \A t \in levels[l] : \E i \in 1 .. Len(Below[l]) : Below[l][i] = t
  <2> DEFINE S == levels[l]
  <2>1. /\ Stamps \in Nat /\ IsFiniteSet(S)
        /\ \A t \in S : IsTable(t, Keys, Stamps)
        /\ \A t, u \in S : t # u => Apart(t, u)
    BY <1>1, <1>2 DEF Tidy, FiniteLevels
  <2>2. S \in SUBSET AllTables
    BY DEF AllTables
  <2>3. Below[l] = YoungestFirst(S)
    BY DEF Below
  <2> HIDE DEF S
  <2>4. /\ YoungestFirst(S) \in Seq(S)
        /\ \A t \in S : \E i \in 1 .. Len(YoungestFirst(S)) : YoungestFirst(S)[i] = t
    BY <2>1, YoungestFirstFacts
  <2>5. YoungestFirst(S) \in Seq(AllTables)
    BY <2>2, <2>4, SeqMonotonic
  <2> QED BY <2>3, <2>4, <2>5 DEF S
<1>7. Below \in Seq(Seq(AllTables)) /\ Len(Below) = Len(levels)
  <2>1. Below \in [1 .. Len(levels) -> Seq(AllTables)]
    BY <1>5, <1>6 DEF Below
  <2>2. Below \in Seq(Seq(AllTables))
    BY <1>5, <2>1, SeqDef
  <2>3. DOMAIN Below = 1 .. Len(Below) /\ Len(Below) \in Nat /\ DOMAIN Below = 1 .. Len(levels)
    BY <2>1, <2>2, LenProperties
  <2> DEFINE a == Len(Below)
             b == Len(levels)
  <2>4. a \in Nat /\ b \in Nat /\ 1 .. a = 1 .. b
    BY <1>5, <2>3
  <2> HIDE DEF a, b
  <2>5. a = b
    BY <2>4
  <2> QED BY <2>2, <2>5 DEF a, b
<1>8. FlattenSeq(Below) \in Seq(AllTables)
  <2>1. \A i \in 1 .. Len(Below) : Hits(Below[i], {}) = {}
    BY DEF Hits
  <2> QED BY <1>7, <2>1, FlattenNone
<1> QED BY <1>3, <1>4, <1>5, <1>6, <1>7, <1>8

(* Going through the tables as scan does, the first that has a key is the   *)
(* one in which get finds it.                                               *)
LEMMA SearchFinds ==
  ASSUME TablesInv, NEW k, NEW d
  PROVE  /\ SearchOrder \in Seq(AllTables)
         /\ \/ /\ Hits(SearchOrder, With(k)) # {}
               /\ k \in KeysOf(FirstIn(SearchOrder, With(k), d))
               /\ FirstIn(SearchOrder, With(k), d).items[k] = Item(k)
            \/ Hits(SearchOrder, With(k)) = {} /\ Item(k) = NoItem
<1> DEFINE r == Reverse(level0)
           f == FlattenSeq(Below)
           A == With(k)
<1>1. Tidy(level0, levels, Stamps) /\ Stamps \in Nat
  BY ItemsAreFound DEF Tidy
<1>2. /\ level0 \in Seq(AllTables) /\ r \in Seq(AllTables)
      /\ Below \in Seq(Seq(AllTables)) /\ Len(Below) = Len(levels)
      /\ f \in Seq(AllTables)
      /\ DOMAIN levels = 1 .. Len(levels) /\ Len(levels) \in Nat
      /\ \A l \in DOMAIN levels :
           /\ Below[l] \in Seq(levels[l]) /\ Below[l] \in Seq(AllTables)
           /\ \A t \in levels[l] : \E i \in 1 .. Len(Below[l]) : Below[l][i] = t
  BY SearchLists
<1>3. SearchOrder = r \o f
  BY DEF SearchOrder, Below
<1>4. /\ Len(level0) \in Nat /\ DOMAIN level0 = 1 .. Len(level0) /\ Len(r) = Len(level0)
      /\ \A i \in 1 .. Len(level0) : r[i] = level0[(Len(level0) - i) + 1]
      /\ \A i \in 1 .. Len(level0) : level0[i] \in AllTables
  BY <1>2, LenProperties, ElementOfSeq, ReverseFacts
<1>5. Item(k) = Find(level0, levels, k)
  BY ItemIsFind
<1>6. SearchOrder \in Seq(AllTables) /\ Continues(SearchOrder, r, f, A, d)
  <2> HIDE DEF r, f, A
  <2>1. r \o f \in Seq(AllTables) /\ Continues(r \o f, r, f, A, d)
    BY <1>2, FirstOfConcat
  <2> QED BY <1>3, <2>1
<1>7. ASSUME NEW i, TopAt(level0, k, i)
      PROVE  /\ Hits(SearchOrder, A) # {}
             /\ k \in KeysOf(FirstIn(SearchOrder, A, d))
             /\ FirstIn(SearchOrder, A, d).items[k] = Item(k)
  <2> DEFINE j == Len(level0) - i + 1
  <2>1. i \in 1 .. Len(level0) /\ k \in KeysOf(level0[i])
        /\ \A x \in 1 .. Len(level0) : k \in KeysOf(level0[x]) => x <= i
    BY <1>4, <1>7 DEF TopAt
  <2>2. j \in 1 .. Len(r) /\ (Len(level0) - j) + 1 = i
    BY <1>4, <2>1
  <2>3. r[j] = level0[i] /\ r[j] \in A
    BY <1>4, <2>1, <2>2 DEF With
  <2>4. ASSUME NEW x \in 1 .. Len(r), x < j, r[x] \in A PROVE FALSE
    <3>1. (Len(level0) - x) + 1 \in 1 .. Len(level0) /\ (Len(level0) - x) + 1 > i
      BY <1>4, <2>1, <2>4
    <3>2. k \in KeysOf(level0[(Len(level0) - x) + 1])
      BY <1>4, <2>4 DEF With
    <3> QED BY <1>4, <2>1, <3>1, <3>2
  <2>5. Hits(r, A) # {} /\ FirstIn(r, A, d) = level0[i]
    <3> HIDE DEF r, A, j
    <3>1. \A x \in 1 .. Len(r) : x < j => r[x] \notin A
      BY <2>4
    <3>2. j \in 1 .. Len(r) /\ r[j] \in A /\ r \in Seq(AllTables)
      BY <1>2, <2>2, <2>3
    <3>3. Hits(r, A) # {} /\ FirstIn(r, A, d) = r[j]
      BY <3>1, <3>2, FirstAt
    <3> QED BY <2>3, <3>3
  <2>6. Item(k) = level0[i].items[k]
    BY <1>1, <1>5, <1>7, FindTop
  <2> QED BY <1>6, <2>1, <2>5, <2>6 DEF Continues
<1>8. ASSUME NotIn0(level0, k) PROVE Hits(r, A) = {}
  <2> SUFFICES ASSUME NEW x \in DOMAIN r, r[x] \in A PROVE FALSE
    BY DEF Hits
  <2>1. x \in 1 .. Len(level0) /\ (Len(level0) - x) + 1 \in 1 .. Len(level0)
    BY <1>2, <1>4, LenProperties
  <2>2. r[x] = level0[(Len(level0) - x) + 1]
    BY <1>4, <2>1
  <2>3. k \in KeysOf(r[x])
    BY DEF With
  <2> QED BY <1>4, <1>8, <2>1, <2>2, <2>3 DEF NotIn0
<1>9. ASSUME NEW l \in DOMAIN levels, \A u \in levels[l] : k \notin KeysOf(u)
      PROVE  Hits(Below[l], A) = {}
  <2> SUFFICES ASSUME NEW x \in DOMAIN Below[l], Below[l][x] \in A PROVE FALSE
    BY DEF Hits
  <2>1. Below[l][x] \in levels[l]
    BY <1>2, LenProperties, ElementOfSeq
  <2> QED BY <1>9, <2>1 DEF With
<1>10. ASSUME NotIn0(level0, k), NEW l, NEW t, BelowAt(levels, k, l, t)
       PROVE  /\ Hits(SearchOrder, A) # {}
              /\ k \in KeysOf(FirstIn(SearchOrder, A, d))
              /\ FirstIn(SearchOrder, A, d).items[k] = Item(k)
  <2>1. /\ l \in DOMAIN levels /\ t \in levels[l] /\ k \in KeysOf(t)
        /\ \A m \in DOMAIN levels : m < l => \A u \in levels[m] : k \notin KeysOf(u)
    BY <1>10 DEF BelowAt, NotAbove
  <2> DEFINE s == Below[l]
  <2>2. s \in Seq(levels[l]) /\ s \in Seq(AllTables) /\ \E i \in 1 .. Len(s) : s[i] = t
    BY <1>2, <2>1
  <2>3. t \in A
    BY <2>1 DEF With, AllTables
  <2>4. Hits(s, A) # {}
    <3>1. DOMAIN s = 1 .. Len(s)
      BY <2>2, LenProperties
    <3> QED BY <2>2, <2>3, <3>1 DEF Hits
  <2>5. FirstIn(s, A, d) = t
    <3> DEFINE m == Min(Hits(s, A))
    <3>1. m \in 1 .. Len(s) /\ s[m] \in A /\ FirstIn(s, A, d) = s[m]
      <4> HIDE DEF s, A
      <4> QED BY <2>2, <2>4, FirstInHits
    <3> HIDE DEF m, s
    <3>2. s[m] \in levels[l] /\ k \in KeysOf(s[m])
      BY <2>2, <3>1, ElementOfSeq DEF With
    <3>3. s[m] # t => Apart(t, s[m])
      BY <1>1, <2>1, <3>2 DEF Tidy
    <3>4. IsTable(t, Keys, Stamps) /\ IsTable(s[m], Keys, Stamps)
      BY <1>1, <2>1, <3>2 DEF Tidy
    <3>5. s[m] = t
      BY <1>1, <2>1, <3>2, <3>3, <3>4, OneHolder
    <3> QED BY <3>1, <3>5
  <2>6. \A i \in 1 .. Len(Below) : i < l => Hits(Below[i], A) = {}
    BY <1>2, <1>9, <2>1
  <2>7. Hits(f, A) # {} /\ FirstIn(f, A, d) = FirstIn(s, A, d)
    <3>1. l \in 1 .. Len(Below) /\ Hits(Below[l], A) # {} /\ Below \in Seq(Seq(AllTables))
      BY <1>2, <2>1, <2>4
    <3> HIDE DEF A
    <3> QED BY <2>6, <3>1, FlattenFirst
  <2>8. Item(k) = t.items[k]
    BY <1>1, <1>5, <1>10, FindBelow
  <2>9. Hits(r, A) = {}
    BY <1>8, <1>10
  <2>10. Hits(SearchOrder, A) # {} /\ FirstIn(SearchOrder, A, d) = t
    <3> HIDE DEF r, f, s, A
    <3> QED BY <1>6, <2>5, <2>7, <2>9 DEF Continues
  <2> QED BY <2>1, <2>8, <2>10
<1>11. ASSUME NotIn0(level0, k), NotBelow(levels, k)
       PROVE  Hits(SearchOrder, A) = {} /\ Item(k) = NoItem
  <2>1. \A i \in 1 .. Len(Below) : Hits(Below[i], A) = {}
    BY <1>2, <1>9, <1>11 DEF NotBelow
  <2>2. Hits(f, A) = {}
    <3> HIDE DEF A
    <3> QED BY <1>2, <2>1, FlattenNone
  <2>3. Hits(r, A) = {}
    BY <1>8, <1>11
  <2>4. Hits(SearchOrder, A) = {}
    <3> HIDE DEF r, f, A
    <3> QED BY <1>6, <2>2, <2>3 DEF Continues
  <2> QED BY <1>5, <1>11, <2>4, FindNone
<1> QED BY <1>1, <1>6, <1>7, <1>10, <1>11, FindCases

(* The first item scan has for a key is the one get finds. *)
LEMMA ItemsOfFirst ==
  ASSUME TablesInv, NEW k
  PROVE  /\ ItemsOf(k) \in Seq(Items)
         /\ \/ Len(ItemsOf(k)) > 0 /\ ItemsOf(k)[1] = Item(k)
            \/ Len(ItemsOf(k)) = 0 /\ Item(k) = NoItem
<1> DEFINE s  == SearchOrder
           ss == [i \in DOMAIN s |-> ItemIn(s[i], k)]
           A  == With(k)
           d  == 0
<1>0. Stamps \in Nat /\ \A t \in AllTables : IsTable(t, Keys, Stamps)
  BY ItemsAreFound DEF Tidy, AllTables, Range
<1>1. /\ s \in Seq(AllTables)
      /\ \/ /\ Hits(s, A) # {}
            /\ k \in KeysOf(FirstIn(s, A, d))
            /\ FirstIn(s, A, d).items[k] = Item(k)
         \/ Hits(s, A) = {} /\ Item(k) = NoItem
  <2> HIDE DEF d
  <2> QED BY SearchFinds
<1>2. /\ DOMAIN s = 1 .. Len(s) /\ Len(s) \in Nat
      /\ \A i \in 1 .. Len(s) : s[i] \in AllTables
  BY <1>1, LenProperties, ElementOfSeq
<1>3. ASSUME NEW i \in 1 .. Len(s)
      PROVE  /\ ss[i] \in Seq(Items)
             /\ s[i] \in A => ss[i] = <<s[i].items[k]>> /\ s[i].items[k] \in Items
             /\ s[i] \notin A => ss[i] = <<>>
  <2>1. s[i] \in AllTables /\ IsTable(s[i], Keys, Stamps)
    BY <1>0, <1>2
  <2>2. ss[i] = ItemIn(s[i], k)
    BY <1>2
  <2>3. s[i] \in A <=> k \in KeysOf(s[i])
    BY <2>1 DEF With
  <2>4. k \in KeysOf(s[i]) => s[i].items[k] \in Items
    <3>1. s[i].items \in [KeysOf(s[i]) -> Items]
      BY <1>0, <2>1 DEF IsTable, Items
    <3> QED BY <3>1
  <2> HIDE DEF s, ss, A
  <2>5. <<>> \in Seq(Items)
    BY EmptySeq
  <2>6. CASE k \in KeysOf(s[i])
    <3> DEFINE e == s[i].items[k]
    <3>1. ss[i] = <<e>> /\ e \in Items
      BY <2>2, <2>4, <2>6 DEF ItemIn
    <3> HIDE DEF e
    <3>2. <<e>> \in Seq(Items)
      BY <3>1
    <3> QED BY <2>3, <2>6, <3>1, <3>2 DEF e
  <2>7. CASE k \notin KeysOf(s[i])
    BY <2>2, <2>3, <2>5, <2>7 DEF ItemIn
  <2> QED BY <2>6, <2>7
<1>4. ss \in Seq(Seq(Items)) /\ Len(ss) = Len(s)
  <2>1. ss \in [1 .. Len(s) -> Seq(Items)]
    BY <1>2, <1>3
  <2> DEFINE n == Len(s)
  <2>2. n \in Nat /\ ss \in [1 .. n -> Seq(Items)] /\ DOMAIN ss = 1 .. n
    BY <1>2, <2>1
  <2> HIDE DEF ss, n
  <2>3. ss \in Seq(Seq(Items))
    BY <2>2, SeqDef
  <2>4. DOMAIN ss = 1 .. Len(ss) /\ Len(ss) \in Nat
    BY <2>3, LenProperties
  <2>5. Len(ss) = n
    BY <2>2, <2>4
  <2> QED BY <2>3, <2>5 DEF n
<1>5. ItemsOf(k) = FlattenSeq(ss)
  BY DEF ItemsOf, ItemsIn
<1> HIDE DEF ss, s, A
<1>6. ASSUME NEW i \in 1 .. Len(s), s[i] \notin A PROVE Hits(ss[i], Items) = {}
  <2>1. ss[i] = <<>> /\ DOMAIN <<>> = {}
    BY <1>3, <1>6
  <2> QED BY <2>1 DEF Hits
<1>7. CASE Hits(s, A) # {}
  <2> DEFINE m == Min(Hits(s, A))
             e == s[m].items[k]
             f == FlattenSeq(ss)
  <2>1. /\ m \in 1 .. Len(s) /\ s[m] \in A /\ FirstIn(s, A, d) = s[m]
        /\ \A j \in 1 .. Len(s) : j < m => s[j] \notin A
    <3> HIDE DEF d
    <3> QED BY <1>1, <1>7, FirstInHits
  <2> HIDE DEF m, d
  <2>2. ss[m] = <<e>> /\ e \in Items /\ e = Item(k)
    BY <1>1, <1>3, <1>7, <2>1
  <2> HIDE DEF e
  <2>3. Hits(ss[m], Items) # {} /\ FirstIn(ss[m], Items, d) = e
    <3>1. <<e>> \in Seq(Items) /\ Len(<<e>>) = 1 /\ <<e>>[1] = e
      BY <2>2
    <3> DEFINE t == <<e>>
    <3>2. t \in Seq(Items) /\ 1 \in 1 .. Len(t) /\ t[1] \in Items
          /\ \A j \in 1 .. Len(t) : j < 1 => t[j] \notin Items
      BY <2>2, <3>1
    <3> HIDE DEF t
    <3>3. Hits(t, Items) # {} /\ FirstIn(t, Items, d) = t[1]
      BY <3>2, FirstAt
    <3> QED BY <2>2, <3>1, <3>3 DEF t
  <2>4. \A i \in 1 .. Len(ss) : i < m => Hits(ss[i], Items) = {}
    BY <1>4, <1>6, <2>1
  <2>5. f \in Seq(Items) /\ Hits(f, Items) # {} /\ FirstIn(f, Items, d) = FirstIn(ss[m], Items, d)
    <3>1. m \in 1 .. Len(ss)
      BY <1>4, <2>1
    <3> QED BY <1>4, <2>3, <2>4, <3>1, FlattenFirst
  <2> HIDE DEF f
  <2>6. 1 \in 1 .. Len(f) /\ f[1] \in Items /\ Len(f) > 0
    <3>1. DOMAIN f = 1 .. Len(f) /\ Len(f) \in Nat
      BY <2>5, LenProperties
    <3>2. DOMAIN f # {}
      BY <2>5 DEF Hits
    <3>3. 1 \in 1 .. Len(f) /\ Len(f) > 0
      BY <3>1, <3>2
    <3> QED BY <2>5, <3>3, ElementOfSeq
  <2>7. FirstIn(f, Items, d) = f[1]
    <3>1. \A j \in 1 .. Len(f) : j < 1 => f[j] \notin Items
      OBVIOUS
    <3> QED BY <2>5, <2>6, <3>1, FirstAt
  <2> QED BY <1>5, <2>2, <2>3, <2>5, <2>6, <2>7 DEF f
<1>8. CASE Hits(s, A) = {}
  <2> DEFINE f == FlattenSeq(ss)
  <2>1. \A i \in 1 .. Len(s) : s[i] \notin A
    BY <1>2, <1>8 DEF Hits
  <2>2. \A i \in 1 .. Len(ss) : Hits(ss[i], Items) = {}
    BY <1>4, <1>6, <2>1
  <2>3. f \in Seq(Items) /\ Hits(f, Items) = {}
    BY <1>4, <2>2, FlattenNone
  <2> HIDE DEF f
  <2>4. Len(f) = 0
    <3>1. DOMAIN f = 1 .. Len(f) /\ Len(f) \in Nat /\ \A i \in 1 .. Len(f) : f[i] \in Items
      BY <2>3, LenProperties, ElementOfSeq
    <3>2. Len(f) > 0 => 1 \in Hits(f, Items)
      BY <3>1 DEF Hits
    <3> QED BY <2>3, <3>1, <3>2
  <2> QED BY <1>1, <1>5, <1>8, <2>3, <2>4 DEF f
<1> QED BY <1>7, <1>8

LEMMA KeysAreNat == \A k \in Keys : k \in Nat
BY KeysBounded

Read  == {ItemValue(item) : item \in Items}
Pairs == Keys \X Read

(* All that scan lists for a key, with what get reads in the first place.   *)
LEMMA PairsOfFirst ==
  ASSUME TablesInv, NEW k \in Keys
  PROVE  /\ PairsOf(k) \in Seq(Pairs)
         /\ \A i \in 1 .. Len(PairsOf(k)) : PairsOf(k)[i][1] = k
         /\ \/ Len(PairsOf(k)) > 0 /\ PairsOf(k)[1] = <<k, Stored(k)>>
            \/ Len(PairsOf(k)) = 0 /\ Stored(k) = Empty
<1> DEFINE s == ItemsOf(k)
           n == Len(s)
           p == PairsOf(k)
<1>1. /\ s \in Seq(Items)
      /\ \/ n > 0 /\ s[1] = Item(k)
         \/ n = 0 /\ Item(k) = NoItem
  BY ItemsOfFirst
<1>2. n \in Nat /\ DOMAIN s = 1 .. n /\ \A i \in 1 .. n : s[i] \in Items
  BY <1>1, LenProperties, ElementOfSeq
<1>3. p = [i \in 1 .. n |-> <<k, ItemValue(s[i])>>]
  BY <1>2 DEF PairsOf
<1>4. Stored(k) = ItemValue(Item(k))
  BY DEF Stored, ItemValue
<1>5. ItemValue(NoItem) = Empty
  BY DEF ItemValue, NoItem
<1> HIDE DEF p, n, s
<1>6. p \in [1 .. n -> Pairs]
  BY <1>2, <1>3 DEF Pairs, Read
<1>7. p \in Seq(Pairs) /\ Len(p) = n
  <2>1. p \in Seq(Pairs)
    BY <1>2, <1>6, SeqDef
  <2>2. DOMAIN p = 1 .. n /\ DOMAIN p = 1 .. Len(p) /\ Len(p) \in Nat
    BY <1>6, <2>1, LenProperties
  <2> QED BY <1>2, <2>1, <2>2
<1>8. \A i \in 1 .. n : p[i] = <<k, ItemValue(s[i])>>
  BY <1>3
<1>9. n > 0 => p[1] = <<k, ItemValue(s[1])>>
  BY <1>2, <1>8
<1> QED BY <1>1, <1>4, <1>5, <1>7, <1>8, <1>9 DEF p

InRange(S, lo, hi) == {k \in S : lo <= k /\ k <= hi}
PairLists(lo, hi)  == [i \in DOMAIN Between(Keys, lo, hi) |-> PairsOf(Between(Keys, lo, hi)[i])]

(* The keys of a range in ascending order, and what is listed for each.     *)
LEMMA ScanLists ==
  ASSUME TablesInv, NEW lo, NEW hi
  PROVE  LET found == Between(Keys, lo, hi)
             ss    == PairLists(lo, hi)
         IN  /\ found \in Seq(Keys)
             /\ \A k \in InRange(Keys, lo, hi) : \E i \in 1 .. Len(found) : found[i] = k
             /\ \A i, j \in 1 .. Len(found) : i < j => found[i] < found[j]
             /\ ss \in Seq(Seq(Pairs)) /\ Len(ss) = Len(found) /\ Len(found) \in Nat
             /\ \A i \in 1 .. Len(found) : ss[i] = PairsOf(found[i])
             /\ ScanTables(lo, hi) = FlattenSeq(ss)
<1> DEFINE D == InRange(Keys, lo, hi)
           found == Between(Keys, lo, hi)
           ss == PairLists(lo, hi)
<1>1. MaxKey \in Nat /\ D \in SUBSET (0 .. MaxKey) /\ D \in SUBSET Keys
  BY KeysBounded DEF InRange
<1>2. found = Ascending(D)
  BY DEF Between, InRange
<1>3. ss = [i \in DOMAIN found |-> PairsOf(found[i])]
  BY DEF PairLists
<1>4. ScanTables(lo, hi) = FlattenSeq(ss)
  BY <1>3 DEF ScanTables
<1> HIDE DEF D, found, ss
<1>5. /\ found \in Seq(D)
      /\ \A k \in D : \E i \in 1 .. Len(found) : found[i] = k
      /\ \A i, j \in 1 .. Len(found) : i < j => found[i] < found[j]
  BY <1>1, <1>2, AscendingFacts
<1>6. found \in Seq(Keys)
  BY <1>1, <1>5, SeqMonotonic
<1>7. /\ Len(found) \in Nat /\ DOMAIN found = 1 .. Len(found)
      /\ \A i \in 1 .. Len(found) : found[i] \in Keys
  BY <1>6, LenProperties, ElementOfSeq
<1>8. ASSUME NEW i \in 1 .. Len(found) PROVE ss[i] = PairsOf(found[i]) /\ ss[i] \in Seq(Pairs)
  <2>1. ss[i] = PairsOf(found[i]) /\ found[i] \in Keys
    BY <1>3, <1>7
  <2>2. PairsOf(found[i]) \in Seq(Pairs)
    BY <2>1, PairsOfFirst
  <2> QED BY <2>1, <2>2
<1>9. ss \in Seq(Seq(Pairs)) /\ Len(ss) = Len(found)
  <2> DEFINE n == Len(found)
  <2>1. n \in Nat /\ ss \in [1 .. n -> Seq(Pairs)] /\ DOMAIN ss = 1 .. n
    BY <1>3, <1>7, <1>8
  <2> HIDE DEF n
  <2>2. ss \in Seq(Seq(Pairs))
    BY <2>1, SeqDef
  <2>3. DOMAIN ss = 1 .. Len(ss) /\ Len(ss) \in Nat
    BY <2>2, LenProperties
  <2>4. Len(ss) = n
    BY <2>1, <2>3
  <2> QED BY <2>2, <2>4 DEF n
<1> QED BY <1>4, <1>5, <1>6, <1>7, <1>8, <1>9 DEF D, found, ss

(* The first pair of a key in the range has the value the tables keep.      *)
LEMMA ScanFirst ==
  ASSUME TablesInv, NEW lo, NEW hi, NEW k \in InRange(Keys, lo, hi)
  PROVE  FirstOf(k, ScanTables(lo, hi))[2] = Stored(k)
<1> DEFINE found == Between(Keys, lo, hi)
           ss == PairLists(lo, hi)
           pairs == ScanTables(lo, hi)
           A == {p \in Pairs : p[1] = k}
           d == <<k, Empty>>
<1>1. /\ found \in Seq(Keys)
      /\ \E i \in 1 .. Len(found) : found[i] = k
      /\ \A i, j \in 1 .. Len(found) : i < j => found[i] < found[j]
      /\ ss \in Seq(Seq(Pairs)) /\ Len(ss) = Len(found) /\ Len(found) \in Nat
      /\ \A i \in 1 .. Len(found) : ss[i] = PairsOf(found[i])
      /\ pairs = FlattenSeq(ss)
  BY ScanLists
<1>2. k \in Keys /\ k \in Nat
  BY KeysBounded DEF InRange
<1> HIDE DEF found, ss, pairs
<1>3. \A i \in 1 .. Len(found) : found[i] \in Keys /\ found[i] \in Nat
  <2>1. \A i \in 1 .. Len(found) : found[i] \in Keys
    BY <1>1, ElementOfSeq
  <2> QED BY <2>1, KeysAreNat
<1>4. /\ PairsOf(k) \in Seq(Pairs)
      /\ \A i \in 1 .. Len(PairsOf(k)) : PairsOf(k)[i][1] = k
      /\ \/ Len(PairsOf(k)) > 0 /\ PairsOf(k)[1] = <<k, Stored(k)>>
         \/ Len(PairsOf(k)) = 0 /\ Stored(k) = Empty
  BY <1>2, PairsOfFirst
<1>5. ASSUME NEW i \in 1 .. Len(found), found[i] # k PROVE Hits(ss[i], A) = {}
  <2> DEFINE s == PairsOf(found[i])
  <2>1. s \in Seq(Pairs) /\ \A j \in 1 .. Len(s) : s[j][1] = found[i]
    BY <1>3, PairsOfFirst
  <2>2. DOMAIN s = 1 .. Len(s)
    BY <2>1, LenProperties
  <2> HIDE DEF s
  <2>3. Hits(s, A) = {}
    BY <1>5, <2>1, <2>2 DEF Hits
  <2> QED BY <1>1, <2>3 DEF s
<1>6. PICK m \in 1 .. Len(found) : found[m] = k
  BY <1>1
<1>7. \A i \in 1 .. Len(found) : i < m => found[i] # k
  BY <1>1, <1>2, <1>3, <1>6
<1>8. pairs \in Seq(Pairs) => FirstOf(k, pairs) = FirstIn(pairs, A, d)
  <2> SUFFICES ASSUME pairs \in Seq(Pairs)
               PROVE  {i \in DOMAIN pairs : pairs[i][1] = k} = Hits(pairs, A)
    BY DEF FirstOf, FirstIn
  <2>1. \A i \in DOMAIN pairs : pairs[i] \in Pairs
    BY LenProperties, ElementOfSeq
  <2> QED BY <2>1 DEF Hits
<1>9. CASE Len(PairsOf(k)) > 0
  <2> DEFINE s == PairsOf(k)
  <2>1. /\ s \in Seq(Pairs) /\ Len(s) \in Nat /\ Len(s) > 0
        /\ s[1][1] = k /\ s[1] = <<k, Stored(k)>>
    <3>1. Len(s) \in Nat
      BY <1>4, LenProperties
    <3> QED BY <1>4, <1>9, <3>1
  <2>2. ss[m] = s
    BY <1>1, <1>6
  <2> HIDE DEF s, d
  <2>3. 1 \in 1 .. Len(s) /\ s[1] \in A /\ \A j \in 1 .. Len(s) : j < 1 => s[j] \notin A
    <3>1. 1 \in 1 .. Len(s) /\ \A j \in 1 .. Len(s) : ~(j < 1)
      BY <2>1
    <3>2. s[1] \in Pairs
      BY <2>1, <3>1, ElementOfSeq
    <3> QED BY <2>1, <3>1, <3>2
  <2> HIDE DEF A
  <2>4. Hits(s, A) # {} /\ FirstIn(s, A, d) = s[1]
    BY <2>1, <2>3, FirstAt
  <2>5. m \in 1 .. Len(ss) /\ Hits(ss[m], A) # {}
    BY <1>1, <1>6, <2>2, <2>4
  <2>6. \A i \in 1 .. Len(ss) : i < m => Hits(ss[i], A) = {}
    BY <1>1, <1>5, <1>7
  <2>7. FlattenSeq(ss) \in Seq(Pairs) /\ FirstIn(FlattenSeq(ss), A, d) = FirstIn(ss[m], A, d)
    <3>1. ss \in Seq(Seq(Pairs)) /\ m \in 1 .. Len(ss) /\ Hits(ss[m], A) # {}
      BY <1>1, <2>5
    <3> QED BY <2>6, <3>1, FlattenFirst
  <2>8. FirstOf(k, pairs) = <<k, Stored(k)>>
    BY <1>1, <1>8, <2>1, <2>2, <2>4, <2>7
  <2>9. FirstOf(k, pairs)[2] = Stored(k)
    BY <2>8
  <2> QED BY <2>9 DEF pairs
<1>10. CASE Len(PairsOf(k)) = 0 /\ Stored(k) = Empty
  <2>1. Hits(PairsOf(k), A) = {}
    <3>1. DOMAIN PairsOf(k) = 1 .. Len(PairsOf(k))
      BY <1>4, LenProperties
    <3> QED BY <1>10, <3>1 DEF Hits
  <2>2. \A i \in 1 .. Len(ss) : Hits(ss[i], A) = {}
    <3> TAKE i \in 1 .. Len(ss)
    <3>1. CASE found[i] = k
      BY <1>1, <2>1, <3>1
    <3>2. CASE found[i] # k
      BY <1>1, <1>5, <3>2
    <3> QED BY <3>1, <3>2
  <2> HIDE DEF A
  <2>3. pairs \in Seq(Pairs) /\ Hits(pairs, A) = {}
    BY <1>1, <2>2, FlattenNone
  <2>4. FirstOf(k, pairs) = d
    BY <1>8, <2>3 DEF FirstIn
  <2>5. FirstOf(k, pairs)[2] = Empty
    BY <2>4
  <2> QED BY <1>10, <2>5 DEF pairs
<1> QED BY <1>4, <1>9, <1>10

(* The keys scan lists for the tables ascend. *)
LEMMA ScanAscends ==
  ASSUME TablesInv, NEW lo, NEW hi,
         NEW i \in DOMAIN ScanTables(lo, hi), NEW j \in DOMAIN ScanTables(lo, hi), i < j
  PROVE  ScanTables(lo, hi)[i][1] <= ScanTables(lo, hi)[j][1]
<1> DEFINE found == Between(Keys, lo, hi)
           ss == PairLists(lo, hi)
           Rising(s) == \A x, y \in 1 .. Len(s) : x < y => s[x][1] <= s[y][1]
           Upto(s, k) == \A x \in 1 .. Len(s) : s[x][1] <= k
           I == [m \in 1 .. Len(found) |-> {s \in Seq(Pairs) : Rising(s) /\ Upto(s, found[m])}]
<1>1. /\ found \in Seq(Keys)
      /\ \A x, y \in 1 .. Len(found) : x < y => found[x] < found[y]
      /\ ss \in Seq(Seq(Pairs)) /\ Len(ss) = Len(found) /\ Len(found) \in Nat
      /\ \A x \in 1 .. Len(found) : ss[x] = PairsOf(found[x])
      /\ ScanTables(lo, hi) = FlattenSeq(ss)
  BY ScanLists
<1> HIDE DEF found, ss
<1>2. \A x \in 1 .. Len(found) : found[x] \in Keys /\ found[x] \in Nat
  <2>1. \A x \in 1 .. Len(found) : found[x] \in Keys
    BY <1>1, ElementOfSeq
  <2> QED BY <2>1, KeysAreNat
<1>3. \A p \in Pairs : p[1] \in Nat
  BY KeysAreNat DEF Pairs
<1>4. ASSUME NEW m \in 1 .. Len(found)
      PROVE  /\ ss[m] \in Seq(Pairs) /\ Len(ss[m]) \in Nat
             /\ \A x \in 1 .. Len(ss[m]) : ss[m][x][1] = found[m]
  <2>1. /\ PairsOf(found[m]) \in Seq(Pairs)
        /\ \A x \in 1 .. Len(PairsOf(found[m])) : PairsOf(found[m])[x][1] = found[m]
    BY <1>2, PairsOfFirst
  <2>2. Len(PairsOf(found[m])) \in Nat
    BY <2>1, LenProperties
  <2> QED BY <1>1, <2>1, <2>2
<1>5. ASSUME NEW m \in 2 .. Len(found), NEW s \in I[m - 1]
      PROVE  s \o ss[m] \in I[m]
  <2>1. /\ m \in 1 .. Len(found) /\ m - 1 \in 1 .. Len(found) /\ m - 1 < m
    BY <1>1
  <2> DEFINE t == ss[m]
             u == s \o t
             k == found[m]
  <2>2. found[m - 1] < k /\ found[m - 1] \in Nat /\ k \in Nat
    BY <1>1, <1>2, <2>1
  <2>3. s \in Seq(Pairs) /\ Rising(s) /\ Upto(s, found[m - 1])
    BY <2>1
  <2>4. t \in Seq(Pairs) /\ Len(t) \in Nat /\ \A x \in 1 .. Len(t) : t[x][1] = k
    BY <1>4, <2>1
  <2> HIDE DEF t, k
  <2>5. /\ Len(s) \in Nat /\ \A x \in 1 .. Len(s) : s[x][1] \in Nat
    BY <1>3, <2>3, LenProperties, ElementOfSeq
  <2>6. /\ u \in Seq(Pairs) /\ Len(u) = Len(s) + Len(t)
        /\ \A x \in 1 .. Len(s) + Len(t) : u[x] = IF x <= Len(s) THEN s[x] ELSE t[x - Len(s)]
    BY <2>3, <2>4, ConcatProperties
  <2> HIDE DEF u
  <2>7. \A x \in 1 .. Len(u) : /\ u[x][1] \in Nat
                               /\ x <= Len(s) => x \in 1 .. Len(s) /\ u[x] = s[x]
                               /\ ~(x <= Len(s)) => u[x][1] = k
    <3> TAKE x \in 1 .. Len(u)
    <3>1. CASE x <= Len(s)
      BY <2>5, <2>6, <3>1
    <3>2. CASE ~(x <= Len(s))
      <4>1. x - Len(s) \in 1 .. Len(t) /\ u[x] = t[x - Len(s)]
        BY <2>4, <2>5, <2>6, <3>2
      <4> QED BY <2>2, <2>4, <3>2, <4>1
    <3> QED BY <3>1, <3>2
  <2>8. Upto(s, k)
    BY <2>2, <2>3, <2>5
  <2>9. Upto(u, k)
    BY <2>2, <2>7, <2>8
  <2>10. Rising(u)
    <3> SUFFICES ASSUME NEW x \in 1 .. Len(u), NEW y \in 1 .. Len(u), x < y
                 PROVE  u[x][1] <= u[y][1]
      OBVIOUS
    <3>1. CASE y <= Len(s)
      <4>1. x <= Len(s)
        BY <2>4, <2>5, <2>6, <3>1
      <4> QED BY <2>3, <2>7, <3>1, <4>1
    <3>2. CASE ~(y <= Len(s))
      BY <2>7, <2>9, <3>2
    <3> QED BY <3>1, <3>2
  <2>11. u \in {z \in Seq(Pairs) : Rising(z) /\ Upto(z, k)}
    BY <2>6, <2>9, <2>10
  <2> QED BY <2>1, <2>11 DEF u, t, k
<1> DEFINE pairs == ScanTables(lo, hi)
<1>6. CASE Len(found) = 0
  <2>1. FlattenSeq(ss) = ss /\ DOMAIN ss = 1 .. Len(ss)
    BY <1>1, <1>6, LenProperties DEF FlattenSeq
  <2>2. DOMAIN ScanTables(lo, hi) = 1 .. 0
    BY <1>1, <1>6, <2>1
  <2> QED BY <2>2
<1>7. CASE Len(found) > 0
  <2>1. 1 \in 1 .. Len(found) /\ Len(found) \in 1 .. Len(found)
    BY <1>1, <1>7
  <2>2. ss[1] \in I[1]
    <3> DEFINE t == ss[1]
               k == found[1]
    <3>1. t \in Seq(Pairs) /\ Len(t) \in Nat /\ \A x \in 1 .. Len(t) : t[x][1] = k
      BY <1>4, <2>1
    <3>2. k \in Nat
      BY <1>2, <2>1
    <3> HIDE DEF t, k
    <3>3. Rising(t) /\ Upto(t, k)
      BY <3>1, <3>2
    <3> QED BY <2>1, <3>1, <3>3 DEF t, k
  <2> HIDE DEF I
  <2>3. FlattenSeq(ss) \in I[Len(ss)]
    BY <1>1, <1>5, <1>7, <2>2, FlattenKeeps
  <2>4. FlattenSeq(ss) \in Seq(Pairs) /\ Rising(FlattenSeq(ss))
    BY <1>1, <2>1, <2>3 DEF I
  <2> HIDE DEF pairs, Rising
  <2>5. pairs \in Seq(Pairs) /\ Rising(pairs)
    BY <1>1, <2>4 DEF pairs
  <2>6. DOMAIN pairs = 1 .. Len(pairs)
    BY <2>5, LenProperties
  <2> QED BY <2>5, <2>6 DEF pairs, Rising
<1> QED BY <1>1, <1>6, <1>7

(* What scan lists for the memory table. *)
LEMMA ScanBuffered ==
  ASSUME MemOK, NEW lo, NEW hi, NEW k \in InRange(Keys, lo, hi)
  PROVE  FirstOf(k, ScanMemtable(lo, hi))[2] = MemGet(k)
<1> DEFINE D == InRange(DOMAIN memtable, lo, hi)
           found == Between(DOMAIN memtable, lo, hi)
           s == ScanMemtable(lo, hi)
           at == {i \in DOMAIN s : s[i][1] = k}
<1>1. MaxKey \in Nat /\ D \in SUBSET (0 .. MaxKey)
  BY KeysBounded DEF InRange, MemOK
<1>2. found = Ascending(D)
  BY DEF Between, InRange
<1>3. s = [i \in DOMAIN found |-> <<found[i], memtable[found[i]]>>]
  BY DEF ScanMemtable
<1>4. k \in D <=> k \in DOMAIN memtable
  BY DEF InRange
<1>5. FirstOf(k, s) = IF at = {} THEN <<k, Empty>> ELSE s[Min(at)]
  BY DEF FirstOf
<1> HIDE DEF D, found
<1>6. /\ found \in Seq(D)
      /\ \A j \in D : \E i \in 1 .. Len(found) : found[i] = j
  BY <1>1, <1>2, AscendingFacts
<1>7. /\ Len(found) \in Nat /\ DOMAIN found = 1 .. Len(found)
      /\ \A i \in 1 .. Len(found) : found[i] \in D
  BY <1>6, LenProperties, ElementOfSeq
<1> HIDE DEF s
<1>8. DOMAIN s = 1 .. Len(found) /\ \A i \in 1 .. Len(found) : s[i] = <<found[i], memtable[found[i]]>>
  BY <1>3, <1>7
<1>9. CASE k \in DOMAIN memtable
  <2>1. at \in SUBSET Nat /\ at # {}
    <3>1. PICK i \in 1 .. Len(found) : found[i] = k
      BY <1>4, <1>6, <1>9
    <3>2. i \in at
      BY <1>8, <3>1
    <3>3. DOMAIN s \in SUBSET Nat
      BY <1>7, <1>8
    <3> QED BY <3>2, <3>3
  <2>2. Min(at) \in at
    <3> HIDE DEF at
    <3> QED BY <2>1, MinInSet
  <2> DEFINE m == Min(at)
  <2>3. m \in 1 .. Len(found) /\ s[m][1] = k
    BY <1>8, <2>2
  <2>4. FirstOf(k, s) = s[m]
    BY <1>5, <2>1
  <2> HIDE DEF m, at
  <2>5. s[m] = <<k, memtable[k]>>
    BY <1>8, <2>3
  <2>6. FirstOf(k, s)[2] = memtable[k]
    BY <2>4, <2>5
  <2> QED BY <1>9, <2>6 DEF s, MemGet
<1>10. CASE k \notin DOMAIN memtable
  <2>1. at = {}
    BY <1>4, <1>7, <1>8, <1>10
  <2>2. FirstOf(k, s)[2] = Empty
    BY <1>5, <2>1
  <2> QED BY <1>10, <2>2 DEF s, MemGet
<1> QED BY <1>9, <1>10

LEMMA ScanRightNow ==
  ASSUME TablesInv
  PROVE  ScanAgreesWithGet
<1>1. MemOK
  BY TypeParts DEF TablesInv, LevelsInv, Inv
<1>2. ASSUME NEW lo \in Keys, NEW hi \in Keys, NEW k \in Keys, lo <= k /\ k <= hi
      PROVE  LET pairs == ScanTables(lo, hi)
                 buffered == FirstOf(k, ScanMemtable(lo, hi))[2]
             IN  View(k) = CASE buffered = Tombstone -> Empty
                             [] buffered = Empty     -> FirstOf(k, pairs)[2]
                             [] OTHER                -> buffered
  <2>1. k \in InRange(Keys, lo, hi)
    BY <1>2 DEF InRange
  <2>2. FirstOf(k, ScanTables(lo, hi))[2] = Stored(k)
    BY <2>1, ScanFirst
  <2>3. FirstOf(k, ScanMemtable(lo, hi))[2] = MemGet(k)
    BY <1>1, <2>1, ScanBuffered
  <2> QED BY <2>2, <2>3 DEF View
<1>3. \A lo, hi \in Keys : \A i, j \in DOMAIN ScanTables(lo, hi) :
        i < j => ScanTables(lo, hi)[i][1] <= ScanTables(lo, hi)[j][1]
  BY ScanAscends
<1> QED BY <1>2, <1>3 DEF ScanAgreesWithGet

(* As long as keys fit an int, scan and get agree, whatever was flushed,    *)
(* compacted or moved by gc: the first pair scan lists for a key is the     *)
(* youngest, and the keys it lists for the tables ascend.                   *)
THEOREM ScanFindsWhatGetFinds ==
  ASSUME NarrowKeys
  PROVE  Spec => []ScanAgreesWithGet
<1>1. TablesInv => ScanAgreesWithGet
  BY ScanRightNow
<1> QED BY <1>1, TablesInvInductive, PTL DEF Spec

==============================================================================
