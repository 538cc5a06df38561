-------------------------------- MODULE KVScan --------------------------------
(***************************************************************************)
(* KVStore::scan: the list a caller gets for a range of keys.  The items of *)
(* every table come first, table by table in the order get searches them,   *)
(* then sorted by key with a stable sort; the memory table is appended.     *)
(* Nothing is replaced, so a key may appear several times.                  *)
(***************************************************************************)
EXTENDS KVStore, SequencesExt

(* The elements of a set of keys or of tables, in the order of the sorts.   *)
Ascending(S) ==
  [i \in 1 .. Cardinality(S) |-> CHOOSE k \in S : Rank(S, k) = i - 1]
YoungestFirst(S) ==
  [i \in 1 .. Cardinality(S) |->
     CHOOSE t \in S : Cardinality({u \in S : Older(t, u)}) = i - 1]

Between(S, lo, hi) == Ascending({k \in S : lo <= k /\ k <= hi})

(* The tables from the first get looks at to the last. *)
SearchOrder ==
  Reverse(level0) \o FlattenSeq([l \in DOMAIN levels |-> YoungestFirst(levels[l])])

(* The items a key has in a list of tables, one for each that holds it.     *)
ItemIn(t, k) == IF k \in KeysOf(t) THEN <<t.items[k]>> ELSE <<>>
ItemsIn(order, k) == FlattenSeq([i \in DOMAIN order |-> ItemIn(order[i], k)])

(* Mutant: the look-ups stop at level 0. *)
ItemsOfLevel0(k) == ItemsIn(Reverse(level0), k)

(* All items of a key, and what SSTableHandler::scan lists for one.         *)
ItemsOf(k) == ItemsIn(SearchOrder, k)
ItemValue(item) == IF item.vlen = 0 THEN Empty ELSE ReadLog(item.off)
PairsOf(k) == [i \in DOMAIN ItemsOf(k) |-> <<k, ItemValue(ItemsOf(k)[i])>>]

ScanTables(lo, hi) ==
  LET found == Between(Keys, lo, hi)
  IN  FlattenSeq([i \in DOMAIN found |-> PairsOf(found[i])])

ScanMemtable(lo, hi) ==
  LET found == Between(DOMAIN memtable, lo, hi)
  IN  [i \in DOMAIN found |-> <<found[i], memtable[found[i]]>>]

Scan(lo, hi) == ScanTables(lo, hi) \o ScanMemtable(lo, hi)

(* The first pair of a key among those of the tables, or none. *)
FirstOf(k, pairs) ==
  LET at == {i \in DOMAIN pairs : pairs[i][1] = k}
  IN  IF at = {} THEN <<k, Empty>> ELSE pairs[Min(at)]

(* Whatever was flushed, compacted or moved by gc, scan and get agree: the  *)
(* pair of the memory table if there is one, else the first pair of a key,  *)
(* is what get returns; and the part of the list that comes from the tables *)
(* is in ascending order.  ListAscends is about the order of the whole.     *)
ScanAgreesWithGet ==
  \A lo, hi \in Keys :
    LET pairs == ScanTables(lo, hi) IN
    /\ \A i, j \in DOMAIN pairs : i < j => pairs[i][1] <= pairs[j][1]
    /\ \A k \in Keys : lo <= k /\ k <= hi =>
         LET buffered == FirstOf(k, ScanMemtable(lo, hi))[2]
         IN  View(k) = CASE buffered = Tombstone -> Empty
                         [] buffered = Empty     -> FirstOf(k, pairs)[2]
                         [] OTHER                -> buffered

(* Whoever calls scan gets a list whose keys ascend, as kvstore_api.h says: *)
(* the code does not keep this, it appends the memory table to the tables.  *)
ListAscends ==
  pc = "idle" =>
    \A lo, hi \in Keys :
      \A i, j \in DOMAIN Scan(lo, hi) : i < j => Scan(lo, hi)[i][1] <= Scan(lo, hi)[j][1]
==============================================================================
