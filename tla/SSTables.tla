------------------------------ MODULE SSTables ------------------------------
(***************************************************************************)
(* The sorted string tables of LSMKV/sstable and the merge that both        *)
(* compactions of LSMKV/SSTableHandler perform, as operators on sets of     *)
(* tables.  A table keeps, for each of its keys, where the value is in the  *)
(* value log and how long it is; length 0 stands for a deleted key.         *)
(***************************************************************************)
EXTENDS Integers, FiniteSets, FiniteSetsExt, Functions

CONSTANTS
  MemtableThreshold,  \* items per table, MEMTABLE_THRESHOLD (408)
  IntSpan,            \* how many values an int has (2^32)
  WordSpan            \* how many values a uint64_t has (2^64)

ASSUME SSTablesAssumption ==
  /\ MemtableThreshold \in Nat \ {0}
  /\ IntSpan \in Nat \ {0}
  /\ WordSpan \in Nat
  /\ IntSpan <= WordSpan

(* A table: the time stamp of its header and its items.  The bounds of the  *)
(* header are those of the items; the Bloom filter only saves look-ups.     *)
Table(timeId, items) == [timeId |-> timeId, items |-> items]

KeysOf(t) == DOMAIN t.items

(* t is a table over keys of K with a time stamp below n.                   *)
IsTable(t, K, n) ==
  /\ KeysOf(t) \subseteq K /\ KeysOf(t) # {}
  /\ t \in [timeId: 0 .. n - 1, items: [KeysOf(t) -> [off: Int, vlen: {0, 1}]]]

Smallest(t) == Min(KeysOf(t))
Largest(t) == Max(KeysOf(t))

Holding(S, k) == {t \in S : k \in KeysOf(t)}

(* The order of every std::sort of tables: by time stamp, then by smallest  *)
(* key; later tables override earlier ones.                                 *)
Older(t, u) == \/ t.timeId < u.timeId
               \/ t.timeId = u.timeId /\ Smallest(t) < Smallest(u)

(* Mutant: the tables are taken from the wrong end of the sorted level. *)
Youngest(S, limit) == {t \in S : Cardinality({u \in S : ~Older(t, u)}) > limit}

(* The last of the tables in that order, and all but the last limit.  Only  *)
(* files that init loaded can tie in both; compact then takes as many of    *)
(* them as it needs, Oldest all of them.                                    *)
Newest(S) == CHOOSE t \in S : \A u \in S : ~Older(t, u)
Oldest(S, limit) == {t \in S : Cardinality({u \in S : ~Older(u, t)}) > limit}

MaxTimeId(S) == Max({t.timeId : t \in S})

(* A key of type uint64_t that went through an int: the low bits survive    *)
(* and the sign is extended when it is compared with a uint64_t.            *)
AsInt(k) == LET low == k % IntSpan
            IN  IF 2 * low < IntSpan THEN low ELSE WordSpan - IntSpan + low

(* Mutant: the bounds are exclusive. *)
OverlappingStrictly(level, S) ==
  {t \in level : /\ \E u \in S : Smallest(t) < AsInt(Largest(u))
                 /\ \E u \in S : Largest(t) > AsInt(Smallest(u))}

(* The tables of a level that intersect the key range of the tables S.  The *)
(* bounds of S pass through the int variables j and m, those of the level   *)
(* do not.                                                                  *)
Overlapping(level, S) ==
  {t \in level : /\ \E u \in S : Smallest(t) <= AsInt(Largest(u))
                 /\ \E u \in S : Largest(t) >= AsInt(Smallest(u))}

(* The map keyOffsetTable after all tables of S were written to it in order. *)
Merged(S) == [k \in UNION {KeysOf(t) : t \in S} |-> Newest(Holding(S, k)).items[k]]

(* Mutant: every compaction drops deleted keys. *)
KeptUndeleted(items, isLastLevel) ==
  Restrict(items, {k \in DOMAIN items : items[k].vlen # 0})

(* The items a compaction keeps: the last level drops deleted keys.         *)
Kept(items, isLastLevel) ==
  Restrict(items, {k \in DOMAIN items : ~(isLastLevel /\ items[k].vlen = 0)})

(* f, and g where f has no value. *)
Overriding(f, g) ==
  [x \in DOMAIN f \cup DOMAIN g |-> IF x \in DOMAIN f THEN f[x] ELSE g[x]]

Rank(D, k) == Cardinality({j \in D : j < k})

ChunkOf(D, k) ==
  {j \in D : Rank(D, j) \div MemtableThreshold = Rank(D, k) \div MemtableThreshold}

(* Mutant: the left-over table is made even when no item is left over. *)
SplitWithEmpty(items, timeId) ==
  {Table(timeId, Restrict(items, ChunkOf(DOMAIN items, k))) : k \in DOMAIN items}
    \cup {Table(timeId, Restrict(items, {}))}

(* Sorted items cut into tables of at most MemtableThreshold items.         *)
Split(items, timeId) ==
  {Table(timeId, Restrict(items, ChunkOf(DOMAIN items, k))) : k \in DOMAIN items}

==============================================================================
