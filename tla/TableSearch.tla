------------------------------ MODULE TableSearch ------------------------------
(***************************************************************************)
(* Looking up keys in one table of LSMKV (sstable.cc, bloomFilter.cc, and   *)
(* the loop body of SSTableHandler::get): the bounds, the Bloom filter and  *)
(* the three binary searches, one probe at a time.  The vector of items is  *)
(* a sequence; the code's index m is m + 1 here.                            *)
(***************************************************************************)
EXTENDS Integers, Sequences

CONSTANTS
  Keys,        \* the keys looked up
  Lists,       \* the lists of items (key, off, vlen) that tables are made of
  NumHashes,   \* num_hashes of bloomFilter.h
  NumBits,     \* num_bits of bloomFilter.h
  Hash,        \* Hash[k][j], the low word of the hash of key k with seed j
  MarkKey      \* INT64_MAX, the key of the answer "not found"

Seeds == 0 .. NumHashes - 1
Items == [key : Keys, off : Nat, vlen : Nat]

Ascending(s) == \A a, b \in DOMAIN s : a < b => s[a].key < s[b].key
ItemKeys(s)  == {s[a].key : a \in DOMAIN s}

ASSUME TableAssumption ==
  /\ Keys \subseteq Nat /\ MarkKey \in Nat
  /\ \A s \in Lists : s \in Seq(Items) /\ s # <<>> /\ Ascending(s)
  /\ NumHashes \in Nat \ {0} /\ NumBits \in Nat \ {0}
  /\ Hash \in [Keys -> [Seeds -> Nat]]

VARIABLES
  table,       \* the table
  ask,         \* the question being answered
  phase,       \* "idle", "offset", "first" or "last": the loop that runs
  left, right, \* the part of the items still to search
  startIdx,    \* what the first loop of scanOffset found
  found        \* the answer: the items found, at most one for get

searchVars == <<table, ask, phase, left, right, startIdx, found>>

------------------------------------------------------------------------------
(* The Bloom filter, as the set of the bits that are set *)

BitsOf(k) == {Hash[k][j] % NumBits : j \in Seeds}

(* Mutant: the last hash function is left out when the filter is made. *)
gen_with_fewer(S) == UNION {{Hash[k][j] % NumBits : j \in Seeds \ {NumHashes - 1}} : k \in S}

gen_bloom_filter(S)         == UNION {BitsOf(k) : k \in S}
check_bloom_filter(k, bits) == BitsOf(k) \subseteq bits

------------------------------------------------------------------------------
(* The table made of a list of items in ascending order of the keys *)

Made(s) ==
  [timeId |-> 0, pairNum |-> Len(s), smallestKey |-> s[1].key, largestKey |-> s[Len(s)].key,
   bloomFilter |-> gen_bloom_filter(ItemKeys(s)), item |-> s]

Item(m) == table.item[m + 1]

(* Mutant: a search goes on at the item it compared.                        *)
afterAt(m) == m
last     == table.pairNum - 1
after(m) == m + 1
Mid     == left + (right - left) \div 2

Mark == [key |-> MarkKey, off |-> 0, vlen |-> 0]

SearchInit ==
  /\ table \in {Made(s) : s \in Lists}
  /\ ask = [op |-> "none"] /\ phase = "idle"
  /\ left = 0 /\ right = 0 /\ startIdx = 0 /\ found = <<>>

Narrow(l, r) == left' = l /\ right' = r /\ UNCHANGED <<table, ask, phase, startIdx, found>>
Answer(r)    ==
  /\ phase' = "idle" /\ found' = r
  /\ left' = 0 /\ right' = 0 /\ startIdx' = 0 /\ UNCHANGED <<table, ask>>

------------------------------------------------------------------------------
(* get: bounds and Bloom filter rule out, getOffset searches *)

Bounded(k) == k >= table.smallestKey /\ k <= table.largestKey

AskKey ==
  /\ phase = "idle"
  /\ \E k \in Keys :
       /\ ask' = [op |-> "get", key |-> k]
       /\ phase' = IF Bounded(k) /\ check_bloom_filter(k, table.bloomFilter)
                THEN "offset" ELSE "idle"
  /\ found' = <<>>
  /\ left' = 0 /\ right' = last
  /\ UNCHANGED <<table, startIdx>>

ProbeKey ==
  /\ phase = "offset" /\ left <= right
  /\ LET k == Item(Mid).key
     IN  \/ k = ask.key /\ Answer(<<Item(Mid)>>)
         \/ k < ask.key /\ Narrow(after(Mid), right)
         \/ k > ask.key /\ Narrow(left, Mid - 1)

(* The caller takes the mark for an item if it asked for the mark's key. *)
NotFound ==
  /\ phase = "offset" /\ left > right
  /\ Answer(IF Mark.key = ask.key THEN <<Mark>> ELSE <<>>)

------------------------------------------------------------------------------
(* scanOffset *)

AskRange ==
  /\ phase = "idle"
  /\ \E s, e \in Keys :
       /\ ask' = [op |-> "scan", key |-> s, end |-> e]
       /\ phase' = IF s > table.largestKey \/ e < table.smallestKey THEN "idle" ELSE "first"
  /\ found' = <<>>
  /\ left' = 0 /\ right' = last
  /\ UNCHANGED <<table, startIdx>>

ProbeFirst ==
  /\ phase = "first" /\ left <= right
  /\ IF Item(Mid).key < ask.key THEN Narrow(after(Mid), right) ELSE Narrow(left, Mid - 1)

FirstFound ==
  /\ phase = "first" /\ left > right
  /\ phase' = "last" /\ startIdx' = left
  /\ left' = 0 /\ right' = last
  /\ UNCHANGED <<table, ask, found>>

(* Mutant: the last search stops before the item at the end of the range. *)
BeyondOrAt(m) == Item(m).key >= ask.end
Beyond(m)     == Item(m).key > ask.end

ProbeLast ==
  /\ phase = "last" /\ left <= right
  /\ IF Beyond(Mid) THEN Narrow(left, Mid - 1) ELSE Narrow(after(Mid), right)

LastFound ==
  /\ phase = "last" /\ left > right
  /\ Answer(SubSeq(table.item, startIdx + 1, right + 1))

------------------------------------------------------------------------------

Search == ProbeKey \/ NotFound \/ ProbeFirst \/ FirstFound \/ ProbeLast \/ LastFound

SearchNext == AskKey \/ AskRange \/ Search

SearchSpec == SearchInit /\ [][SearchNext]_searchVars /\ WF_searchVars(Search)

------------------------------------------------------------------------------
(* Properties *)

(* Neither the bounds nor the Bloom filter hides an item, whatever the hash *)
(* function: a get that finds nothing asked for a key the table does not    *)
(* hold, and what it finds is the item of its key -- except for the key of  *)
(* the mark (SSTable::getOffset).                                           *)
GetRight ==
  phase = "idle" /\ ask.op = "get" /\ ask.key # MarkKey =>
    IF ask.key \in ItemKeys(table.item)
    THEN \E a \in DOMAIN table.item : found = <<table.item[a]>> /\ table.item[a].key = ask.key
    ELSE found = <<>>

(* A scan returns exactly the items between its bounds, in their order,     *)
(* also for a range that is empty or falls between two items                *)
(* (SSTable::scanOffset).                                                   *)
ScanRight ==
  phase = "idle" /\ ask.op = "scan" =>
    /\ Ascending(found)
    /\ {found[a] : a \in DOMAIN found} =
         {x \in {table.item[a] : a \in DOMAIN table.item} : ask.key <= x.key /\ x.key <= ask.end}

(* No search reads past the items of the table. *)
ProbesInside ==
  phase # "idle" => 0 <= left /\ left <= table.pairNum /\ -1 <= right /\ right < table.pairNum

(* Every question is answered: each probe leaves less to search, so none of *)
(* the three loops turns for ever (sstable.cc).                             *)
EveryAskAnswered == phase # "idle" ~> phase = "idle"
==============================================================================
