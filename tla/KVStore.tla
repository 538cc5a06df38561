------------------------------- MODULE KVStore -------------------------------
(***************************************************************************)
(* The key-value store of LSMKV while its process runs: the memory table,   *)
(* the levels of tables the SSTableHandler keeps in memory, and the value   *)
(* log.  A call is one step that does what put, del, gc or reset does       *)
(* first, followed by the steps of the flush, the compactions and the       *)
(* garbage collection it sets off; pc says which comes next, so nothing     *)
(* else can happen before the call returns.  get is not a step: View is     *)
(* what it would return.                                                    *)
(***************************************************************************)
EXTENDS SSTables, Sequences

CONSTANTS
  Keys,          \* the keys callers use
  PutValues,     \* the values callers put
  DelKeys,       \* the keys callers delete
  GcChunks,      \* the chunk sizes callers pass to gc, in records
  GcSlack,       \* by how many records a chunk may exceed the log
  LimitCap,      \* bound: no level may keep more tables, though 2^(l+1) do
  TimeBound,     \* bound: no call when this many tables were made
  LogBound,      \* bound: no call when this many records were logged
  Empty,         \* ""
  Tombstone,     \* "~DELETED~"
  Garbage        \* what is read where the log has no readable value

ASSUME KVStoreAssumption ==
  /\ Keys \subseteq 0 .. WordSpan - 1
  /\ DelKeys \subseteq Keys
  /\ GcChunks \subseteq Nat
  /\ GcSlack \in Nat /\ LimitCap \in Nat \ {0}
  /\ TimeBound \in Nat /\ LogBound \in Nat
  /\ Tombstone \notin PutValues \cup {Empty}
  /\ Garbage \notin PutValues \cup {Empty, Tombstone}

VARIABLES
  memtable,   \* MemTable: key -> value for the keys that were put
  level0,     \* sstables[0], in the order the tables were pushed
  levels,     \* levels[l] is sstables[l] for l >= 1, a set: it is kept sorted
  timeId,     \* SSTableHandler.timeId
  vlog,       \* the value log: offset -> record, for the readable records
  tail,       \* the offset at which the log ends
  streamOk,   \* vlogFile.good()
  pc,         \* what the running call does next
  after,      \* where it goes on when the memory table is flushed
  depth,      \* the argument of compact
  gc,         \* start_offset, offset and what is left of chunk_size in gc
  call        \* the call being executed

vars == <<memtable, level0, levels, timeId, vlog, tail, streamOk,
          pc, after, depth, gc, call>>
tables  == <<level0, levels>>
log     == <<vlog, tail, streamOk>>
control == <<pc, after, depth, gc, call>>

------------------------------------------------------------------------------
(* Reading *)

EmptyMap == [k \in {} |-> Empty]
NoOffset == -1
NoItem   == [off |-> NoOffset, vlen |-> 0]
NoGc     == [start |-> 0, off |-> 0, left |-> 0]

VLen(v) == IF v \in {Empty, Tombstone} THEN 0 ELSE 1
MemGet(k) == IF k \in DOMAIN memtable THEN memtable[k] ELSE Empty

(* The levels that have the key, and where get and getOffset find it: the   *)
(* youngest table of the first of them.                                     *)
Level0With(k) == {i \in DOMAIN level0 : k \in KeysOf(level0[i])}
LevelsWith(k) == {l \in DOMAIN levels : Holding(levels[l], k) # {}}
Item(k) ==
  IF Level0With(k) # {} THEN level0[Max(Level0With(k))].items[k]
  ELSE IF LevelsWith(k) # {}
       THEN Newest(Holding(levels[Min(LevelsWith(k))], k)).items[k]
       ELSE NoItem

(* getOffset: where the value of the key is; a deleted key has offset 0.    *)
Offset(k) == Item(k).off

ReadLog(off) == IF streamOk /\ off \in DOMAIN vlog THEN vlog[off].val ELSE Garbage
Stored(k)    == IF Item(k).vlen = 0 THEN Empty ELSE ReadLog(Item(k).off)

View(k) == CASE MemGet(k) = Tombstone -> Empty
             [] MemGet(k) = Empty     -> Stored(k)
             [] OTHER                 -> MemGet(k)

(* The interface the store implements: every key has the value get returns. *)
API == INSTANCE KVMap WITH kv <- [k \in Keys |-> View(k)]

------------------------------------------------------------------------------
(* Writing *)

Init ==
  /\ memtable = EmptyMap
  /\ level0 = <<>> /\ levels = <<>> /\ timeId = 0
  /\ vlog = <<>> /\ tail = 0 /\ streamOk = TRUE
  /\ pc = "idle" /\ after = "return" /\ depth = 0 /\ gc = NoGc
  /\ call = API!NoCall

Ready == pc = "idle" /\ timeId < TimeBound /\ tail < LogBound

(* KVStore::put, on the way to next when the memory table is not full.      *)
MemPut(k, v, next) ==
  /\ memtable' = Overriding([j \in {k} |-> v], memtable)
  /\ IF Cardinality(DOMAIN memtable') >= MemtableThreshold
     THEN pc' = "flush" /\ after' = next
     ELSE pc' = next /\ UNCHANGED after

Put(k, v) ==
  /\ Ready
  /\ call' = API!PutCall(k, v)
  /\ MemPut(k, v, "return")
  /\ UNCHANGED <<tables, timeId, log, depth, gc>>

Del(k) ==
  /\ Ready
  /\ call' = API!DelCall(k)
  /\ IF View(k) = Empty
     THEN pc' = "return" /\ UNCHANGED <<memtable, after>>
     ELSE MemPut(k, Tombstone, "return")
  /\ UNCHANGED <<tables, timeId, log, depth, gc>>

Reset ==
  /\ pc = "idle"
  /\ call' = API!ResetCall
  /\ memtable' = EmptyMap
  /\ level0' = <<>> /\ levels' = <<>>
  /\ vlog' = <<>> /\ tail' = 0 /\ streamOk' = TRUE
  /\ pc' = "return"
  /\ UNCHANGED <<timeId, after, depth, gc>>

Return ==
  /\ pc = "return"
  /\ pc' = "idle" /\ after' = "return" /\ call' = API!NoCall
  /\ UNCHANGED <<memtable, tables, timeId, log, depth, gc>>

------------------------------------------------------------------------------
(* convertMemTableToSSTable, the compactions, and memtable.clean().  Each   *)
(* also returns early where it cannot make a directory: see MkdirFails.     *)

(* vLog::append logs every value but the tombstones, in key order.          *)
Logged == {k \in DOMAIN memtable : memtable[k] # Tombstone}

(* Mutants: tombstones are counted as if they were logged; the end of the   *)
(* record is taken.                                                         *)
NewOffsetCounted(k) == IF k \notin Logged THEN 0
                       ELSE IF streamOk THEN tail + Rank(DOMAIN memtable, k) ELSE NoOffset
NewOffsetAfter(k) == IF k \notin Logged THEN 0
                     ELSE IF streamOk THEN tail + 1 + Rank(Logged, k) ELSE NoOffset

NewOffset(k) == IF k \notin Logged THEN 0
                ELSE IF streamOk THEN tail + Rank(Logged, k) ELSE NoOffset

NewTable == Table(timeId, [k \in DOMAIN memtable |->
                             [off |-> NewOffset(k), vlen |-> VLen(memtable[k])]])

NewRecords ==
  [off \in tail .. tail + Cardinality(Logged) - 1 |->
     LET k == CHOOSE j \in Logged : Rank(Logged, j) = off - tail
     IN  [key |-> k, val |-> memtable[k]]]

FlushNothing ==
  /\ pc = "flush" /\ DOMAIN memtable = {}
  /\ pc' = "clean"
  /\ UNCHANGED <<memtable, tables, timeId, log, after, depth, gc, call>>

Flush ==
  /\ pc = "flush" /\ DOMAIN memtable # {}
  /\ IF streamOk
     THEN vlog' = Overriding(vlog, NewRecords) /\ tail' = tail + Cardinality(Logged)
     ELSE UNCHANGED <<vlog, tail>>
  /\ level0' = Append(level0, NewTable)
  /\ timeId' = timeId + 1
  /\ pc' = IF Len(level0') > 2 THEN "compactLevel0" ELSE "clean"
  /\ UNCHANGED <<memtable, levels, streamOk, after, depth, gc, call>>

LevelLimit(l) == LET size == 2 ^ (l + 1) IN IF size < LimitCap THEN size ELSE LimitCap

(* The levels with a new, empty one at l if there was none.                 *)
Grown(l) == IF Len(levels) < l THEN Append(levels, {}) ELSE levels

(* Mutant: a level may exceed its limit by one. *)
CascadeLate(l) ==
  IF Cardinality(levels'[l]) > LevelLimit(l) + 1
  THEN pc' = "compact" /\ depth' = l
  ELSE pc' = "clean" /\ depth' = 0

(* Where a compaction into level l goes on.                                 *)
Cascade(l) ==
  IF Cardinality(levels'[l]) > LevelLimit(l)
  THEN pc' = "compact" /\ depth' = l
  ELSE pc' = "clean" /\ depth' = 0

(* compactLevel0: the tables of level 0, those of level 1 they meet, and    *)
(* what becomes of both.                                                    *)
From0 == Range(level0)
Into0 == Overlapping(Grown(1)[1], From0)
New0  == Split(Kept(Merged(From0 \cup Into0), Len(levels) = 0), MaxTimeId(From0 \cup Into0))

CompactLevel0 ==
  /\ pc = "compactLevel0"
  /\ levels' = [Grown(1) EXCEPT ![1] = (@ \ Into0) \cup New0]
  /\ level0' = <<>>
  /\ Cascade(1)
  /\ UNCHANGED <<memtable, timeId, log, after, gc, call>>

(* compact(level): the oldest tables beyond the limit move one level down   *)
(* and override what they meet there, whatever its age.                     *)
From == Oldest(levels[depth], LevelLimit(depth))
Into == Overlapping(Grown(depth + 1)[depth + 1], From)
New  == Split(Kept(Overriding(Merged(From), Merged(Into)), Len(levels) = depth), MaxTimeId(From))

Compact ==
  /\ pc = "compact"
  /\ levels' = [Grown(depth + 1) EXCEPT ![depth] = @ \ From,
                                        ![depth + 1] = (@ \ Into) \cup New]
  /\ Cascade(depth + 1)
  /\ UNCHANGED <<memtable, level0, timeId, log, after, gc, call>>

Clean ==
  /\ pc = "clean"
  /\ memtable' = EmptyMap
  /\ pc' = after
  /\ UNCHANGED <<tables, timeId, log, after, depth, gc, call>>

------------------------------------------------------------------------------
(* KVStore::gc *)

(* A chunk callers may ask for: GcSlack = 0 keeps them within the log.      *)
Allowed(chunk) == chunk <= Cardinality(DOMAIN vlog) + GcSlack

(* Nothing to collect: the log has no data, or none that is not punched.    *)
GcNothing(chunk) ==
  /\ Ready /\ Allowed(chunk) /\ DOMAIN vlog = {}
  /\ call' = API!GcCall(chunk)
  /\ pc' = "return"
  /\ UNCHANGED <<memtable, tables, timeId, log, after, depth, gc>>

(* The search for the first valid record finds it, or reads to the end of a *)
(* log whose last block is all that is left and fails the stream.           *)
GcStart(chunk) ==
  /\ Ready /\ Allowed(chunk) /\ tail > 0
  /\ call' = API!GcCall(chunk)
  /\ LET first == IF DOMAIN vlog = {} THEN tail ELSE Min(DOMAIN vlog)
     IN  gc' = [start |-> first, off |-> first, left |-> chunk]
  /\ streamOk' = (streamOk /\ DOMAIN vlog # {})
  /\ pc' = "gc"
  /\ UNCHANGED <<memtable, tables, timeId, vlog, tail, after, depth>>

(* Mutants: the offset was advanced before the test; the memory table is    *)
(* not asked.                                                               *)
InUseAdvanced(k, off) == MemGet(k) = Empty /\ Offset(k) = off + 1
InUseInTables(k, off) == Offset(k) = off

(* The record at offset off, of key k, is the value of k: no younger value  *)
(* is in the memory table, and the tables point to it.                      *)
InUse(k, off) == MemGet(k) = Empty /\ Offset(k) = off

(* Mutants: only the size counted, or nothing, changes when a record is done. *)
AdvanceLeft(n) == gc' = [gc EXCEPT !.left = IF n > @ THEN 0 ELSE @ - n]
AdvanceNothing(n) == gc' = [gc EXCEPT !.left = @]

Advance(n) == gc' = [gc EXCEPT !.off = @ + n, !.left = IF n > @ THEN 0 ELSE @ - n]

GcMove ==
  /\ pc = "gc" /\ gc.left > 0
  /\ streamOk /\ gc.off \in DOMAIN vlog
  /\ InUse(vlog[gc.off].key, gc.off)
  /\ MemPut(vlog[gc.off].key, vlog[gc.off].val, "gc")
  /\ Advance(1)
  /\ UNCHANGED <<tables, timeId, log, depth, call>>

GcSkip ==
  /\ pc = "gc" /\ gc.left > 0
  /\ streamOk /\ gc.off \in DOMAIN vlog
  /\ ~InUse(vlog[gc.off].key, gc.off)
  /\ Advance(1)
  /\ UNCHANGED <<memtable, tables, timeId, log, pc, after, depth, call>>

(* Past the end of the log the read fails, and every later use of the       *)
(* stream with it.  The entry getEntry returns was never initialised: its   *)
(* key k and its length are whatever they are.                              *)
GcReadFails ==
  /\ pc = "gc" /\ gc.left > 0
  /\ ~(streamOk /\ gc.off \in DOMAIN vlog)
  /\ streamOk' = FALSE
  /\ \E k \in Keys, n \in 1 .. LogBound :
       /\ Advance(n)
       /\ IF InUse(k, gc.off)
          THEN MemPut(k, Empty, "gc")
          ELSE UNCHANGED <<memtable, pc, after>>
  /\ UNCHANGED <<tables, timeId, vlog, tail, depth, call>>

(* The chunk is scanned: what is left in the memory table is flushed too.   *)
GcFlush ==
  /\ pc = "gc" /\ gc.left = 0
  /\ pc' = "flush" /\ after' = "punch"
  /\ UNCHANGED <<memtable, tables, timeId, log, depth, gc, call>>

GcPunch ==
  /\ pc = "punch"
  /\ vlog' = Restrict(vlog, DOMAIN vlog \ (gc.start .. gc.off - 1))
  /\ gc' = NoGc
  /\ pc' = "return"
  /\ UNCHANGED <<memtable, tables, timeId, tail, streamOk, after, depth, call>>

------------------------------------------------------------------------------

Invoke == \/ \E k \in Keys, v \in PutValues : Put(k, v)
          \/ \E k \in DelKeys : Del(k)
          \/ \E chunk \in GcChunks : GcNothing(chunk) \/ GcStart(chunk)
          \/ Reset

Continue == \/ FlushNothing \/ Flush \/ CompactLevel0 \/ Compact \/ Clean
            \/ GcMove \/ GcSkip \/ GcReadFails \/ GcFlush \/ GcPunch
            \/ Return

Next == Invoke \/ Continue

Spec == Init /\ [][Next]_vars

(* The store is single-threaded: a call that was made is executed.          *)
FairSpec == Spec /\ WF_vars(Continue)

------------------------------------------------------------------------------
(* Properties *)

Stamps  == timeId + 1        \* above every time stamp
Made(t) == IsTable(t, Keys, Stamps)
LogRecord == [key: Keys, val: PutValues \cup {Empty}]

(* Every variable has a value the program could hold; no table is empty and *)
(* none has a stamp above the next one (init starts from the largest stamp  *)
(* it loads).                                                               *)
TypeOK ==
  /\ DOMAIN memtable \subseteq Keys
  /\ memtable \in [DOMAIN memtable -> PutValues \cup {Tombstone, Empty}]
  /\ timeId \in Nat
  /\ level0 \in Seq(Range(level0)) /\ \A i \in DOMAIN level0 : Made(level0[i])
  /\ levels \in Seq(Range(levels)) /\ \A l \in DOMAIN levels : \A t \in levels[l] : Made(t)
  /\ DOMAIN vlog \subseteq 0 .. tail - 1
  /\ vlog \in [DOMAIN vlog -> LogRecord]
  /\ tail \in Nat
  /\ streamOk \in BOOLEAN
  /\ pc \in {"idle", "flush", "compactLevel0", "compact", "clean",
             "gc", "punch", "return"}
  /\ after \in {"return", "gc", "punch"}
  /\ depth \in Nat
  /\ gc \in [start: Nat, off: Nat, left: Nat]
  /\ call \in API!Calls \cup {API!NoCall}

(* Every value get would read from the log is there and belongs to the key: *)
(* gc never punches a record a table still finds, and no compaction brings  *)
(* back an item whose record gc has punched (kvstore.cc gc, compactLevel0,  *)
(* compact).                                                                *)
VisibleBacked ==
  \A k \in Keys : Item(k).vlen # 0 =>
    /\ Item(k).off \in DOMAIN vlog
    /\ vlog[Item(k).off].key = k

(* Below level 0 no two tables of a level overlap, whatever the order in    *)
(* which tables sank (SSTableHandler.cc, compactLevel0 and compact).        *)
LevelsDisjoint ==
  \A l \in DOMAIN levels : \A t, u \in levels[l] :
    t # u => Largest(t) < Smallest(u) \/ Largest(u) < Smallest(t)

(* The levels are searched from young to old: tables are pushed to level 0  *)
(* with rising time stamps, everything below is older, each level is no     *)
(* younger than the one above, and the next stamp is fresh.                 *)
AgesDescend ==
  /\ \A i \in DOMAIN level0 : level0[i].timeId < timeId
  /\ \A i, j \in DOMAIN level0 : i < j => level0[i].timeId < level0[j].timeId
  /\ \A i \in DOMAIN level0 : \A l \in DOMAIN levels : \A t \in levels[l] :
       t.timeId < level0[i].timeId
  /\ \A l \in DOMAIN levels : \A t \in levels[l] : t.timeId < timeId
  /\ \A l, m \in DOMAIN levels : l < m =>
       \A t \in levels[l], u \in levels[m] : u.timeId <= t.timeId

(* When a call returns every level is within its limit again, however far   *)
(* its compactions cascaded (convertMemTableToSSTable, compact).            *)
WithinLimits ==
  pc = "idle" =>
    /\ Len(level0) <= 2
    /\ \A l \in DOMAIN levels : Cardinality(levels[l]) <= LevelLimit(l)

(* The store implements the map of KVMap: a key changes its value when put, *)
(* del or reset is called for it and never during a flush, a compaction or  *)
(* a garbage collection.                                                    *)
MapRefined == API!Spec

(* How a step may change what get answers: put, del and reset do for their  *)
(* keys, and gc may bring back a key it finds deleted.                      *)
AnswersChange ==
  \A k \in Keys :
    View(k)' # View(k) =>
      \/ call = API!NoCall /\ call' = API!ResetCall
      \/ call = API!NoCall /\ call' = API!DelCall(k) /\ View(k)' = Empty
      \/ call = API!NoCall /\ call' = API!PutCall(k, View(k)')
      \/ /\ pc = "gc" /\ gc.off = 0 /\ vlog[0].key = k
         /\ View(k) = Empty /\ View(k)' = vlog[0].val

(* What gc does to the map when callers also delete: it may bring back a    *)
(* deleted key whose record is the first of the log, because getOffset      *)
(* returns offset 0 for deleted keys, and it changes nothing else.          *)
OnlyFirstRecordReturns == [][AnswersChange]_vars

(* A collection that returns has taken at least the records the caller      *)
(* asked for out of the log (kvstore_api.h, gc).                            *)
GcReclaims ==
  [][pc = "punch" =>
       Cardinality(DOMAIN vlog \ DOMAIN vlog') >= call.chunk]_vars

(* Every call returns: a put may set off compactions of every level and a   *)
(* gc may set off several flushes, and all of them end.                     *)
EveryCallReturns == call # API!NoCall ~> call = API!NoCall

(* What the interface says of gc and the code does not keep.                *)

(* gc moves valid values and discards invalid ones (kvstore_api.h, gc): the *)
(* map is the same at every one of its steps.                               *)
GcKeepsMap == [][call.op = "gc" => \A k \in Keys : View(k)' = View(k)]_vars
==============================================================================
