# A verification project for SE2322-ADS

The repository holds seven independent C++ programs.  Each directory builds an
executable of its own and none links another.  The largest, and the only one
that keeps state over a long life, is `LSMKV`, a key-value store made of a
log-structured merge tree and a separate value log.  It is modelled in full, from
the bits of its Bloom filter to a kill between two file operations; the algorithms
of the other programs have a module each.

TLC (`tlc -config X.cfg M`) checks the runs on small instances; TLAPS (`tlapm M.tla`)
checks the proofs, which hold for every value of the constants.  `PROJECT.json`
lists the components, the runs, one mutant per checked property, the source lines
of each definition, the hazards, the findings and the theorems.

## 1. Inventory

### LSMKV

| part | state | operations | talks to |
|---|---|---|---|
| `KVStore` (`kvstore.cc`) | memory table, `SSTableHandler` | `put`, `get`, `del`, `reset`, `scan`, `gc` | calls everything below, on the caller's thread |
| `MemTable`, `skiplist` (`MemTable/`) | a skip list: key -> string | `put`, `get`, `scan`, `getList`, `clean` | none |
| `SSTableHandler` (`SSTableHandler/`) | `sstables[level][i]`, `timeId`, the open `vlogFile`, a directory of files per level | `convertMemTableToSSTable`, `compactLevel0`, `compact`, `get`, `getOffset`, `scan`, `reset`, `init`, `input` | tables, value log, files |
| `SSTable` (`sstable/`) | time stamp, key bounds, Bloom filter, items (key, offset, length) | `getOffset`, `scanOffset`, `output` | Bloom filter |
| `vLog` (`vLog/`) | none of its own: an append-only file of (magic, checksum, key, length, value) | `append`, `getEntry`, `isValidEntry` | the stream `SSTableHandler` owns |
| Bloom filter (`bloomFilter/`) | 64 Ki bits per table | generate, check | hash |
| utilities (`utils.h`) | files | `seek_data_block`, `de_alloc_file`, `mkdir`, `rmfile`, `rmrf`, `scanDir`, `crc16` | the file system |

A put goes to the memory table.  When that holds `MEMTABLE_THRESHOLD` keys its
values are appended to the value log and its keys become a table of level 0.  More
than two tables in level 0 are merged with the overlapping tables of level 1; a
level `l >= 1` with more than `2^(l+1)` tables hands its oldest ones to the next
level, and so on down.  Each new table below level 0 gets a file, and the files of
the tables merged are removed.  `gc` reads records from the start of the value log,
puts back those still in use, flushes, and punches a hole where it read.  At the
start of the process `init` loads the files into memory and removes them.

What is hard, though there is one thread: nested effects (a put inside the loop
of `gc` may flush and compact through every level, and `gc` goes on with what it
read before); a garbage collector that decides by offsets which compactions copy
around; deleted keys that must outlive every older version of themselves; ties and
merges of time stamps; a stream that fails once and stays failed; a cut at the
threshold; keys squeezed through `int`; and a process that may be killed between
any two file operations, with files that are not removed or not written.

It is correct when every key reads as what was last put or deleted, through every
flush, compaction and collection; every value a table points to is in the log and
is the right one; levels below 0 have disjoint tables and are ordered by age;
every level is within its limit when a call returns; `gc` gives back the space
asked for; every call returns; look-ups in a table miss nothing; the files follow
the tables, and a restart reads no value that belongs to another key.

### The other programs

| program | state and operations | hard part, and what makes it correct |
|---|---|---|
| `HW11-cocurrency` | 8 threads, one shared `unique_lock`, a flag `is_init` | the flag is read outside the lock and the `unique_lock` object is itself shared; the initialiser runs once, everybody else waits for it |
| `HNSW-coccurrenct` | a graph with levels: nodes, neighbour sets, the entry point; `insert`, `query`, `searchLayer`, `selectNeighbors`; threads only query | neighbour sets bounded by `M_max` and pruned on one side, an entry point present on every level it is used on; a search ends, at the best it can see |
| `Radix-tree` | a plain and a compressed trie of `int32` keys; `insert`, `remove`, `find`, `size`, `height` | splitting and merging nodes; both tries are a set, and nothing is left behind by a removal |
| `HW7-quickSelect` | quick select and median-of-medians select | repeated numbers, groups cut short; the result is the k-th smallest |
| `Huffman-tree` | a code tree over characters and character pairs | the code is best and decodes what it encoded; the table survives its file |
| `HW9-para-fibonacci` | a counter of split calls under a mutex | none: see section 6 |

Tests, benchmarks, file readers (`vecs_io.hpp`, `ycsb.cpp`, `performance.cc`, ...),
`MurmurHash3.h` and editor files carry no logic of their own and stay out.

## 2. Plan

In the order of what matters most; all of it is done:

1. LSMKV while the process runs: `KVMap` (the abstract map), `SSTables` (tables and
   the merge), `KVStore` (the store), `KVScan` (scan).
2. Proofs about it: types, disjoint levels, ages, limits.
3. `CallOnce`, the one program with threads that share state, with proofs.
4. `Durable`: `KVStore` composed with its files, kill and restart.
5. What `KVStore` takes for granted: `SkipList` implements `OrderedMap`,
   `TableSearch` finds what a table holds, `TableFile` brings a table back; proved.
6. The algorithms beside it: `Select` with proofs, `HNSW`, `Huffman`, `RadixTree` and
   `CompressedRadixTree` over `TreeSet`.
7. The refinement of `KVMap` as a theorem, for any number of keys, tables and levels.
8. Proofs about the files, kills and restarts of `Durable`, the graph of `HNSW` and the
   plain radix tree.

## 3. Modules

| module | what it is |
|---|---|
| `KVMap` | what `kvstore_api.h` promises: a map changed by put, del and reset only.  A call takes effect when it is made; the store is then busy until it returns, and no key may change meanwhile. |
| `SSTables` | tables and the operators both compactions share: order by age, selection of the oldest, overlap, merge, removal of deleted keys, the cut at the threshold. |
| `KVStore` | the store: memory table, levels, value log, the control of a running call. |
| `KVScan` | the list `scan` returns, computed from a state of `KVStore`. |
| `Durable` | `KVStore` with the files of its tables, kill and `init`. |
| `MkdirFails` | `Durable` where a directory may fail to be made. |
| `OrderedMap`, `SkipList` | what the memory table promises, and the skip list that implements it. |
| `TableSearch`, `TableFile` | looking keys up in one table; writing it to its file and back. |
| `CallOnce` | the threads of `HW11-cocurrency/main.cc`. |
| `Select` | quick select and linear select. |
| `HNSW` | insertion and queries of the graph. |
| `Huffman` | pairs, tree, table, compression and the table's file. |
| `TreeValues`, `TreeSet`, `RadixTree`, `CompressedRadixTree` | the two tries, and the set each implements. |
| `MC*` | the same for TLC.  `MCTables` and `MCAlgorithms` hold independent machines; a behaviour exercises one of them. |
| `KVStoreProofs`, `KVMapProofs`, `DurableProofs`, `TablesProofs`, `CallOnceProofs`, `SelectProofs`, `HNSWProofs`, `RadixTreeProofs` | proofs.  `TablesProofs` is about `SkipList` and `TableSearch`. |

### State of `KVStore`

| variable | code |
|---|---|
| `memtable` | the contents of `MemTable`: a function on the keys that were put; a deleted key has `Tombstone` ("~DELETED~") |
| `level0` | `sstables[0]`, in the order tables were pushed |
| `levels[l]` | `sstables[l]`, `l >= 1`: a set, because the code sorts it after every change |
| `timeId` | `SSTableHandler::timeId` |
| `vlog`, `tail` | the readable records of the log by offset, and the offset of its end.  A record is one unit long; offsets keep their order, and the offset 0 of the first record keeps its double meaning |
| `streamOk` | `vlogFile.good()` |
| `pc`, `after`, `depth`, `gc`, `call` | what the running call does next: where to go on after a flush (`put` returns, `gc` continues its loop or punches), the argument of `compact`, and the local variables of `gc` |

### Actions of `KVStore`

| action | code |
|---|---|
| `Put`, `Del` | `KVStore::put`, `del`; the memory table changes and, at the threshold, `pc` goes to `flush` |
| `Flush`, `FlushNothing` | `convertMemTableToSSTable` with `vLog::append`, or its early return on an empty memory table |
| `CompactLevel0`, `Compact` | `compactLevel0`, `compact(depth)`, each a whole call with its sorts: `From0`, `From` are the tables taken, `Into0`, `Into` those they meet below, `New0`, `New` what both become; `Cascade` is the test that calls `compact` for the next level |
| `Clean` | `memtable.clean()` after a flush |
| `Reset` | `KVStore::reset`; the log is closed, removed and reopened, which clears a failed stream; `timeId` is kept, as in the code |
| `GcNothing`, `GcStart` | the start of `gc`: no data block, or the search for the first valid record, which reads to the end when none is left |
| `GcSkip`, `GcMove`, `GcReadFails` | one round of the loop: a dead record, a live one (a whole `put`, with its flush and compactions), or a read past the end, after which the stream is failed and the entry is uninitialised: any key, any length |
| `GcFlush`, `GcPunch` | the flush at the end and the hole |
| `Return` | the call returns |

`get`, `getOffset` and `scan` read only, and are the operators `View`, `Offset`
and `Scan`.  They look into a table by the set of its items; that bounds, Bloom
filter and binary search amount to that is what `TableSearch` shows.

### `Durable`

A step of `KVStore` that changes tables queues in `io` the file operations of the
same function: `FlushFiles` (none for the first table of an empty store and for the
third of level 0), `Level0Files`, `CompactFiles`, `Wipe` for `reset` and `init`.
They are done one by one (`Mkdir`, `WriteOne`, `RemoveOne`, `WipeOne`,
`OperationDone`) before the store goes on.  `disk` maps each directory `level-l`
that exists to its files.  The code puts its file operations in the middle of a
function whose other effects are all in memory; those are lost by a kill
whether it comes before or after them, so the queue loses no behaviour.

`Restart` may come in every state: memory is gone, the log is opened for appending
(`LogOpened`), every file becomes a table of its level (`LoadOrders`,
`LoadLevels`), `timeId` is the largest stamp loaded (`NextStamp`), and the directory is wiped
by `init`, step by step.  `RestartFails` is the start that sorts a level which does
not exist, because the deepest directory is empty; the process reads past a
vector and is taken for dead (`pc = "dead"`).  Ghosts: `loaded` (tables whose files
are gone) and `torn` (a kill came inside `reset`, after the log was removed and
before the tables were).

One write of a file, one append and one punch are single steps.

`Mkdir` always succeeds in `Durable`, and so `KVStore` has none of the three early
returns of `SSTableHandler.cc` (lines 70, 344 and 531).  `MkdirFails` adds them:
`FlushFails`, `Level0Fails` and `CompactFails` do what the function has done in memory
by then, and no file operation, where the directory of the level is missing.
`utils::mkdir` fails on a full disk, and for every absolute path, because it tries to make
the empty name before the first slash.  What `Level0Fails` leaves (three tables in
level 0, the tables met below taken out) is where the next flush goes on.  The run
`durable` checks the properties of `Durable` with these steps; `FailBound = 1` allows them in the
first life, and `FailBound = 0` gives `Durable` back.

### The memory table and tables

`SkipList`: a node is its key; `forward` and `height` are the code's.  A call is
searched one node at a time (`Forward`, `Down`, `Land`) with the noted `update`,
and then done in one step (`Insert` with any height, `Overwrite`, `DelFound`, ...);
`scan` and `getList` collect one node per step.  `MapImplemented` is `OrderedMap`'s
specification with the skip list's variables put in.

`TableSearch`: a table, a question, and the interval `left .. right` of the running
binary search; a step is a probe.  The Bloom filter is the set of its bits, `Hash`
is any function.  The not-found mark with key `INT64_MAX` is the item `Mark`.
`TableFile` adds the file: eight bits to a signed byte.

### The algorithms

`Select`: the range, the rank and the loop of `partition`, one comparison per step;
any pivot for quick select, the middle of a middle group for linear select, whose
groups are sorted in any way that sorting equal numbers allows.  The recursion of
`findPivot` selects the middle one among ascending indices; it is written as the index.

`HNSW`: one call at a time; the search of a layer takes a candidate, visits one
neighbour per step in any order (the neighbours are an `unordered_set`), and decides
ties of distance in any order (the queues break them by address).  Vectors have any
number of integer components and `l2distance` sums their squared differences; that
the differences fit an `int` is taken for granted.  `Link` is what
`insert` does on a layer, with the pruning of every neighbour.  The threads of
`test.cpp` only query, and a query changes nothing they share.

`Huffman`: the tree is built one merge per step because the queue leaves the order of
equal nodes open; counting, the table, compression and parsing are functions.

`RadixTree` is a set of paths with the counted `_size`; `CompressedRadixTree` a nested
record with the digits of each node.  Both keep the code's odd indices: the child of
the wrong digit that ends the clean-up (`WrongChild`, `Stops`), the root's children
under a shifted digit (`Index`), the removal that is one bit off (`OffIndex`) and
the merge that drops the sibling's children (`Merge`).  A value is inserted again when
its leaf lost the mark `isLeaf` in a split: the code goes on with a shift by a
negative number, and hangs a second node below the leaf under a slot that is one of
the two such a shift can give (`Slots`).  No search comes there, but `size()` counts it, and
a merge or a repair may move it.  `calculateSize` is modelled with its order, its bytes
(`AsByte`) and its repairs: a node without children is taken off its parent, and one
with a single child absorbs it and is counted on (`Summed`, `Absorb`).

### `CallOnce`

Each thread of `test_call_once` and `test_long_init` has a `stage`; each access to
what threads share is a step of its own: the test of `is_init` outside the lock
(`Start`), `lock()` as test, lock and set of the flag inside the `unique_lock`
(`LockTest`, `LockMutex`, `LockOwn`), the second test with its assertions
(`Recheck`), the initialisation with its counters (`Enter`, `CountUp`, `Leave`),
`is_init = true` (`Flag`), and `unlock()` as test, unlock and clear (`UnlockTest`,
`UnlockMutex`, `UnlockDisown`).  `unique_lock` is the library's and modelled from
its specified behaviour; its flag `owns` is unsynchronised, so threads see each
other's half-done calls.  A failed assertion or an exception ends the process
(`abort`): nothing in a thread catches it.  The reads of `is_init` and `owns` race
with writes; a read returns the value of the last write, which is all a build for
one-byte variables around opaque calls can produce.

### Abstractions that matter

- Keys are small naturals; `IntSpan` and `WordSpan` are the numbers of values of
  `int` and `uint64_t`, scaled down.  `AsInt` is the code's conversion of a key
  through `int`; with `IntSpan = 16`, keys 0..2 fit, with `IntSpan = 4` keys 2
  and 3 do not.
- Values are opaque.  Only "" and "~DELETED~" are special, because the code
  compares with them.  A caller who puts the string "~DELETED~" deletes the key
  (the sentinel is in-band), and one who puts "" makes an older value of a table
  visible again, because `get` takes an empty string in the memory table for an
  absent key.  The configurations put neither; with `Empty` among `PutValues`
  the refinement of `KVMap` fails.
- Checksums never collide, so a record is found valid exactly where one starts.
- A page of the log is not modelled: a hole covers whole records.
- When the stream has failed, `append` writes nothing and the offsets it computes
  start from -1; all of them are `NoOffset`.
- Values of the radix trees are not negative: a shift of a negative value is another
  digit, and no test inserts one.

## 4. Runs

| run | instance | what it shows |
|---|---|---|
| `put_del` | 3 keys, 2 values, tables of 1 item, 6 tables, no gc | compactions cascade to level 3 and deleted keys are dropped or kept on the way: the store is still the map of `KVMap` (`MapRefined`), values found are backed by their own records, levels are disjoint, ordered by age and within their limits |
| `gc` | 3 keys, 2 values, tables of 2 items, 4 tables, chunks of 1 and 3 within the log | with overwrites, deletions, flushes and compactions in the middle of its loop, `gc` punches nothing in use and takes what was asked out of the log; the one change it makes to the map is to bring back the deleted key of the first record (`OnlyFirstRecordReturns`); in each state of each call the list of `scan`, read the right way, agrees with `get` |
| `returns` | 3 keys, tables of 1 item, chunks up to one more than the log | every call returns, also when the stream fails on the way |
| `durable` | 2 keys, tables of 1 item, 6 tables, 6 records, gc within and past the log, 1 restart at any moment, directories that cannot be made in the first life | files below level 0 are exactly those of the tables made since the start (`DiskFollowsLevels`); a kill between two file operations of the first life finds for each key what a kill before them would have found, or what the store has (`DiskCatchesUp`); what is read after a restart is in the log and belongs to its key (`RestartsReadOwnValues`); directories that cannot be made cost files and limits, and no answer, through the larger compactions that follow a failed one (`FailuresKeepAnswers`) |
| `tables` | skip list: 3 keys, 2 values, 3 levels; tables: every set of up to 6 items, 2 hashes on 16 bits, with false positives and a mark inside the keys | the skip list is the ordered map, whatever the heights; every get and scan of every table is right and ends; a table comes back from its file |
| `algorithms` | all arrays of up to 4 of 3 numbers and of 5 of 2, groups of 2; 4 vectors in the plane on 2 layers with 2 links; all texts of up to 5 of newline, blank and a letter, with and without pairs; 5 values of 4 digits in the tries; 4 threads | selection is right and ends; layers, links and searches of the graph are sound; the code is the best, texts and tables survive compression; both tries are sets and tight, for every order of calls without the removals `AnyRemoval` turns off, values inserted again and `size()` with its repairs included; the assertions of the threads hold, whoever returns finds the initialisation over and done once, and nobody waits for ever |
| `bad_gc_del` | 2 keys | finding 1 |
| `bad_scan_order` | 2 keys, 1 value, no deletions, no gc | finding 2 |
| `bad_restart` | 2 keys, 1 restart | finding 3 |
| `bad_radix_remove` | 5 values | finding 4 |
| `bad_call_once` | 2 threads | finding 5 |
| `bad_tied_stamps` | 3 keys, 1 value, tables of 1 item, 9 tables, no deletions, no gc, no kill needed | finding 6 |

Why the bounds are enough.  A defect of the merge needs two versions of a key, one
deletion and a third key to keep tables apart, on three levels; six tables with a
limit of one per level fill three levels and cascade twice within one call.  A
defect of the collection needs one record of a key in the log, one newer place
for it (memory table, level 0, level 1) and a flush in the loop, which a threshold
of two gives with three keys.  A restart needs level 0 compacted twice, so that
stale files of level 0 meet newer tables below: six tables.  Searches of a table
meet every boundary with six items.  A search of a layer that prunes and meets ties
needs four vectors, the text with the blank and the newline key in all places four
characters, and the tries values that share none, one and all but one digit.  Each
property has a mutant in `PROJECT.json`, a plausible mistake in the same lines, that
the same run refutes with these bounds.

`TimeBound` and `LogBound` stop new calls after that many tables and records;
a running call always finishes.  `LimitCap` caps the size of every level below
`2^(l+1)`, so that one table in a level is enough to reach the next one; with the
sizes of the code it would take eight tables to reach level 2.  `GcSlack` is how
many records beyond the log callers may ask `gc` for.  `RestartBound` counts starts, and directories fail in the first `FailBound` lives.
`LevelCap` bounds the random level.  `AnyRemoval = FALSE` leaves out of the tries two
kinds of removals, so that what holds of all others can be checked: those of the plain
tree that write outside the root's array, and those of the compressed tree named by `Spoils`:
the root takes over its last child (finding 4, also when that child is no leaf), a parent
takes over a child that has children, or the merging goes on upwards.  `NodeBound` is the
number of nodes from which nothing more is hung below a leaf: each such insertion adds
a node, for ever.  Seven leaves room for every repair of `size()`.
`ByteSpan` is the number of values of a byte: 256 in `algorithms`, where no sum comes near
it; with 4, two insertions make a tree whose `size()` is 0.

The runs of `KVStore` check for deadlock.  At the bound no new call but `reset` starts,
which is always possible, so the absence of deadlock means that no call gets stuck.
The others stop by themselves: threads end, selections and trees are finished, a
killed process may not come up.

**Fairness.**  `FairSpec` adds `WF_vars(Continue)`: a call that has started is
executed, because it runs on its caller's thread and waits for nothing.  Nothing is
assumed of the callers.  The same holds of `WF(Serve)` in `SkipList`, `WF(Search)` in
`TableSearch`, `WF(Work)` in `HNSW` and `WF(SelectNext)` in `Select`.  `CallOnce` has
`WF_onceVars(Step(t))` for every thread: the scheduler runs threads that are not blocked.
Nothing fairer is needed, because no thread locks twice.  Safety runs use `Spec`.

### What restarts keep, and what they do not

`RestartsReadOwnValues` is the strongest statement about restarts that holds, and its
exceptions are real: a kill inside `reset` (`torn`) leaves tables with an empty log;
and a store that `gc` has punched may come back with an old table, because the
one `gc` flushed was never written or its directory was wiped by the last `init`.
It also needs callers that ask `gc` for no more than the log holds.  Past its end the stream
fails, the records moved are not appended, and their keys get the offset -1 in the table
`gc` flushes; killed before the punch, the next start reads with a working stream and
finds that table first.  The run lets callers go past the end, but with tables of one
item every record moved is flushed before the stream can fail; with tables of two
items TLC finds the loss.
`DiskCatchesUp` speaks of the first life only.  After a restart stale files of
level 0 are compacted with newer tables of level 1 as if they were younger, so that
the ranges of level 1 may overlap.  It also leaves out keys that two files of one
level hold under one stamp (`Tied`): all tables a compaction of level 0 makes share
the stamp of the youngest one merged.  When one of them sinks to the next level and
a later one with the same stamp follows it there, the merged table has that stamp
again, and until the old file is removed `init` cannot tell the two apart.
`KillsKeepNewest` is the statement without this exception, and the code does not
keep it (finding 6).  A search over sequences of flushes finds the same with the limits of
the code, `2^(l+1)` tables on level `l`, after twelve tables.  Where stamps
and smallest keys are equal the model looks at one fixed table, while the order `std::sort`
leaves is open, and `Oldest` takes all of a group of such tables, where `compact` takes exactly
as many as exceed the limit.  Only files that a start has loaded can tie so; no property
speaks of such a pair.

### Findings

1. `kvstore.cc:125` - a deleted key keeps offset 0 in its table, `getOffset` does not
   look at the length, and the first record of the log has offset 0 too: `gc`
   takes the deleted record for current and puts it back.
2. `kvstore.cc:79` - `scan` appends the memory table to what the tables gave, unsorted: the
   list does not ascend, and a key of both is named twice.  What still holds, and what a
   caller can use, is `ScanAgreesWithGet`.
3. `SSTableHandler.cc:55` - the first table of an empty store is never written to a
   file; a kill loses what was flushed.
4. `compressed_radix_tree.cpp:121` - a removal that leaves the root one child makes the
   root take it over, `endBit` included.  When that child is a leaf, `findNode` returns the
   root at once from then on, and `find` is true for every value.
5. `HW11-cocurrency/main.cc:58` - the shared `unique_lock` throws at a thread that
   comes while another has it; the process ends.  (No assertion is ever wrong:
   that is what `AssertionsNeverFail` proves.)
6. `SSTableHandler.cc:580` - a compaction removes the files it has merged in the order
   they were collected, those of the upper level first.  Between these removals the next
   level has two files of one stamp with a key in both, and `init` may take the older
   value for the current one.

Seen while modelling, and stated by no run:

- The bounds of a compaction pass through `int` (`SSTableHandler.cc:244`), so that keys
  from 2^31 on make it miss overlapping tables: with `IntSpan = 4` and keys up to 3, TLC
  refutes `LevelsDisjoint`.
- A compaction that cannot make its directory leaves its level above the limit
  (`SSTableHandler.cc:343`).  It has by then erased the tables it met in the level below
  (line 270); after a start, whose `init` wiped the directories, these may hold values
  nothing else has.  With `FailBound = 2` a step `Level0Fails` of the second life loses a key.
- `gc` past the end of the log loses the values it has moved (`kvstore.cc:117`).
- Deleted keys stay in an existing last level (`SSTableHandler.cc:439`).
- The key `INT64_MAX` is taken for deleted after a false positive (`sstable.cc:63`).
- `size()` of the compressed tree sums in a `uint8_t` (`compressed_radix_tree.cpp:223`), so
  that it is the number of nodes modulo 256, and it counts twice what it counted before an
  absorption (line 231).  A removal that takes over a sibling deletes the sibling's
  children (line 122), and the upward merge unlinks one bit off (line 137).
- A pair with a newline other than " \n" is read back wrongly
  (`Huffman-tree/utils.h:77`), and a text of one key gets an empty code.

## 5. Proofs

`TypeCorrect` (`KVStoreProofs`): `Spec => []TypeOK`.  A table may have any stamp up to
`timeId`, because `init` starts again from the largest stamp it loads; that stamps stay
below `timeId` while the process runs is part of `AgesDescend`.  `TypeOK` alone is not inductive:
`MaxTimeId` of no tables and `levels[depth]` of a level that is not there have no
value.  `Inv` adds `CompactionDue`, which says what the step that sets `pc` leaves
behind: level 0 is not empty, or the level `depth` exists and exceeds its limit.
`CompactLevel0Shape` and `CompactShape` say once what a compaction does to the
levels, in terms of tables taken, met and made; all later proofs cite these.

The module goes on with the levels:

- `NarrowKeysKeepLevelsDisjoint`: if `AsInt(k) = k` for every key, then
  `Spec => []LevelsDisjoint`.  New tables are apart from each other (`SplitApart`: a
  cut of sorted keys) and from the tables that stay, because those do not meet the
  range of the tables taken (`ReplacedApart`).  The hypothesis is needed:
  TLC refutes the property where keys do not fit (`IntSpan = 4`, keys up to 3).
- `AgesStayDescending`: `Spec => []AgesDescend`, without a hypothesis.  Tables taken
  down are the oldest of their level (`OldestAreOlder`), and what is made from them
  gets the largest stamp among them, which is at least that of what they meet.
- `LimitsKept`: `Spec => []WithinLimits`.  `SizesInv` says that at any moment at most
  the level that is about to be compacted exceeds its limit.  A compaction leaves at
  most the limit behind (`OldestLeaveLimit`), and `Cascade` takes care of the
  next level.

`KVMapProofs` proves that the store keeps its map.  Its assumptions are named:
`NarrowKeys` (above), `GcWithinLog` (callers ask `gc` for a positive number of records
the log has), `NoEmptyPuts` (no empty value is put) and `NoReturns` (callers do not
both delete and call `gc`).  The constants of the run `put_del` satisfy all of them,
those of `gc` all but the last; without `NoReturns` a deleted key may return, as
`bad_gc_del` shows.

- `ItemsStayBacked`: `Spec => []VisibleBacked`.  What `get` finds in the tables
  (`Item`) is changed by a compaction only where it forgets a deleted key
  (`CompactLevel0Items`, `CompactItems`: tables that are merged have, by
  `AgesDescend` and `LevelsDisjoint`, one youngest item per key, and it is the one
  `get` finds first).  The readable log is a suffix without gaps that contains all that
  `gc` has to scan, so no read fails (`LogInv`).  `Moved` carries the argument
  for `gc`: a key whose item points to a record already scanned is in the memory
  table until a flush gives it a new item, so when the records are punched there is
  none.  `VisibleBacked` is not inductive without it.
- `OnlyDeletedKeysReturn`: `Spec => OnlyFirstRecordReturns`.  `Duplicated` says that from
  the flush to `memtable.clean` the tables return what the memory table returns, so
  that the cleaning changes nothing.
- `StoreIsMap`: `Spec => MapRefined`.  Calls map to the map's calls, `Return` to its
  return, and all other steps to stutters.
- `GcTakesItsChunk`: `Spec => GcReclaims`, from `GcWithinLog` alone.  Scanned and
  remaining records together are the chunk, and the scanned ones are all readable.
- `ScanFindsWhatGetFinds`: `Spec => []ScanAgreesWithGet`, from `NarrowKeys` alone.  The
  list of `scan` is a flattening of a flattening: the items of a key table by table
  (`ItemsOf`), then the keys in order (`ScanTables`).  `FlattenKeeps` and `FlattenFirst`
  say what is in such a list and what comes first in it; the first item of a key is
  the one `get` finds because in a level below 0 only one table holds the key
  (`LevelsDisjoint`) and level 0 is read from its end in both (`ItemsOfFirst`).  That
  the keys ascend (`ScanAscends`) needs the ranks of a finite set to be a
  numbering of it (`AscendingFacts`).

The lemmas about tables open `KVStoreProofs`.  Ties of time stamps are the delicate
part: `Older` compares smallest keys then, which is total only on disjoint tables, so
`NewestInSet` and `OldestLeaveLimit` are proved by minimal counts instead.  Everything
is proved from the two named assumptions `SSTablesAssumption` (a positive threshold,
an `int` no wider than a word) and `KVStoreAssumption` (keys are words, the special
strings differ from each other and from what is put, counts are naturals), which TLC
evaluates in every run.

`DurableProofs` is about the store and its files, for any number of files, levels, kills
and restarts.

- `DurableTypes` and `FilesFollowLevels` need no hypothesis.  Their invariant, `DInv`,
  keeps the types of the store in memory (`LevelsInv`, as long as the process has come
  up) and says of the files: each holds a table (`DiskOK`); what is queued is written into a
  directory that exists by then, nothing is both written and removed, and a wipe is
  done alone (`IoOK`); and what will be on file once the queue is done (`WillBe`: on file
  and not to be removed, or to be written) is what the level has, the tables loaded
  by `init` aside (`Follows`).  `DiskFollowsLevels` is the case of an empty queue; it is not
  inductive, since it says nothing while files are written.  `WillBe` does not
  change when a file operation is done (`FileStepKeeps`), and a flush or a compaction
  changes it exactly as it changes the levels (`FlushFollows`, `Level0Follows`,
  `CompactFollows`).
- `FirstLifeCatchesUp`: `DiskCatchesUp`, under `NarrowKeys`, which keeps the levels in memory
  disjoint.  The invariant `FirstLife` adds to `DInv` what holds until the first kill.
  Of the queue (`QueueOK`): files below level 0 are written and removed only
  while level 0 is empty in memory, by level 0 only the file of its last table is written, and
  what is removed after new files were written to its level, or after a removal from the
  level above, *fades*: for each of its keys the level has in memory a table
  that is no older (`Fades`; `Level0Fades` and `CompactFades` show it of what a compaction merges,
  and it needs `AgesDescend`, and that deletions are dropped only where nothing is
  merged below).  Of the files of level 0 (`ShelfOK`), whose names alternate and which no
  compaction removes: there are at most two, their stamps differ, those not yet
  overwritten are older than the table that comes, and the older of the two is the one
  that is overwritten.  So a start finds for a key a table that
  is neither fading nor on its way out, or the one it found before: one lemma for each kind of
  file step says so (`RemovalFinds`, `WritingFinds`, `ShelfFinds`), of any files and any levels.
- `RestartsReadLogged`: `RestartsReadOwnValues`, under `NarrowKeys` and `GcWithinLog`, which
  are needed for the first life, where it is `VisibleBacked`.  After that it rests on
  what is true of each table alone, in memory, on file or queued: an offset it notes
  has been given out by the log, and if the record is still there it is of the key
  (`Sound`).  Merging and cutting keep that (`New0Sound`, `NewSound`), so does a log that
  only grows (`SoundStays`), and so does a restart, since every file is sound: except
  while `reset` is taking files away, which is where `torn` comes from.

`TablesProofs`, about `SkipList` from `SkipListAssumption` (keys are naturals, there is a level):
`LevelsStayLinked`, `SearchesOnTrack`, and the refinement `SkipListIsOrderedMap`.  The
invariant adds to types, `Linked` and `SearchOnTrack` that every level below the one
searched has been noted once the search has landed, that the node landed on is the first one not
before the key, and, for a listing, that what is collected is exactly the part of the
map before the node the listing has come to.  `Linked` cannot be kept without
`SearchOnTrack`, because a relinking is right only at the noted nodes, and that not
without `Linked`.  The refinement maps every search step to a stutter and the last
step of each call to the map's answer; `size` is the cardinality of the map.

`TablesProofs`, about `TableSearch` from `TableAssumption` (lists ascend, the hash is a function):
`GetsAreRight`, `ScansAreRight`, `ProbesStayInside`.  The invariant says of each of
the three loops what lies left of `left` and right of `right`: smaller and larger keys.
It needs no assumption about the hash, since a key's own bits are set.

`SelectProofs`, from `SelectAssumption` (arrays are finite and not empty, groups have
two to five numbers: beyond that `medianOf5` has another branch, which is not modelled):
`SelectionStaysInRange` and `SelectionIsRight`.  The invariant says
that the numbers are a rearrangement of those given, that the range separates, and, in
the loop, that smaller numbers lie before `i` and others from `i` to `j`.

`HNSWProofs`, from `HNSWAssumption` (parameters are positive, `M` is at most `M_max`, the
null pointer is no node): `LayersAlwaysFit`, `LinksAreGivenUpWhenFull` and
`SearchEndsAtLocalOptimum`, for any vectors, any random levels, any order in which
neighbours are visited and any way ties are decided.  The invariant `Inv` says that
links join nodes which have the layer (`Graph`), that only the node being inserted may be
higher than the entry point (`OnTop`), that this node has no links on the layers still to be
searched (`NewUnlinked`: so no search meets it), and of the running search that the
nodes kept are the nearest of those visited (`BestKept`) and each is still a candidate
unless its neighbours have been visited or are just being visited (`AllSeen`).  The
early break ends a search only when every candidate left is further than all of a full
result, so none of the nodes kept is still a candidate.  `LinksGivenUpWhenFull` survives an
insertion because a node that drops a link has `M_max` others, none of them further
away (`selectNeighbors` keeps the nearest), and because it exchanges a link later only
for a nearer one; it survives the links of the new node because `M` is at most `M_max`.
The proof needs of distances only that they are integers, which `l2distanceInt` shows by
the least number of components that would have no sum.

`RadixTreeProofs`, from `TreeAssumption` (at least two digits, values are digit
sequences) and `AnyRemoval = FALSE`: `RadixTight` and the refinement `RadixImplementsSet`,
for any number of digits and any set of values.  The hypothesis leaves out the
removals that write outside the root's array, whose outcome is undefined.  The
invariant `RadixInv` is that the nodes are exactly those on the paths of the values found,
and are finitely many and counted.  The work is in the clean-up loop of `remove`
(`RoundCuts`, by induction over its rounds in `CleanedFacts`): the nodes it has taken lie at
the end of the removed path, nothing hung on each but the next one, and the node it
stopped at has another child.  So each node taken is on no other value's path (two
paths part at their first difference, `FirstDifference`, and there the node would have had a
second child), and each node left of the path is on that of a value below the other child
(`ChildInTree`).  That the loop looks at the wrong digit first does no harm: it can only
stop the loop at a node that has a child.

`CallOnceProofs`: `AssertionsNeverFail` and `OnlyAfterInit`, for any number of threads,
from `CallOnceAssumption` (the mark for no holder is not a thread).  The invariant
`IInv` ties the counters to the phase of the thread that has the mutex, and says
that between `lock` and `unlock` a thread has the mutex whatever `owns` says.  It is
needed because the properties speak of counters only.

Only model-checked: `FileKeepsTable`; `FailuresKeepAnswers`, the answers while directories
fail; the properties
of `Huffman` and `CompressedRadixTree`, which are recursive, so that no prover
can be used in them; and all liveness (`EveryCallReturns`, `EveryCallAnswered`,
`EveryAskAnswered`, `EveryCallEnds`, `SelectionEnds`, `EveryThreadReturns`): TLAPS has
no backend for fairness.

## 6. Not modelled

- `HW9-para-fibonacci`: `main` declares a local `max` that shadows the global one,
  which stays 0.  No call is split, the counter never moves, and what is left is the
  sequential recursion.
- Undefined behaviour of the tries: the removal that writes outside the root's array
  (`radix_tree.cpp:78`) is a disjunct `AnyRemoval` turns off; the shift by a negative
  number (`compressed_radix_tree.cpp:52`) gives one of the two results a build can
  produce, nothing worse.  `calculateHeight` and the stored heights are left out.
- Overflow of `int` in the distance of two vectors (`HNSW-coccurrenct/util/util.hpp:19`).
- The answer of `del`: it is whether `get` finds the key, which changes nothing.
- A kill in the middle of one file write, append or punch.
- `scan`'s pair list as a C++ list, output formats, logging and the debug print in
  `get`: no property is about them.
- The `NOCHACHEED` and `CHACHE_INDEX_ONLY` builds: the repository builds `ALLCACHEED`.
- Byte lengths: `gc` counts records instead of bytes, so the `int` `scan_size`
  cannot overflow in the model (in the code it takes a chunk of 2 GiB).
- Huffman's empty text (its length minus one underflows, `hftree.cpp:16`).
- Drivers, benchmarks, data set readers, `MurmurHash3.h`.
