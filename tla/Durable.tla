-------------------------------- MODULE Durable --------------------------------
(***************************************************************************)
(* The files of LSMKV beside the store in memory, and a process that may be *)
(* killed at any moment and started again.  A step of KVStore that changes  *)
(* tables queues the file operations of the same function; they are done    *)
(* one by one before the call goes on, so a kill can come between any two.  *)
(* Writing one file, appending to the log and punching it are not divided.  *)
(* Here every directory can be made; MkdirFails has the early returns taken *)
(* where one cannot.                                                        *)
(***************************************************************************)
EXTENDS KVStore

CONSTANT RestartBound    \* bound: the process is started again this often

ASSUME DurableAssumption == RestartBound \in Nat

VARIABLES
  disk,       \* the directories level-l that exist, each a set of files
  io,         \* the file operations the running function has yet to do
  loaded,     \* the tables init loaded; their files are gone
  torn,       \* a kill came between the removals of the log and of the tables
  restarts    \* how often the process was started again

files == <<disk, io, loaded, torn, restarts>>
allVars == <<vars, files>>

------------------------------------------------------------------------------
(* Files.  A file of level 0 is named by its position, sstable1 or sstable2; *)
(* below, every new file gets a new number, written here as 0.               *)

File(slot, t) == [slot |-> slot, table |-> t]
TablesIn(l)   == {f.table : f \in disk[l]}
TablesOf(l)   == IF l \in DOMAIN levels THEN levels[l] ELSE {}

MakeDir(l)      == [op |-> "mkdir", level |-> l]
WriteAll(l, S)  == [op |-> "write", level |-> l, files |-> S]
RemoveAll(l, S) == [op |-> "remove", level |-> l, tables |-> S]
Wipe            == [op |-> "wipe"]

(* Mutant: the old files go before the new ones are written. *)
RemoveThenWrite(l, new, removals) ==
  <<MakeDir(l)>> \o removals \o <<WriteAll(l, {File(0, t) : t \in new})>>

(* The files of a compaction into level l: those of the new tables, then    *)
(* the removal of the files of the tables merged.                           *)
WriteThenRemove(l, new, removals) ==
  <<MakeDir(l), WriteAll(l, {File(0, t) : t \in new})>> \o removals

(* The first table of an empty store is not written, nor the one that sets  *)
(* off a compaction.                                                        *)
FlushFiles ==
  IF (level0 = <<>> /\ levels = <<>>) \/ Len(level0') > 2 THEN <<>>
  ELSE <<MakeDir(0), WriteAll(0, {File(Len(level0'), NewTable)})>>

(* Mutant: the tables merged from level 1 keep their files. *)
Level0FilesKept == WriteThenRemove(1, New0, <<>>)
(* The files of level 0 are removed under names without .sst: they stay.    *)
Level0Files == WriteThenRemove(1, New0, <<RemoveAll(1, Into0 \ New0)>>)

CompactFiles ==
  WriteThenRemove(depth + 1, New, <<RemoveAll(depth, From), RemoveAll(depth + 1, Into \ New)>>)

------------------------------------------------------------------------------
(* Doing the file operations *)

Todo == Head(io)
Idle == UNCHANGED <<vars, loaded, torn, restarts>>

Mkdir ==
  /\ Todo.op = "mkdir"
  /\ disk' = Overriding(disk, [l \in {Todo.level} |-> {}])
  /\ io' = Tail(io) /\ Idle

(* Tables are written by smallest key and removed by age; a file of the     *)
(* same name is overwritten.                                                *)
WriteOne ==
  /\ Todo.op = "write" /\ Todo.files # {}
  /\ LET f == CHOOSE f \in Todo.files :
                \A g \in Todo.files : Smallest(f.table) <= Smallest(g.table)
     IN  /\ disk' = [disk EXCEPT ![Todo.level] =
                       {g \in @ : f.slot = 0 \/ g.slot # f.slot} \cup {f}]
         /\ io' = [io EXCEPT ![1].files = @ \ {f}]
  /\ Idle

RemoveOne ==
  /\ Todo.op = "remove" /\ Todo.tables # {}
  /\ LET t == CHOOSE t \in Todo.tables : \A u \in Todo.tables : ~Older(u, t)
     IN  /\ disk' = IF Todo.level \in DOMAIN disk
                    THEN [disk EXCEPT ![Todo.level] = {f \in @ : f.table # t}]
                    ELSE disk
         /\ io' = [io EXCEPT ![1].tables = @ \ {t}]
  /\ Idle

OperationDone ==
  /\ \/ Todo.op = "write"  /\ Todo.files = {}
     \/ Todo.op = "remove" /\ Todo.tables = {}
     \/ Todo.op = "wipe"   /\ disk = <<>>
  /\ io' = Tail(io) /\ UNCHANGED disk /\ Idle

(* remove_all of the directory sstable: files and empty directories, in any *)
(* order the file system lists them.                                        *)
WipeOne ==
  /\ Todo.op = "wipe"
  /\ \E l \in DOMAIN disk :
       IF disk[l] = {} THEN disk' = Restrict(disk, DOMAIN disk \ {l})
       ELSE \E f \in disk[l] : disk' = [disk EXCEPT ![l] = @ \ {f}]
  /\ UNCHANGED io /\ Idle

FileStep == io # <<>> /\ (Mkdir \/ WriteOne \/ RemoveOne \/ OperationDone \/ WipeOne)

------------------------------------------------------------------------------
(* A kill, and the next start: init loads every file into its level.        *)

MaxDir == Max(DOMAIN disk)

(* What init finds; files of one stamp and smallest key come in any order.  *)
LoadOrders ==
  LET found == IF 0 \in DOMAIN disk THEN TablesIn(0) ELSE {}
  IN  {s \in [1 .. Cardinality(found) -> found] :
         /\ Range(s) = found
         /\ \A i, j \in DOMAIN s : i < j => ~Older(s[j], s[i])}
LoadLevels ==
  [l \in 1 .. (IF disk = <<>> THEN 0 ELSE MaxDir) |->
     IF l \in DOMAIN disk THEN TablesIn(l) ELSE {}]
LoadAll == UNION {TablesIn(l) : l \in DOMAIN disk}

(* init sorts the level of a directory after loading its files.  An empty   *)
(* directory has no such level yet unless a deeper one was loaded before.   *)
EmptyDirs == {l \in DOMAIN disk : disk[l] = {}}
Sortable(l) == \E m \in DOMAIN disk \ EmptyDirs : m > l

(* Mutant: opening the log truncates it. *)
LogTruncated == vlog' = <<>> /\ tail' = 0
LogOpened    == UNCHANGED <<vlog, tail>>

(* What is left of a call when the process is killed. *)
Killed ==
  /\ memtable' = EmptyMap
  /\ pc' = "idle" /\ after' = "return" /\ depth' = 0 /\ gc' = NoGc
  /\ call' = API!NoCall
  /\ streamOk' = TRUE
  /\ torn' = (torn \/ (call = API!ResetCall /\ io # <<>> /\ disk # <<>>))
  /\ restarts' = restarts + 1
  /\ LogOpened /\ UNCHANGED disk

NextStamp == IF LoadAll = {} THEN 0 ELSE MaxTimeId(LoadAll)

Restart ==
  /\ restarts < RestartBound /\ pc # "dead"
  /\ \A l \in EmptyDirs : Sortable(l)
  /\ level0' \in LoadOrders
  /\ levels' = LoadLevels
  /\ timeId' = NextStamp
  /\ loaded' = LoadAll
  /\ io' = IF disk = <<>> THEN <<>> ELSE <<Wipe>>
  /\ Killed

(* The level that init sorts does not exist: the process reads past the end *)
(* of a vector and does not come up.                                        *)
RestartFails ==
  /\ restarts < RestartBound /\ pc # "dead"
  /\ EmptyDirs # {}
  /\ pc' = "dead" /\ restarts' = restarts + 1
  /\ UNCHANGED <<memtable, tables, timeId, log, after, depth, gc, call,
                 disk, io, loaded, torn>>

------------------------------------------------------------------------------

NoFiles == UNCHANGED files
Queue(ops) == io' = ops /\ UNCHANGED <<disk, loaded, torn, restarts>>

(* A step of the store, with the file operations it sets off.               *)
StoreStep ==
  /\ io = <<>>
  /\ \/ \E k \in Keys, v \in PutValues : Put(k, v) /\ NoFiles
     \/ \E k \in DelKeys : Del(k) /\ NoFiles
     \/ \E chunk \in GcChunks : (GcNothing(chunk) \/ GcStart(chunk)) /\ NoFiles
     \/ Reset /\ Queue(<<Wipe>>)
     \/ Flush /\ Queue(FlushFiles)
     \/ CompactLevel0 /\ Queue(Level0Files)
     \/ Compact /\ Queue(CompactFiles)
     \/ (FlushNothing \/ Clean \/ Return) /\ NoFiles
     \/ (GcMove \/ GcSkip \/ GcReadFails \/ GcFlush \/ GcPunch) /\ NoFiles

DurableInit ==
  /\ Init
  /\ disk = <<>> /\ io = <<>> /\ loaded = {} /\ torn = FALSE /\ restarts = 0

DurableNext == StoreStep \/ FileStep \/ Restart \/ RestartFails

DurableSpec == DurableInit /\ [][DurableNext]_allVars

------------------------------------------------------------------------------
(* Properties *)

(* The store as the next start would find it. *)
OnDisk == INSTANCE KVStore WITH
  memtable <- EmptyMap, streamOk <- TRUE,
  level0 <- CHOOSE s \in LoadOrders : TRUE,
  levels <- LoadLevels

(* Once its file operations are done, every table of a level below 0 that   *)
(* was made since the start has its file, and there is no other file there: *)
(* compactions that cascade neither forget a file nor remove one too many   *)
(* (SSTableHandler.cc, compactLevel0 and compact).                          *)
DiskFollowsLevels ==
  io = <<>> /\ pc # "dead" =>
    \A l \in (DOMAIN levels \cup DOMAIN disk) \ {0} :
      LET found == IF l \in DOMAIN disk THEN TablesIn(l) ELSE {}
      IN  TablesOf(l) \ loaded \subseteq found /\ found \subseteq TablesOf(l)

(* Two files of a level hold the key and have the same stamp, so that init  *)
(* cannot tell which is younger.                                            *)
Tied(k) ==
  \E l \in DOMAIN disk : \E t, u \in TablesIn(l) :
    t # u /\ k \in KeysOf(t) \cap KeysOf(u) /\ t.timeId = u.timeId

(* A step of a flush or a compaction on the files of the first life.        *)
FileStepBeforeKills ==
  restarts' = 0 /\ io # <<>> /\ io' # <<>> /\ Todo.op # "wipe" /\ FileStep

(* Until the first kill, a kill between two file operations loses nothing   *)
(* that a kill before both would have kept: with each file written or       *)
(* removed by a flush or a compaction, the item a restart would find for a  *)
(* key stays as it is or becomes the one the store has now, unless stamps   *)
(* are tied (SSTableHandler.cc, compactLevel0 and compact: new files first, *)
(* then removals).  After a restart a level may hold stale tables whose     *)
(* ranges overlap, and a compaction of those promises less.                 *)
DiskCatchesUp ==
  [][FileStepBeforeKills =>
       \A k \in Keys : ~Tied(k)' => OnDisk!Item(k)' \in {OnDisk!Item(k), Item(k)}]_allVars

(* The same without the exception, which a reader of the test of            *)
(* persistence.cc would expect: the code does not keep this.  The tables    *)
(* compactLevel0 makes share one stamp; when one of them has sunk and       *)
(* another follows, it carries the stamp of the table it replaces, whose    *)
(* file is removed last.                                                    *)
KillsKeepNewest ==
  [][FileStepBeforeKills =>
       \A k \in Keys : OnDisk!Item(k)' \in {OnDisk!Item(k), Item(k)}]_allVars

(* Whatever kills and restarts come, a value a table finds is in the log    *)
(* and belongs to its key, also when the tables come back from files that   *)
(* should have been removed and when a collection is killed while it moves  *)
(* records.  Left out are a kill inside reset, which removes the log before *)
(* the tables, and a store that is both restarted and punched by gc: tables *)
(* that come back may point to punched records.  Callers of gc stay within  *)
(* the log: past its end the records moved are lost, and only when a table  *)
(* holds one item are they flushed before.                                  *)
Punched == DOMAIN vlog # 0 .. tail - 1
RestartsReadOwnValues == ~torn /\ streamOk /\ (restarts = 0 \/ ~Punched) => VisibleBacked

(* A restart finds every key that had left the memory table as it was       *)
(* before the kill (persistence.cc tests data integrity this way): the code *)
(* does not keep this.                                                      *)
RestartKeepsFlushed ==
  [][Restart /\ io = <<>> /\ pc = "idle" => \A k \in Keys : Stored(k)' = Stored(k)]_allVars
==============================================================================
