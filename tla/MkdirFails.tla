------------------------------ MODULE MkdirFails ------------------------------
(***************************************************************************)
(* Durable where a directory may also fail to be made.  convertMemTable-    *)
(* ToSSTable, compactLevel0 and compact make the directory of a level when  *)
(* it is missing, and return at once when that fails.  utils::mkdir fails   *)
(* on a full or read-only disk, and whenever the path is absolute: it tries *)
(* to make the empty name before the first slash.                           *)
(***************************************************************************)
EXTENDS Durable

CONSTANT FailBound    \* bound: directories fail in this many lives

ASSUME MkdirAssumption == FailBound \in Nat

MayFail(l) == restarts < FailBound /\ l \notin DOMAIN disk

(* The table that was pushed to level 0 stays there without its file.       *)
FlushFails ==
  /\ MayFail(0)
  /\ Flush
  /\ FlushFiles # <<>>

(* Mutant: level 0 is cleared before the directory is made.               *)
Level0Cleared ==
  /\ pc = "compactLevel0" /\ MayFail(1)
  /\ levels' = [Grown(1) EXCEPT ![1] = @ \ Into0]
  /\ level0' = <<>>
  /\ Cascade(1)
  /\ UNCHANGED <<memtable, timeId, log, after, gc, call>>

(* compactLevel0 returns after it took the tables it would have merged from *)
(* level 1, and before it cleared level 0; the caller looks at level 1.     *)
Level0Fails ==
  /\ pc = "compactLevel0" /\ MayFail(1)
  /\ levels' = [Grown(1) EXCEPT ![1] = @ \ Into0]
  /\ Cascade(1)
  /\ UNCHANGED <<memtable, level0, timeId, log, after, gc, call>>

(* compact returns after it took the tables it would have merged from the   *)
(* level below, and before it removed any from its own.                     *)
CompactFails ==
  /\ pc = "compact" /\ MayFail(depth + 1)
  /\ levels' = [Grown(depth + 1) EXCEPT ![depth + 1] = @ \ Into]
  /\ pc' = "clean" /\ depth' = 0
  /\ UNCHANGED <<memtable, level0, timeId, log, after, gc, call>>

FailingStep == io = <<>> /\ (FlushFails \/ Level0Fails \/ CompactFails) /\ NoFiles

FailingSpec == DurableInit /\ [][DurableNext \/ FailingStep]_allVars

------------------------------------------------------------------------------
(* Properties *)

(* Directories that cannot be made cost the files and the limits of the     *)
(* levels, never an answer: in its first life, and until its stream fails,  *)
(* the store changes the answer for a key only when it should, or as gc     *)
(* does for the first record (OnlyFirstRecordReturns).  The compactions     *)
(* that follow a failed one are included, which merge more tables and no    *)
(* longer take the level below for the last (compactLevel0 and compact).    *)
FailuresKeepAnswers ==
  [][restarts' = 0 /\ streamOk' => AnswersChange]_allVars
==============================================================================
