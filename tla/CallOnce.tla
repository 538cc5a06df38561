------------------------------- MODULE CallOnce -------------------------------
(***************************************************************************)
(* The threads of HW11-cocurrency/main.cc: each wants an initialisation to  *)
(* be done once and to be over before it goes on.  The flag is_init is      *)
(* tested outside the lock and again inside.  The lock is one object, a     *)
(* std::unique_lock that all threads share, and not one for each: whether   *)
(* it owns the mutex is a plain bool that lock() and unlock() test and set  *)
(* in separate steps.                                                       *)
(***************************************************************************)
EXTENDS Integers

CONSTANTS Threads, NoThread

ASSUME CallOnceAssumption == NoThread \notin Threads

VARIABLES
  stage,      \* where each thread is
  isInit,     \* is_init
  holder,     \* the thread that has locked the mutex m, or NoThread
  owns,       \* lock.owns_lock()
  cntAccu,    \* how often the initialisation was begun
  cntNow,     \* how many threads are in it
  abort       \* why the process ended early, or "no"

onceVars == <<stage, isInit, holder, owns, cntAccu, cntNow, abort>>
mutex == <<holder, owns>>
counters == <<cntAccu, cntNow>>

OnceInit ==
  /\ stage = [t \in Threads |-> "start"]
  /\ isInit = FALSE
  /\ holder = NoThread /\ owns = FALSE
  /\ cntAccu = 0 /\ cntNow = 0
  /\ abort = "no"

Here(t, place) == abort = "no" /\ stage[t] = place
Goto(t, there) == stage' = [stage EXCEPT ![t] = there]

(* The process goes on if ok and otherwise ends for the reason why.         *)
Require(ok, why) == abort' = IF ok THEN "no" ELSE why
InitDone == cntAccu = 1 /\ cntNow = 0

Start(t) ==
  /\ Here(t, "start")
  /\ Goto(t, IF isInit THEN "check" ELSE "lock")
  /\ UNCHANGED <<isInit, mutex, counters, abort>>

(* The thread that finds the flag set outside the lock.                     *)
Check(t) ==
  /\ Here(t, "check")
  /\ Goto(t, "done")
  /\ Require(InitDone, "assertion")
  /\ UNCHANGED <<isInit, mutex, counters>>

(* std::unique_lock::lock: it throws if the object owns the mutex already,  *)
(* whoever locked it, and nobody catches.                                   *)
LockTest(t) ==
  /\ Here(t, "lock")
  /\ Goto(t, "wait")
  /\ Require(~owns, "exception")
  /\ UNCHANGED <<isInit, mutex, counters>>

LockMutex(t) ==
  /\ Here(t, "wait") /\ holder = NoThread
  /\ holder' = t
  /\ Goto(t, "own")
  /\ UNCHANGED <<isInit, owns, counters, abort>>

LockOwn(t) ==
  /\ Here(t, "own")
  /\ owns' = TRUE
  /\ Goto(t, "recheck")
  /\ UNCHANGED <<isInit, holder, counters, abort>>

(* Mutant: the flag is not tested again inside the lock.                    *)
RecheckNever(t) ==
  /\ Here(t, "recheck")
  /\ Goto(t, "enter")
  /\ UNCHANGED <<isInit, mutex, counters, abort>>

Recheck(t) ==
  /\ Here(t, "recheck")
  /\ Goto(t, IF isInit THEN "unlock" ELSE "enter")
  /\ Require(isInit => InitDone, "assertion")
  /\ UNCHANGED <<isInit, mutex, counters>>

(* The function passed to call_once_waiting, which calls it at once.        *)
Enter(t) ==
  /\ Here(t, "enter")
  /\ cntNow' = cntNow + 1
  /\ Goto(t, "count")
  /\ UNCHANGED <<isInit, mutex, cntAccu, abort>>

(* Mutant: the flag is set before the initialisation is over.               *)
CountAndFlag(t) ==
  /\ Here(t, "count")
  /\ cntAccu' = cntAccu + 1
  /\ isInit' = TRUE
  /\ Goto(t, "leave")
  /\ UNCHANGED <<mutex, cntNow, abort>>

CountUp(t) ==
  /\ Here(t, "count")
  /\ cntAccu' = cntAccu + 1
  /\ Goto(t, "leave")
  /\ Require(cntNow = 1, "assertion")
  /\ UNCHANGED <<isInit, mutex, cntNow>>

Leave(t) ==
  /\ Here(t, "leave")
  /\ cntNow' = cntNow - 1
  /\ Goto(t, "flag")
  /\ UNCHANGED <<isInit, mutex, cntAccu, abort>>

Flag(t) ==
  /\ Here(t, "flag")
  /\ isInit' = TRUE
  /\ Goto(t, "unlock")
  /\ UNCHANGED <<mutex, counters, abort>>

(* std::unique_lock::unlock: it throws if the object does not own the mutex.*)
UnlockTest(t) ==
  /\ Here(t, "unlock")
  /\ Goto(t, "release")
  /\ Require(owns, "exception")
  /\ UNCHANGED <<isInit, mutex, counters>>

(* Mutant: the mutex stays locked.                                          *)
KeepMutex(t) ==
  /\ Here(t, "release")
  /\ Goto(t, "disown")
  /\ UNCHANGED <<isInit, mutex, counters, abort>>

UnlockMutex(t) ==
  /\ Here(t, "release")
  /\ holder' = NoThread
  /\ Goto(t, "disown")
  /\ UNCHANGED <<isInit, owns, counters, abort>>

UnlockDisown(t) ==
  /\ Here(t, "disown")
  /\ owns' = FALSE
  /\ Goto(t, "done")
  /\ UNCHANGED <<isInit, holder, counters, abort>>

Step(t) ==
  \/ Start(t) \/ Check(t)
  \/ LockTest(t) \/ LockMutex(t) \/ LockOwn(t) \/ Recheck(t)
  \/ Enter(t) \/ CountUp(t) \/ Leave(t) \/ Flag(t)
  \/ UnlockTest(t) \/ UnlockMutex(t) \/ UnlockDisown(t)

OnceNext == \E t \in Threads : Step(t)

(* Every thread is run by the system as long as the process lives.          *)
OnceSpec == OnceInit /\ [][OnceNext]_onceVars /\ \A t \in Threads : WF_onceVars(Step(t))

------------------------------------------------------------------------------
(* Properties *)

Stages == {"start", "check", "lock", "wait", "own", "recheck", "enter", "count",
           "leave", "flag", "unlock", "release", "disown", "done"}

(* No assertion of test_call_once and test_long_init fails, although the    *)
(* flag is read without the lock and the lock object is shared.             *)
AssertionsHold == abort # "assertion"

(* A thread goes on only after the initialisation has run, once, and is     *)
(* over (call_once_waiting: later threads wait for the first).              *)
DoneAfterInit == \A t \in Threads : stage[t] = "done" => InitDone

(* No thread waits for the mutex for ever: either the process ends or every *)
(* thread returns and can be joined.                                        *)
EveryThreadReturns ==
  <>(abort # "no" \/ \A t \in Threads : stage[t] = "done")

(* What the tests expect of a thread that comes while another initialises:  *)
(* it waits, and no exception leaves it.  The code does not keep this.      *)
NobodyThrows == abort # "exception"
==============================================================================
