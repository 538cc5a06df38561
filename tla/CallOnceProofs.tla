---------------------------- MODULE CallOnceProofs ----------------------------
(***************************************************************************)
(* The assertions of the tests hold for any number of threads, whatever     *)
(* happens to the shared lock object: the mutex alone orders the threads.   *)
(***************************************************************************)
EXTENDS CallOnce, TLAPS

TypeOK ==
  /\ stage \in [Threads -> Stages]
  /\ isInit \in BOOLEAN
  /\ holder \in Threads \cup {NoThread}
  /\ cntAccu \in Nat /\ cntNow \in Nat
  /\ abort \in {"no", "assertion", "exception"}

Locked == {"own", "recheck", "enter", "count", "leave", "flag", "unlock", "release"}
Initialising == {"enter", "count", "leave", "flag"}
PastInit == {"check", "unlock", "release", "disown", "done"}

(* The counters as the initialising thread, if there is one, left them.     *)
Counted(here) ==
  /\ cntNow = IF here \in {"count", "leave"} THEN 1 ELSE 0
  /\ cntAccu = IF here \in {"leave", "flag"} THEN 1 ELSE 0

(* Between lock and unlock a thread has the mutex; the flag is set only     *)
(* when the one initialisation is over, and seen set by all who get on.     *)
IInv ==
  /\ TypeOK
  /\ abort # "assertion"
  /\ \A t \in Threads : stage[t] \in Locked => holder = t
  /\ holder # NoThread => stage[holder] \in Locked
  /\ \A t \in Threads : stage[t] \in Initialising => ~isInit
  /\ \A t \in Threads : stage[t] \in PastInit => isInit
  /\ isInit => InitDone
  /\ ~isInit => Counted(IF holder = NoThread THEN "start" ELSE stage[holder])

LEMMA InitIInv == OnceInit => IInv
<1> SUFFICES ASSUME OnceInit PROVE IInv
  OBVIOUS
<1>1. TypeOK /\ \A t \in Threads : stage[t] = "start"
  BY DEF OnceInit, TypeOK, Stages
<1> QED BY <1>1 DEF OnceInit, IInv, Locked, Initialising, PastInit, Counted

(* A step of one thread keeps what is known of all.                         *)
LEMMA StepIInv ==
  ASSUME IInv, NEW t \in Threads, Step(t)
  PROVE  IInv'
<1> USE DEF IInv, TypeOK, Here, Goto, mutex, counters
<1>0. ASSUME stage[t] \in Initialising
      PROVE  /\ holder = t /\ ~isInit /\ t # NoThread
             /\ Counted(stage[t])
             /\ \A u \in Threads : u # t => stage[u] \notin Locked
  BY <1>0, CallOnceAssumption DEF Initialising, Locked
<1>1. CASE Start(t)
  BY <1>1 DEF Start, Stages, Locked, Initialising, PastInit, Counted, InitDone
<1>2. CASE Check(t)
  BY <1>2 DEF Check, Require, Stages, Locked, Initialising, PastInit, Counted, InitDone
<1>3. CASE LockTest(t)
  BY <1>3 DEF LockTest, Require, Stages, Locked, Initialising, PastInit, Counted, InitDone
<1>4. CASE LockMutex(t)
  BY <1>4, CallOnceAssumption
  DEF LockMutex, Stages, Locked, Initialising, PastInit, Counted, InitDone
<1>5. CASE LockOwn(t)
  BY <1>5 DEF LockOwn, Stages, Locked, Initialising, PastInit, Counted, InitDone
<1>6. CASE Recheck(t)
  BY <1>6 DEF Recheck, Require, Stages, Locked, Initialising, PastInit, Counted, InitDone
<1>7. CASE Enter(t)
  BY <1>0, <1>7 DEF Enter, Stages, Locked, Initialising, PastInit, Counted, InitDone
<1>8. CASE CountUp(t)
  BY <1>0, <1>8 DEF CountUp, Require, Stages, Locked, Initialising, PastInit, Counted, InitDone
<1>9. CASE Leave(t)
  BY <1>0, <1>9 DEF Leave, Stages, Locked, Initialising, PastInit, Counted, InitDone
<1>10. CASE Flag(t)
  BY <1>0, <1>10 DEF Flag, Stages, Locked, Initialising, PastInit, Counted, InitDone
<1>11. CASE UnlockTest(t)
  BY <1>11 DEF UnlockTest, Require, Stages, Locked, Initialising, PastInit, Counted, InitDone
<1>12. CASE UnlockMutex(t)
  BY <1>12, CallOnceAssumption
  DEF UnlockMutex, Stages, Locked, Initialising, PastInit, Counted, InitDone
<1>13. CASE UnlockDisown(t)
  BY <1>13 DEF UnlockDisown, Stages, Locked, Initialising, PastInit, Counted, InitDone
<1> QED
  BY <1>1, <1>2, <1>3, <1>4, <1>5, <1>6, <1>7, <1>8, <1>9, <1>10, <1>11, <1>12, <1>13
  DEF Step

LEMMA NextIInv == IInv /\ [OnceNext]_onceVars => IInv'
<1> SUFFICES ASSUME IInv, [OnceNext]_onceVars PROVE IInv'
  OBVIOUS
<1>1. CASE UNCHANGED onceVars
  BY <1>1 DEF onceVars, IInv, TypeOK, Counted, InitDone
<1>2. CASE \E t \in Threads : Step(t)
  BY <1>2, StepIInv
<1> QED BY <1>1, <1>2 DEF OnceNext

(* No assertion of the tests fails, for any number of threads.              *)
THEOREM AssertionsNeverFail == OnceSpec => []AssertionsHold
<1>1. IInv => AssertionsHold
  BY DEF IInv, AssertionsHold
<1> QED BY <1>1, InitIInv, NextIInv, PTL DEF OnceSpec

(* Whoever goes on finds the initialisation done, once, for any number of   *)
(* threads.                                                                 *)
THEOREM OnlyAfterInit == OnceSpec => []DoneAfterInit
<1>1. IInv => DoneAfterInit
  BY DEF IInv, DoneAfterInit, PastInit
<1> QED BY <1>1, InitIInv, NextIInv, PTL DEF OnceSpec
==============================================================================
