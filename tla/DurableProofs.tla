---------------------------- MODULE DurableProofs ----------------------------
(***************************************************************************)
(* What Durable keeps through kills and restarts, for every choice of the   *)
(* constants: the variables of the store keep their types, the files below  *)
(* level 0 follow the tables made since the start, until the first kill     *)
(* each file step brings what a restart would find no further from what the *)
(* store has, and what a restart finds is in the log and is of its key.     *)
(***************************************************************************)
EXTENDS Durable, KVMapProofs

------------------------------------------------------------------------------
(* Queues *)

LEMMA TailFacts ==
  ASSUME NEW s, s \in Seq(Range(s)), s # <<>>
  PROVE  /\ Tail(s) \in Seq(Range(Tail(s))) /\ Head(s) = s[1] /\ 1 \in DOMAIN s
         /\ Len(s) \in Nat /\ Len(s) > 0 /\ DOMAIN s = 1 .. Len(s)
         /\ DOMAIN Tail(s) = 1 .. Len(s) - 1
         /\ \A i \in DOMAIN Tail(s) : i + 1 \in DOMAIN s /\ Tail(s)[i] = s[i + 1]
<1>1. Len(s) \in Nat /\ DOMAIN s = 1 .. Len(s) /\ Len(s) > 0
  BY SeqFacts
<1>2. /\ Head(s) \in Range(s) /\ Tail(s) \in Seq(Range(s))
      /\ Len(Tail(s)) = Len(s) - 1
      /\ \A i \in 1 .. Len(Tail(s)) : Tail(s)[i] = s[i + 1]
  BY HeadTailProperties
<1>3. Tail(s) \in Seq(Range(Tail(s))) /\ DOMAIN Tail(s) = 1 .. Len(Tail(s))
  BY <1>2, SeqOfRange, LenProperties
<1>4. Head(s) = s[1]
  BY <1>1
<1> QED BY <1>1, <1>2, <1>3, <1>4

(* The queue of a compaction: a directory, files to write, and one or two   *)
(* sets of files to remove.                                                 *)
LEMMA PairFacts ==
  ASSUME NEW a, NEW b
  PROVE  /\ <<a, b>> \in Seq({a, b}) /\ Len(<<a, b>>) = 2
         /\ DOMAIN <<a, b>> = 1 .. 2 /\ <<a, b>>[1] = a /\ <<a, b>>[2] = b
OBVIOUS

LEMMA SingleFacts ==
  ASSUME NEW a
  PROVE  /\ <<a>> \in Seq({a}) /\ Len(<<a>>) = 1
         /\ DOMAIN <<a>> = {1} /\ <<a>>[1] = a
OBVIOUS


FilesOf(S) == {File(0, t) : t \in S}

LEMMA QueueFacts ==
  ASSUME NEW l, NEW new, NEW S, NEW rem \in Seq(S)
  PROVE  /\ WriteThenRemove(l, new, rem) \in Seq(Range(WriteThenRemove(l, new, rem)))
         /\ Len(rem) \in Nat /\ DOMAIN WriteThenRemove(l, new, rem) = 1 .. Len(rem) + 2
         /\ WriteThenRemove(l, new, rem)[1] = MakeDir(l)
         /\ WriteThenRemove(l, new, rem)[2] = WriteAll(l, FilesOf(new))
         /\ \A i \in 1 .. Len(rem) : WriteThenRemove(l, new, rem)[i + 2] = rem[i]
<1> DEFINE a == MakeDir(l)
           b == WriteAll(l, FilesOf(new))
           q == WriteThenRemove(l, new, rem)
           T == {a, b} \cup S
<1>1. <<a, b>> \in Seq(T) /\ rem \in Seq(T) /\ Len(rem) \in Nat
  <2> HIDE DEF a, b
  <2>1. <<a, b>> \in Seq({a, b})
    BY PairFacts
  <2>2. Len(rem) \in Nat
    BY LenProperties
  <2> QED BY <2>1, <2>2, SeqMonotonic
<1>2. q = <<a, b>> \o rem
  BY DEF WriteThenRemove, FilesOf
<1> HIDE DEF a, b, q, T
<1>3. Len(<<a, b>>) = 2 /\ <<a, b>>[1] = a /\ <<a, b>>[2] = b
  OBVIOUS
<1>4. /\ q \in Seq(T) /\ Len(q) = 2 + Len(rem)
      /\ \A i \in 1 .. 2 + Len(rem) : q[i] = IF i <= 2 THEN <<a, b>>[i] ELSE rem[i - 2]
  BY <1>1, <1>2, <1>3, ConcatProperties
<1>5. q \in Seq(Range(q)) /\ DOMAIN q = 1 .. Len(q)
  BY <1>4, SeqOfRange, LenProperties
<1>6. ASSUME NEW i \in 1 .. Len(rem)
      PROVE  q[i + 2] = rem[i]
  <2>1. i + 2 \in 1 .. 2 + Len(rem) /\ ~(i + 2 <= 2) /\ (i + 2) - 2 = i
    BY <1>1
  <2> QED BY <1>4, <2>1
<1>7. q[1] = a /\ q[2] = b
  BY <1>1, <1>3, <1>4
<1>8. DOMAIN q = 1 .. Len(rem) + 2
  BY <1>1, <1>4, <1>5
<1> QED BY <1>1, <1>5, <1>6, <1>7, <1>8 DEF a, b, q

------------------------------------------------------------------------------
(* The invariant of the files *)

IsOp(o, n) ==
  \/ o = MakeDir(o.level) /\ o.level \in Nat
  \/ /\ o = WriteAll(o.level, o.files) /\ o.level \in Nat
     /\ IsFiniteSet(o.files)
     /\ \A f \in o.files : IsTable(f.table, Keys, n) /\ (o.level # 0 => f.slot = 0)
  \/ /\ o = RemoveAll(o.level, o.tables) /\ o.level \in Nat
     /\ \A t \in o.tables : IsTable(t, Keys, n)
  \/ o = Wipe

(* What is on file, what is to come and what is to go; and so what will be  *)
(* on file when the queue is done.                                          *)
OnFile(l, t)   == l \in DOMAIN disk /\ \E f \in disk[l] : f.table = t
ToWrite(l, t)  == \E i \in DOMAIN io : /\ io[i].op = "write" /\ io[i].level = l
                                       /\ \E f \in io[i].files : f.table = t
ToRemove(l, t) == \E i \in DOMAIN io : /\ io[i].op = "remove" /\ io[i].level = l
                                       /\ t \in io[i].tables
WillBe(l, t)   == (OnFile(l, t) /\ ~ToRemove(l, t)) \/ ToWrite(l, t)

DiskOK ==
  /\ \E b \in Nat : DOMAIN disk \subseteq 0 .. b
  /\ disk = [l \in DOMAIN disk |-> disk[l]]
  /\ \A l \in DOMAIN disk : IsFiniteSet(disk[l]) /\ \A f \in disk[l] : Made(f.table)

(* Files are written into a directory that exists by then, and none is      *)
(* written and removed by the same function; wiping is done alone.          *)
IoOK ==
  /\ io \in Seq(Range(io)) /\ \A i \in DOMAIN io : IsOp(io[i], Stamps)
  /\ \A i \in DOMAIN io : io[i].op = "wipe" => DOMAIN io = {1}
  /\ \A i \in DOMAIN io : io[i].op = "write" =>
       \/ i = 1 /\ io[1].level \in DOMAIN disk
       \/ i = 2 /\ io[1] = MakeDir(io[2].level)
  /\ \A l, t : ~(ToWrite(l, t) /\ ToRemove(l, t))

Wiping == io # <<>> /\ io[1].op = "wipe"

Follows ==
  /\ ~Wiping => \A l \in Nat \ {0} : \A t :
       /\ t \in TablesOf(l) /\ t \notin loaded => WillBe(l, t)
       /\ WillBe(l, t) => t \in TablesOf(l)
  /\ Wiping => \A l \in Nat \ {0} : TablesOf(l) \subseteq loaded

LEMMA OpFacts ==
  ASSUME NEW o, NEW n, IsOp(o, n)
  PROVE  /\ o.op \in {"mkdir", "write", "remove", "wipe"}
         /\ o.op = "mkdir" => o = MakeDir(o.level) /\ o.level \in Nat
         /\ o.op = "write" =>
              /\ o = WriteAll(o.level, o.files) /\ o.level \in Nat /\ IsFiniteSet(o.files)
              /\ \A f \in o.files : IsTable(f.table, Keys, n) /\ (o.level # 0 => f.slot = 0)
         /\ o.op = "remove" =>
              /\ o = RemoveAll(o.level, o.tables) /\ o.level \in Nat
              /\ \A t \in o.tables : IsTable(t, Keys, n)
         /\ o.op = "wipe" => o = Wipe
<1>1. /\ \A l : MakeDir(l).op = "mkdir"
      /\ \A l, S : WriteAll(l, S).op = "write"
      /\ \A l, S : RemoveAll(l, S).op = "remove"
      /\ Wipe.op = "wipe"
  BY DEF MakeDir, WriteAll, RemoveAll, Wipe
<1>2. CASE o = MakeDir(o.level) /\ o.level \in Nat
  <2>1. o.op = "mkdir"
    BY <1>1, <1>2
  <2> QED BY <1>2, <2>1
<1>3. CASE /\ o = WriteAll(o.level, o.files) /\ o.level \in Nat
           /\ IsFiniteSet(o.files)
           /\ \A f \in o.files : IsTable(f.table, Keys, n) /\ (o.level # 0 => f.slot = 0)
  <2>1. o.op = "write"
    BY <1>1, <1>3
  <2> QED BY <1>3, <2>1
<1>4. CASE /\ o = RemoveAll(o.level, o.tables) /\ o.level \in Nat
           /\ \A t \in o.tables : IsTable(t, Keys, n)
  <2>1. o.op = "remove"
    BY <1>1, <1>4
  <2> QED BY <1>4, <2>1
<1>5. CASE o = Wipe
  <2>1. o.op = "wipe"
    BY <1>1, <1>5
  <2> QED BY <1>5, <2>1
<1> QED BY <1>2, <1>3, <1>4, <1>5 DEF IsOp

------------------------------------------------------------------------------
(* The file operations, one by one *)

Op1 == io[1]

(* What every operation but wiping keeps. *)
Kept1 == /\ DiskOK' /\ IoOK' /\ ~Wiping /\ ~Wiping'
         /\ \A l \in Nat \ {0} : \A t : WillBe(l, t)' <=> WillBe(l, t)
         /\ \A l, t : /\ OnFile(l, t)' => OnFile(l, t) \/ ToWrite(l, t)
                      /\ ToWrite(l, t)' => ToWrite(l, t)

LEMMA FirstOp ==
  ASSUME IoOK, io # <<>>
  PROVE  /\ Todo = Op1 /\ 1 \in DOMAIN io /\ IsOp(Op1, Stamps)
         /\ Len(io) \in Nat /\ Len(io) > 0 /\ DOMAIN io = 1 .. Len(io)
         /\ \A i \in DOMAIN io : i > 1 => io[i].op # "wipe"
         /\ Wiping <=> Op1.op = "wipe"
<1>1. io \in Seq(Range(io)) /\ (\A i \in DOMAIN io : IsOp(io[i], Stamps))
  BY DEF IoOK
<1>2. Head(io) = io[1] /\ 1 \in DOMAIN io /\ Len(io) \in Nat /\ Len(io) > 0 /\ DOMAIN io = 1 .. Len(io)
  BY <1>1, TailFacts
<1>3. ASSUME NEW i \in DOMAIN io, i > 1
      PROVE  io[i].op # "wipe"
  <2>1. io[i].op = "wipe" => DOMAIN io = {1}
    BY DEF IoOK
  <2> QED BY <1>2, <1>3, <2>1
<1> QED BY <1>1, <1>2, <1>3 DEF Todo, Op1, Wiping

LEMMA NextOp ==
  ASSUME IoOK, io # <<>>, io' = Tail(io)
  PROVE  /\ io' \in Seq(Range(io')) /\ \A i \in DOMAIN io' : IsOp(io'[i], Stamps) /\ io'[i].op # "wipe"
         /\ ~Wiping'
         /\ \A i \in DOMAIN io' : io'[i].op = "write" =>
              i = 1 /\ Op1 = MakeDir(io'[1].level)
         /\ \A l, t : ToWrite(l, t) <=>
              \/ Op1.op = "write" /\ Op1.level = l /\ \E f \in Op1.files : f.table = t
              \/ ToWrite(l, t)'
         /\ \A l, t : ToRemove(l, t) <=>
              \/ Op1.op = "remove" /\ Op1.level = l /\ t \in Op1.tables
              \/ ToRemove(l, t)'
<1>1. io \in Seq(Range(io)) /\ (\A i \in DOMAIN io : IsOp(io[i], Stamps))
  BY DEF IoOK
<1>2. /\ Tail(io) \in Seq(Range(Tail(io))) /\ 1 \in DOMAIN io
      /\ Len(io) \in Nat /\ DOMAIN io = 1 .. Len(io)
      /\ DOMAIN Tail(io) = 1 .. Len(io) - 1
      /\ \A i \in DOMAIN Tail(io) : i + 1 \in DOMAIN io /\ Tail(io)[i] = io[i + 1]
  BY <1>1, TailFacts
<1>3. /\ io' \in Seq(Range(io')) /\ DOMAIN io' = 1 .. Len(io) - 1
      /\ \A i \in DOMAIN io' : i + 1 \in DOMAIN io /\ io'[i] = io[i + 1]
  BY <1>2
<1>4. ASSUME NEW i \in DOMAIN io'
      PROVE  IsOp(io'[i], Stamps) /\ io'[i].op # "wipe"
  <2>1. i + 1 \in DOMAIN io /\ io'[i] = io[i + 1] /\ i + 1 > 1
    BY <1>3, <1>2
  <2> QED BY <1>1, <2>1, FirstOp
<1>5. ~Wiping'
  <2>1. io' # <<>> => 1 \in DOMAIN io'
    BY <1>3, SeqFacts
  <2> QED BY <1>4, <2>1 DEF Wiping
<1>6. ASSUME NEW i \in DOMAIN io', io'[i].op = "write"
      PROVE  i = 1 /\ Op1 = MakeDir(io'[1].level)
  <2>1. i + 1 \in DOMAIN io /\ io'[i] = io[i + 1] /\ i \in Nat /\ i > 0
    BY <1>3, <1>2
  <2>2. io[i + 1].op = "write"
    BY <1>6, <2>1
  <2>3. i + 1 = 2 /\ io[1] = MakeDir(io[2].level)
    BY <2>1, <2>2 DEF IoOK
  <2>4. i = 1
    BY <2>1, <2>3
  <2> QED BY <2>1, <2>3, <2>4 DEF Op1
<1>7. \A j \in DOMAIN io : j = 1 \/ (j - 1 \in DOMAIN io' /\ io'[j - 1] = io[j])
  <2> SUFFICES ASSUME NEW j \in DOMAIN io, j # 1
               PROVE  j - 1 \in DOMAIN io' /\ io'[j - 1] = io[j]
    OBVIOUS
  <2>1. j \in Nat /\ j - 1 \in DOMAIN io' /\ (j - 1) + 1 = j
    BY <1>2, <1>3
  <2> QED BY <1>3, <2>1
<1>8. ASSUME NEW l, NEW t
      PROVE  /\ ToWrite(l, t) <=>
                  \/ Op1.op = "write" /\ Op1.level = l /\ \E f \in Op1.files : f.table = t
                  \/ ToWrite(l, t)'
             /\ ToRemove(l, t) <=>
                  \/ Op1.op = "remove" /\ Op1.level = l /\ t \in Op1.tables
                  \/ ToRemove(l, t)'
  <2>1. ASSUME ToWrite(l, t)
        PROVE  \/ Op1.op = "write" /\ Op1.level = l /\ \E f \in Op1.files : f.table = t
               \/ ToWrite(l, t)'
    <3>1. PICK i \in DOMAIN io : /\ io[i].op = "write" /\ io[i].level = l
                                 /\ \E f \in io[i].files : f.table = t
      BY <2>1 DEF ToWrite
    <3>2. CASE i = 1
      BY <3>1, <3>2 DEF Op1
    <3>3. CASE i # 1
      <4>1. i - 1 \in DOMAIN io' /\ io'[i - 1] = io[i]
        BY <1>7, <3>3
      <4>2. /\ io'[i - 1].op = "write" /\ io'[i - 1].level = l
            /\ \E f \in io'[i - 1].files : f.table = t
        BY <3>1, <4>1
      <4> QED BY <4>1, <4>2 DEF ToWrite
    <3> QED BY <3>2, <3>3
  <2>2. ASSUME ToRemove(l, t)
        PROVE  \/ Op1.op = "remove" /\ Op1.level = l /\ t \in Op1.tables
               \/ ToRemove(l, t)'
    <3>1. PICK i \in DOMAIN io : io[i].op = "remove" /\ io[i].level = l /\ t \in io[i].tables
      BY <2>2 DEF ToRemove
    <3>2. CASE i = 1
      BY <3>1, <3>2 DEF Op1
    <3>3. CASE i # 1
      <4>1. i - 1 \in DOMAIN io' /\ io'[i - 1] = io[i]
        BY <1>7, <3>3
      <4>2. io'[i - 1].op = "remove" /\ io'[i - 1].level = l /\ t \in io'[i - 1].tables
        BY <3>1, <4>1
      <4> QED BY <4>1, <4>2 DEF ToRemove
    <3> QED BY <3>2, <3>3
  <2>3. ASSUME ToWrite(l, t)'
        PROVE  ToWrite(l, t)
    <3>1. PICK i \in DOMAIN io' : /\ io'[i].op = "write" /\ io'[i].level = l
                                  /\ \E f \in io'[i].files : f.table = t
      BY <2>3 DEF ToWrite
    <3>2. i + 1 \in DOMAIN io /\ io'[i] = io[i + 1]
      BY <1>3
    <3>3. /\ io[i + 1].op = "write" /\ io[i + 1].level = l
          /\ \E f \in io[i + 1].files : f.table = t
      BY <3>1, <3>2
    <3> QED BY <3>2, <3>3 DEF ToWrite
  <2>4. ASSUME ToRemove(l, t)'
        PROVE  ToRemove(l, t)
    <3>1. PICK i \in DOMAIN io' : io'[i].op = "remove" /\ io'[i].level = l /\ t \in io'[i].tables
      BY <2>4 DEF ToRemove
    <3>2. i + 1 \in DOMAIN io /\ io'[i] = io[i + 1]
      BY <1>3
    <3>3. io[i + 1].op = "remove" /\ io[i + 1].level = l /\ t \in io[i + 1].tables
      BY <3>1, <3>2
    <3> QED BY <3>2, <3>3 DEF ToRemove
  <2>5. (Op1.op = "write" /\ Op1.level = l /\ \E f \in Op1.files : f.table = t) => ToWrite(l, t)
    BY <1>2 DEF ToWrite, Op1
  <2>6. (Op1.op = "remove" /\ Op1.level = l /\ t \in Op1.tables) => ToRemove(l, t)
    BY <1>2 DEF ToRemove, Op1
  <2> QED BY <2>1, <2>2, <2>3, <2>4, <2>5, <2>6
<1> QED BY <1>3, <1>4, <1>5, <1>6, <1>8

(* The first operation is changed and stays what it is. *)
Shrinks(e) ==
  /\ io' = [io EXCEPT ![1] = e] /\ timeId' = timeId
  /\ IsOp(e, Stamps) /\ e.op = Op1.op /\ e.level = Op1.level
  /\ Op1.op # "wipe" /\ Op1.op # "mkdir"
  /\ Op1.op = "write" => e.files \subseteq Op1.files
  /\ Op1.op = "remove" => e.tables \subseteq Op1.tables
  /\ Op1.level \in DOMAIN disk => Op1.level \in DOMAIN disk'

LEMMA SameOp ==
  ASSUME IoOK, io # <<>>, NEW e, Shrinks(e)
  PROVE  /\ IoOK' /\ ~Wiping'
         /\ \A l, t : ToWrite(l, t)' <=>
              \/ e.op = "write" /\ e.level = l /\ \E f \in e.files : f.table = t
              \/ \E i \in DOMAIN io \ {1} : /\ io[i].op = "write" /\ io[i].level = l
                                            /\ \E f \in io[i].files : f.table = t
         /\ \A l, t : ToRemove(l, t)' <=>
              \/ e.op = "remove" /\ e.level = l /\ t \in e.tables
              \/ \E i \in DOMAIN io \ {1} : /\ io[i].op = "remove" /\ io[i].level = l
                                            /\ t \in io[i].tables
<1>0. /\ io' = [io EXCEPT ![1] = e] /\ timeId' = timeId
      /\ IsOp(e, Stamps) /\ e.op = Op1.op /\ e.level = Op1.level
      /\ Op1.op # "wipe" /\ Op1.op # "mkdir"
      /\ Op1.op = "write" => e.files \subseteq Op1.files
      /\ Op1.op = "remove" => e.tables \subseteq Op1.tables
      /\ Op1.level \in DOMAIN disk => Op1.level \in DOMAIN disk'
  BY DEF Shrinks
<1>1. io \in Seq(Range(io)) /\ (\A i \in DOMAIN io : IsOp(io[i], Stamps)) /\ 1 \in DOMAIN io
  BY FirstOp DEF IoOK
<1>2. /\ io' \in Seq(Range(io')) /\ DOMAIN io' = DOMAIN io
      /\ \A j \in DOMAIN io : io'[j] = IF j = 1 THEN e ELSE io[j]
  BY <1>0, <1>1, ReplaceFacts
<1>3. io'[1] = e /\ \A j \in DOMAIN io \ {1} : io'[j] = io[j]
  BY <1>1, <1>2
<1>4. \A i \in DOMAIN io' : IsOp(io'[i], Stamps) /\ io'[i].op = io[i].op
  BY <1>0, <1>1, <1>2 DEF Op1
<1>5. ASSUME NEW i \in DOMAIN io', io'[i].op = "wipe"
      PROVE  DOMAIN io' = {1}
  BY <1>2, <1>4, <1>5 DEF IoOK
<1>6. ASSUME NEW i \in DOMAIN io', io'[i].op = "write"
      PROVE  \/ i = 1 /\ io'[1].level \in DOMAIN disk'
             \/ i = 2 /\ io'[1] = MakeDir(io'[2].level)
  <2>1. i \in DOMAIN io /\ io[i].op = "write"
    BY <1>2, <1>4, <1>6
  <2>2. \/ i = 1 /\ io[1].level \in DOMAIN disk
        \/ i = 2 /\ io[1] = MakeDir(io[2].level)
    BY <2>1 DEF IoOK
  <2>3. io[1] # MakeDir(io[2].level)
    BY <1>0 DEF Op1, MakeDir
  <2> QED BY <1>0, <1>3, <2>2, <2>3 DEF Op1
<1>7. ASSUME NEW l, NEW t
      PROVE  /\ ToWrite(l, t)' <=>
                  \/ e.op = "write" /\ e.level = l /\ \E f \in e.files : f.table = t
                  \/ \E i \in DOMAIN io \ {1} : /\ io[i].op = "write" /\ io[i].level = l
                                                /\ \E f \in io[i].files : f.table = t
             /\ ToRemove(l, t)' <=>
                  \/ e.op = "remove" /\ e.level = l /\ t \in e.tables
                  \/ \E i \in DOMAIN io \ {1} : /\ io[i].op = "remove" /\ io[i].level = l
                                                /\ t \in io[i].tables
  <2>1. ToWrite(l, t)' <=> \E i \in DOMAIN io : /\ io'[i].op = "write" /\ io'[i].level = l
                                                /\ \E f \in io'[i].files : f.table = t
    BY <1>2 DEF ToWrite
  <2>2. ToRemove(l, t)' <=> \E i \in DOMAIN io : /\ io'[i].op = "remove" /\ io'[i].level = l
                                                 /\ t \in io'[i].tables
    BY <1>2 DEF ToRemove
  <2> QED BY <1>1, <1>3, <2>1, <2>2
<1>8. ASSUME NEW l, NEW t
      PROVE  (ToWrite(l, t)' => ToWrite(l, t)) /\ (ToRemove(l, t)' => ToRemove(l, t))
  <2>1. e.op = "write" /\ e.level = l /\ (\E f \in e.files : f.table = t) => ToWrite(l, t)
    BY <1>0, <1>1 DEF ToWrite, Op1
  <2>2. e.op = "remove" /\ e.level = l /\ t \in e.tables => ToRemove(l, t)
    BY <1>0, <1>1 DEF ToRemove, Op1
  <2>3. (\E i \in DOMAIN io \ {1} : /\ io[i].op = "write" /\ io[i].level = l
                                    /\ \E f \in io[i].files : f.table = t) => ToWrite(l, t)
    BY DEF ToWrite
  <2>4. (\E i \in DOMAIN io \ {1} : /\ io[i].op = "remove" /\ io[i].level = l
                                    /\ t \in io[i].tables) => ToRemove(l, t)
    BY DEF ToRemove
  <2> QED BY <1>7, <2>1, <2>2, <2>3, <2>4
<1>9. \A l, t : ~(ToWrite(l, t)' /\ ToRemove(l, t)')
  BY <1>8 DEF IoOK
<1>10. ~Wiping'
  BY <1>0, <1>3 DEF Wiping
<1>11. IoOK'
  <2>1. io' \in Seq(Range(io')) /\ \A i \in DOMAIN io' : IsOp(io'[i], Stamps)
    BY <1>2, <1>4
  <2>2. Stamps' = Stamps
    BY <1>0 DEF Stamps
  <2>3. \A i \in DOMAIN io' : io'[i].op = "wipe" => DOMAIN io' = {1}
    BY <1>5
  <2>4. \A i \in DOMAIN io' : io'[i].op = "write" =>
          \/ i = 1 /\ io'[1].level \in DOMAIN disk'
          \/ i = 2 /\ io'[1] = MakeDir(io'[2].level)
    BY <1>6
  <2> QED BY <1>9, <2>1, <2>2, <2>3, <2>4, Zenon DEF IoOK
<1> QED BY <1>7, <1>10, <1>11

LEMMA NextIo ==
  ASSUME IoOK, io # <<>>, io' = Tail(io), timeId' = timeId,
         Op1.op = "mkdir" => Op1.level \in DOMAIN disk'
  PROVE  IoOK'
<1>1. /\ io' \in Seq(Range(io')) /\ \A i \in DOMAIN io' : IsOp(io'[i], Stamps) /\ io'[i].op # "wipe"
      /\ \A i \in DOMAIN io' : io'[i].op = "write" => i = 1 /\ Op1 = MakeDir(io'[1].level)
  BY NextOp
<1>2. \A l, t : (ToWrite(l, t)' => ToWrite(l, t)) /\ (ToRemove(l, t)' => ToRemove(l, t))
  BY NextOp
<1>3. \A l, t : ~(ToWrite(l, t)' /\ ToRemove(l, t)')
  BY <1>2 DEF IoOK
<1>4. ASSUME NEW i \in DOMAIN io', io'[i].op = "write"
      PROVE  \/ i = 1 /\ io'[1].level \in DOMAIN disk'
             \/ i = 2 /\ io'[1] = MakeDir(io'[2].level)
  <2>1. i = 1 /\ Op1 = MakeDir(io'[1].level)
    BY <1>1, <1>4
  <2>2. Op1.op = "mkdir" /\ Op1.level = io'[1].level
    BY <2>1 DEF MakeDir
  <2> QED BY <2>1, <2>2
<1>5. Stamps' = Stamps
  BY DEF Stamps
<1>6. \A i \in DOMAIN io' : IsOp(io'[i], Stamps) /\ (io'[i].op = "wipe" => DOMAIN io' = {1})
  BY <1>1
<1> QED BY <1>1, <1>3, <1>4, <1>5, <1>6, Zenon DEF IoOK

(* A function with one value changed or added. *)
LEMMA DiskChange ==
  ASSUME DiskOK, NEW l \in Nat, NEW S, IsFiniteSet(S), \A f \in S : Made(f.table),
         timeId' = timeId,
         disk' = [d \in DOMAIN disk \cup {l} |-> IF d = l THEN S ELSE disk[d]]
  PROVE  /\ DiskOK' /\ DOMAIN disk' = DOMAIN disk \cup {l}
         /\ \A d, t : OnFile(d, t)' <=> IF d = l THEN \E f \in S : f.table = t ELSE OnFile(d, t)
<1>1. /\ DOMAIN disk' = DOMAIN disk \cup {l}
      /\ \A d \in DOMAIN disk' : disk'[d] = IF d = l THEN S ELSE disk[d]
      /\ disk' = [d \in DOMAIN disk' |-> disk'[d]]
  OBVIOUS
<1>2. PICK b \in Nat : DOMAIN disk \subseteq 0 .. b
  BY DEF DiskOK
<1>3. \E c \in Nat : DOMAIN disk' \subseteq 0 .. c
  <2>1. CASE l <= b
    <3>1. DOMAIN disk' \subseteq 0 .. b
      BY <1>1, <1>2, <2>1
    <3> QED BY <3>1
  <2>2. CASE ~(l <= b)
    <3>1. DOMAIN disk' \subseteq 0 .. l
      BY <1>1, <1>2, <2>2
    <3> QED BY <3>1
  <2> QED BY <2>1, <2>2
<1>4. Stamps' = Stamps
  BY DEF Stamps
<1>5. ASSUME NEW d \in DOMAIN disk'
      PROVE  IsFiniteSet(disk'[d]) /\ \A f \in disk'[d] : IsTable(f.table, Keys, Stamps')
  <2>1. CASE d = l
    BY <1>1, <1>4, <2>1 DEF Made
  <2>2. CASE d # l
    <3>1. d \in DOMAIN disk /\ disk'[d] = disk[d]
      BY <1>1, <2>2
    <3> QED BY <1>4, <3>1 DEF DiskOK, Made
  <2> QED BY <2>1, <2>2
<1>6. DiskOK'
  BY <1>1, <1>3, <1>5 DEF DiskOK, Made
<1>7. \A d, t : OnFile(d, t)' <=> IF d = l THEN \E f \in S : f.table = t ELSE OnFile(d, t)
  BY <1>1 DEF OnFile
<1> QED BY <1>1, <1>6, <1>7

LEMMA MkdirKeeps ==
  ASSUME DiskOK, IoOK, io # <<>>, Mkdir, timeId' = timeId
  PROVE  Kept1
<1>1. Op1.op = "mkdir" /\ io' = Tail(io) /\ IsOp(Op1, Stamps) /\ ~Wiping
  BY FirstOp DEF Mkdir
<1>2. Op1.level \in Nat
  BY <1>1, OpFacts
<1> DEFINE l == Op1.level
           S == IF l \in DOMAIN disk THEN disk[l] ELSE {}
<1>3. disk' = Overriding(disk, [d \in {l} |-> {}])
  BY FirstOp DEF Mkdir
<1>4. disk' = [d \in DOMAIN disk \cup {l} |-> IF d = l THEN S ELSE disk[d]]
  BY <1>3 DEF Overriding
<1>5. IsFiniteSet(S) /\ \A f \in S : Made(f.table)
  BY FS_EmptySet DEF DiskOK
<1>6. \A t : (\E f \in S : f.table = t) <=> OnFile(l, t)
  BY DEF OnFile
<1> HIDE DEF l, S
<1>7. /\ DiskOK' /\ DOMAIN disk' = DOMAIN disk \cup {l}
      /\ \A d, t : OnFile(d, t)' <=> IF d = l THEN \E f \in S : f.table = t ELSE OnFile(d, t)
  <2>1. l \in Nat
    BY <1>2 DEF l
  <2> QED BY <1>4, <1>5, <2>1, DiskChange
<1>8. IoOK'
  <2>1. Op1.level \in DOMAIN disk'
    BY <1>7 DEF l
  <2> QED BY <1>1, <2>1, NextIo
<1>9. ASSUME NEW d, NEW t
      PROVE  /\ WillBe(d, t)' <=> WillBe(d, t)
             /\ OnFile(d, t)' => OnFile(d, t)
             /\ ToWrite(d, t)' => ToWrite(d, t)
  <2>1. OnFile(d, t)' <=> OnFile(d, t)
    BY <1>6, <1>7
  <2>2. (ToWrite(d, t)' <=> ToWrite(d, t)) /\ (ToRemove(d, t)' <=> ToRemove(d, t))
    BY <1>1, NextOp
  <2> QED BY <2>1, <2>2 DEF WillBe
<1>10. ~Wiping'
  BY <1>1, NextOp
<1> QED BY <1>1, <1>7, <1>8, <1>9, <1>10 DEF Kept1

LEMMA DoneKeeps ==
  ASSUME DiskOK, IoOK, io # <<>>, OperationDone, ~Wiping, timeId' = timeId
  PROVE  Kept1
<1>1. /\ io' = Tail(io) /\ disk' = disk /\ IsOp(Op1, Stamps)
      /\ \/ Op1.op = "write" /\ Op1.files = {}
         \/ Op1.op = "remove" /\ Op1.tables = {}
  BY FirstOp DEF OperationDone
<1>2. DiskOK'
  <2>1. Stamps' = Stamps
    BY DEF Stamps
  <2>2. \A l \in DOMAIN disk : IsFiniteSet(disk[l]) /\ \A f \in disk[l] : IsTable(f.table, Keys, Stamps')
    BY <2>1 DEF DiskOK, Made
  <2>3. /\ \E b \in Nat : DOMAIN disk \subseteq 0 .. b
        /\ disk = [l \in DOMAIN disk |-> disk[l]]
    BY DEF DiskOK
  <2> QED BY <1>1, <2>2, <2>3 DEF DiskOK, Made
<1>3. IoOK'
  BY <1>1, NextIo
<1>4. ASSUME NEW d, NEW t
      PROVE  /\ WillBe(d, t)' <=> WillBe(d, t)
             /\ OnFile(d, t)' => OnFile(d, t)
             /\ ToWrite(d, t)' => ToWrite(d, t)
  <2>1. OnFile(d, t)' <=> OnFile(d, t)
    BY <1>1 DEF OnFile
  <2>2. (ToWrite(d, t)' <=> ToWrite(d, t)) /\ (ToRemove(d, t)' <=> ToRemove(d, t))
    BY <1>1, NextOp
  <2> QED BY <2>1, <2>2 DEF WillBe
<1>5. ~Wiping'
  BY <1>1, NextOp
<1> QED BY <1>2, <1>3, <1>4, <1>5 DEF Kept1

(* What removing one file does to the files and to the queue. *)
LEMMA RemoveShape ==
  ASSUME IoOK, io # <<>>, RemoveOne, Stamps \in Nat
  PROVE  /\ Op1.op = "remove" /\ 1 \in DOMAIN io /\ ~Wiping
         /\ Op1.level \in Nat /\ \A t \in Op1.tables : IsTable(t, Keys, Stamps)
         /\ \E u \in Op1.tables :
              /\ disk' = IF Op1.level \in DOMAIN disk
                         THEN [disk EXCEPT ![Op1.level] = {f \in disk[Op1.level] : f.table # u}]
                         ELSE disk
              /\ io' = [io EXCEPT ![1] = RemoveAll(Op1.level, Op1.tables \ {u})]
<1> DEFINE l == Op1.level
           T == Op1.tables
           gone == CHOOSE t \in T : \A u \in T : ~Older(u, t)
           e == RemoveAll(l, T \ {gone})
           S == {f \in disk[l] : f.table # gone}
<1>1. Op1.op = "remove" /\ T # {} /\ IsOp(Op1, Stamps) /\ Todo = Op1 /\ 1 \in DOMAIN io /\ ~Wiping
  BY FirstOp DEF RemoveOne
<1>2. Op1 = RemoveAll(l, T) /\ l \in Nat /\ \A t \in T : IsTable(t, Keys, Stamps)
  BY <1>1, OpFacts
<1>3. /\ disk' = IF l \in DOMAIN disk THEN [disk EXCEPT ![l] = S] ELSE disk
      /\ io' = [io EXCEPT ![1].tables = @ \ {gone}]
  BY <1>1 DEF RemoveOne
<1>4. gone \in T
  <2>1. \E t \in T : \A u \in T : ~Older(u, t)
    BY <1>1, <1>2, KeysBounded, OldestExists
  <2> QED BY <2>1
<1>5. io' = [io EXCEPT ![1] = e]
  <2>0. Op1 = RemoveAll(l, T)
    BY <1>2
  <2> HIDE DEF l, T, gone
  <2>1. io[1] = [op |-> "remove", level |-> l, tables |-> T]
    BY <2>0 DEF Op1, RemoveAll
  <2>2. [io[1] EXCEPT !.tables = T \ {gone}] = [op |-> "remove", level |-> l, tables |-> T \ {gone}]
    <3> DEFINE X == T \ {gone}
               o == io[1]
    <3> HIDE DEF X, o
    <3>1. o = [op |-> "remove", level |-> l, tables |-> T] =>
            [o EXCEPT !.tables = X] = [op |-> "remove", level |-> l, tables |-> X]
      BY SMT
    <3> QED BY <2>1, <3>1 DEF X, o
  <2>4. io[1].tables = T
    BY <2>1
  <2>3. io' = [io EXCEPT ![1] = [io[1] EXCEPT !.tables = @ \ {gone}]]
    BY <1>3
  <2> QED BY <2>2, <2>3, <2>4 DEF e, RemoveAll
<1> HIDE DEF gone
<1> QED BY <1>1, <1>2, <1>3, <1>4, <1>5

LEMMA RemoveKeeps ==
  ASSUME DiskOK, IoOK, io # <<>>, RemoveOne, timeId' = timeId, Stamps \in Nat
  PROVE  Kept1
<1> DEFINE l == Op1.level
           T == Op1.tables
<1>1. Op1.op = "remove" /\ 1 \in DOMAIN io /\ ~Wiping
  BY RemoveShape
<1>2. l \in Nat /\ \A t \in T : IsTable(t, Keys, Stamps)
  BY RemoveShape
<1>3. PICK gone \in T :
        /\ disk' = IF l \in DOMAIN disk
                   THEN [disk EXCEPT ![l] = {f \in disk[l] : f.table # gone}]
                   ELSE disk
        /\ io' = [io EXCEPT ![1] = RemoveAll(l, T \ {gone})]
  BY RemoveShape
<1> DEFINE e == RemoveAll(l, T \ {gone})
           S == {f \in disk[l] : f.table # gone}
<1>4. gone \in T
  BY <1>3
<1>5. io' = [io EXCEPT ![1] = e]
  BY <1>3
<1>6. /\ e.op = "remove" /\ e.level = l /\ e.tables = T \ {gone}
      /\ IsOp(e, Stamps)
  <2>1. e.op = "remove" /\ e.level = l /\ e.tables = T \ {gone}
    BY DEF RemoveAll
  <2>2. e = RemoveAll(e.level, e.tables) /\ e.level \in Nat /\ \A t \in e.tables : IsTable(t, Keys, Stamps)
    BY <1>2, <2>1
  <2> HIDE DEF e
  <2> QED BY <2>1, <2>2 DEF IsOp
<1>7. /\ DiskOK' /\ DOMAIN disk' = DOMAIN disk
      /\ \A d, t : OnFile(d, t)' <=> OnFile(d, t) /\ ~(d = l /\ t = gone)
  <2>1. CASE l \in DOMAIN disk
    <3>1. disk' = [d \in DOMAIN disk \cup {l} |-> IF d = l THEN S ELSE disk[d]]
      <4>1. disk = [d \in DOMAIN disk |-> disk[d]]
        BY DEF DiskOK
      <4> QED BY <1>3, <2>1, <4>1
    <3>2. IsFiniteSet(S) /\ \A f \in S : Made(f.table)
      <4>1. IsFiniteSet(disk[l]) /\ S \subseteq disk[l]
        BY <2>1 DEF DiskOK
      <4> QED BY <2>1, <4>1, FS_Subset DEF DiskOK
    <3>3. \A t : (\E f \in S : f.table = t) <=> OnFile(l, t) /\ t # gone
      BY <2>1 DEF OnFile
    <3> HIDE DEF S, l
    <3>4. /\ DiskOK' /\ DOMAIN disk' = DOMAIN disk \cup {l}
          /\ \A d, t : OnFile(d, t)' <=> IF d = l THEN \E f \in S : f.table = t ELSE OnFile(d, t)
      <4>1. l \in Nat
        BY <1>2 DEF l
      <4> QED BY <3>1, <3>2, <4>1, DiskChange
    <3> QED BY <2>1, <3>3, <3>4
  <2>2. CASE l \notin DOMAIN disk
    <3>1. disk' = disk /\ Stamps' = Stamps
      BY <1>3, <2>2 DEF Stamps
    <3>2. DiskOK'
      BY <3>1 DEF DiskOK, Made
    <3>3. \A d, t : OnFile(d, t)' <=> OnFile(d, t)
      BY <3>1 DEF OnFile
    <3>4. \A t : ~OnFile(l, t)
      BY <2>2 DEF OnFile
    <3> QED BY <3>1, <3>2, <3>3, <3>4
  <2> QED BY <2>1, <2>2
<1> HIDE DEF e, S
<1>8. /\ IoOK' /\ ~Wiping'
      /\ \A d, t : ToWrite(d, t)' <=>
           \/ e.op = "write" /\ e.level = d /\ \E f \in e.files : f.table = t
           \/ \E i \in DOMAIN io \ {1} : /\ io[i].op = "write" /\ io[i].level = d
                                         /\ \E f \in io[i].files : f.table = t
      /\ \A d, t : ToRemove(d, t)' <=>
           \/ e.op = "remove" /\ e.level = d /\ t \in e.tables
           \/ \E i \in DOMAIN io \ {1} : /\ io[i].op = "remove" /\ io[i].level = d
                                         /\ t \in io[i].tables
  <2>1. /\ io' = [io EXCEPT ![1] = e] /\ IsOp(e, Stamps) /\ e.op = Op1.op /\ e.level = Op1.level
        /\ Op1.op # "wipe" /\ Op1.op # "mkdir" /\ Op1.op # "write"
        /\ Op1.op = "remove" => e.tables \subseteq Op1.tables
        /\ Op1.level \in DOMAIN disk => Op1.level \in DOMAIN disk'
    BY <1>1, <1>5, <1>6, <1>7
  <2>2. Shrinks(e)
    BY <2>1 DEF Shrinks
  <2> QED BY <2>2, SameOp
<1>9. ASSUME NEW d, NEW t
      PROVE  /\ WillBe(d, t)' <=> WillBe(d, t)
             /\ OnFile(d, t)' => OnFile(d, t)
             /\ ToWrite(d, t)' => ToWrite(d, t)
  <2>1. ToWrite(d, t)' <=> ToWrite(d, t)
    <3>1. ToWrite(d, t) <=> \E i \in DOMAIN io \ {1} : /\ io[i].op = "write" /\ io[i].level = d
                                                       /\ \E f \in io[i].files : f.table = t
      BY <1>1 DEF ToWrite, Op1
    <3> QED BY <1>6, <1>8, <3>1
  <2>2. ToRemove(d, t) <=> ToRemove(d, t)' \/ (d = l /\ t = gone)
    <3>1. ToRemove(d, t) <=> \/ l = d /\ t \in T
                             \/ \E i \in DOMAIN io \ {1} : /\ io[i].op = "remove" /\ io[i].level = d
                                                           /\ t \in io[i].tables
      BY <1>1 DEF ToRemove, Op1
    <3>2. ToRemove(d, t)' <=> \/ l = d /\ t \in T \ {gone}
                              \/ \E i \in DOMAIN io \ {1} : /\ io[i].op = "remove" /\ io[i].level = d
                                                            /\ t \in io[i].tables
      BY <1>6, <1>8
    <3> QED BY <1>4, <3>1, <3>2
  <2>3. OnFile(d, t)' <=> OnFile(d, t) /\ ~(d = l /\ t = gone)
    BY <1>7
  <2>4. ~(ToWrite(d, t) /\ ToRemove(d, t))
    BY DEF IoOK
  <2> QED BY <2>1, <2>2, <2>3, <2>4 DEF WillBe
<1> QED BY <1>1, <1>7, <1>8, <1>9 DEF Kept1

(* What writing one file does to the files and to the queue. *)
LEMMA WriteShape ==
  ASSUME IoOK, io # <<>>, WriteOne, Stamps \in Nat
  PROVE  /\ Op1.op = "write" /\ 1 \in DOMAIN io /\ ~Wiping
         /\ Op1.level \in DOMAIN disk /\ Op1.level \in Nat /\ IsFiniteSet(Op1.files)
         /\ \A f \in Op1.files : IsTable(f.table, Keys, Stamps) /\ (Op1.level # 0 => f.slot = 0)
         /\ \E f \in Op1.files :
              /\ disk' = [disk EXCEPT ![Op1.level] =
                           {g \in disk[Op1.level] : f.slot = 0 \/ g.slot # f.slot} \cup {f}]
              /\ io' = [io EXCEPT ![1] = WriteAll(Op1.level, Op1.files \ {f})]
<1> DEFINE l == Op1.level
           F == Op1.files
           first == CHOOSE f \in F : \A g \in F : Smallest(f.table) <= Smallest(g.table)
           G == F \ {first}
           e == WriteAll(l, G)
           S == {g \in disk[l] : first.slot = 0 \/ g.slot # first.slot} \cup {first}
<1>1. Op1.op = "write" /\ F # {} /\ IsOp(Op1, Stamps) /\ Todo = Op1 /\ 1 \in DOMAIN io /\ ~Wiping
  BY FirstOp DEF WriteOne
<1>2. /\ Op1 = WriteAll(l, F) /\ l \in Nat /\ IsFiniteSet(F)
      /\ \A f \in F : IsTable(f.table, Keys, Stamps) /\ (l # 0 => f.slot = 0)
  BY <1>1, OpFacts
<1>3. /\ disk' = [disk EXCEPT ![l] = S]
      /\ io' = [io EXCEPT ![1].files = @ \ {first}]
  BY <1>1 DEF WriteOne
<1>4. first \in F
  <2> DEFINE M == {Smallest(f.table) : f \in F}
  <2>1. M \in SUBSET Nat /\ M # {}
    <3>1. \A f \in F : Smallest(f.table) \in Nat
      BY <1>2, KeysBounded, TableFacts
    <3> QED BY <1>1, <3>1
  <2>2. Min(M) \in M /\ \A x \in M : Min(M) <= x
    <3> HIDE DEF M
    <3> QED BY <2>1, MinInSet
  <2>3. PICK f \in F : Min(M) = Smallest(f.table)
    BY <2>2
  <2>4. \A g \in F : Smallest(f.table) <= Smallest(g.table)
    BY <2>2, <2>3
  <2> QED BY <2>4
<1>5. l \in DOMAIN disk
  <2>1. \/ io[1].level \in DOMAIN disk
        \/ 1 = 2
    BY <1>1 DEF IoOK, Op1
  <2> QED BY <2>1 DEF Op1
<1>6. io' = [io EXCEPT ![1] = e]
  <2>0. Op1 = WriteAll(l, F)
    BY <1>2
  <2> HIDE DEF l, F, first
  <2>1. io[1] = [op |-> "write", level |-> l, files |-> F]
    BY <2>0 DEF Op1, WriteAll
  <2>2. [io[1] EXCEPT !.files = G] = [op |-> "write", level |-> l, files |-> G]
    <3> DEFINE o == io[1]
    <3> HIDE DEF G, o
    <3>1. o = [op |-> "write", level |-> l, files |-> F] =>
            [o EXCEPT !.files = G] = [op |-> "write", level |-> l, files |-> G]
      BY SMT
    <3> QED BY <2>1, <3>1 DEF o
  <2>3. io' = [io EXCEPT ![1] = [io[1] EXCEPT !.files = @ \ {first}]]
    BY <1>3
  <2>4. io[1].files = F
    BY <2>1
  <2> QED BY <2>2, <2>3, <2>4 DEF e, WriteAll
<1> HIDE DEF first
<1> QED BY <1>1, <1>2, <1>3, <1>4, <1>5, <1>6

LEMMA WriteKeeps ==
  ASSUME DiskOK, IoOK, io # <<>>, WriteOne, timeId' = timeId, Stamps \in Nat
  PROVE  Kept1
<1> DEFINE l == Op1.level
           F == Op1.files
<1>1. Op1.op = "write" /\ 1 \in DOMAIN io /\ ~Wiping
  BY WriteShape
<1>2. /\ l \in Nat /\ IsFiniteSet(F)
      /\ \A f \in F : IsTable(f.table, Keys, Stamps) /\ (l # 0 => f.slot = 0)
  BY WriteShape
<1>3. PICK first \in F :
        /\ disk' = [disk EXCEPT ![l] = {g \in disk[l] : first.slot = 0 \/ g.slot # first.slot} \cup {first}]
        /\ io' = [io EXCEPT ![1] = WriteAll(l, F \ {first})]
  BY WriteShape
<1> DEFINE G == F \ {first}
           e == WriteAll(l, G)
           S == {g \in disk[l] : first.slot = 0 \/ g.slot # first.slot} \cup {first}
<1>4. first \in F
  BY <1>3
<1>5. l \in DOMAIN disk
  BY WriteShape
<1>6. disk' = [disk EXCEPT ![l] = S] /\ io' = [io EXCEPT ![1] = e]
  BY <1>3
<1>7. /\ e.op = "write" /\ e.level = l /\ e.files = G
      /\ IsOp(e, Stamps) /\ G \subseteq F
  <2>1. e.op = "write" /\ e.level = l /\ e.files = G
    BY DEF WriteAll
  <2>2. /\ e = WriteAll(e.level, e.files) /\ e.level \in Nat /\ IsFiniteSet(e.files)
        /\ \A f \in e.files : IsTable(f.table, Keys, Stamps) /\ (e.level # 0 => f.slot = 0)
    <3>1. IsFiniteSet(G) /\ G \subseteq F
      BY <1>2, FS_Subset
    <3> QED BY <1>2, <2>1, <3>1
  <2> HIDE DEF e
  <2> QED BY <2>1, <2>2 DEF IsOp
<1>8. /\ DiskOK' /\ DOMAIN disk' = DOMAIN disk
      /\ \A d, t : OnFile(d, t)' => OnFile(d, t) \/ (d = l /\ t = first.table)
      /\ \A d, t : d # 0 => (OnFile(d, t)' <=> OnFile(d, t) \/ (d = l /\ t = first.table))
  <2>1. disk' = [d \in DOMAIN disk \cup {l} |-> IF d = l THEN S ELSE disk[d]]
    <3>1. disk = [d \in DOMAIN disk |-> disk[d]]
      BY DEF DiskOK
    <3> HIDE DEF S
    <3> QED BY <1>5, <1>6, <3>1
  <2>2. IsFiniteSet(S) /\ \A f \in S : Made(f.table)
    <3> DEFINE stay == {g \in disk[l] : first.slot = 0 \/ g.slot # first.slot}
    <3>1. IsFiniteSet(disk[l]) /\ stay \subseteq disk[l] /\ \A f \in disk[l] : Made(f.table)
      BY <1>5 DEF DiskOK
    <3>2. IsFiniteSet(stay)
      BY <3>1, FS_Subset
    <3>3. S = stay \cup {first}
      OBVIOUS
    <3>4. Made(first.table)
      BY <1>2, <1>4 DEF Made
    <3> HIDE DEF stay, S
    <3>5. IsFiniteSet(S)
      BY <3>2, <3>3, FS_AddElement
    <3> QED BY <3>1, <3>3, <3>4, <3>5
  <2>3. \A t : (\E f \in S : f.table = t) => OnFile(l, t) \/ t = first.table
    BY <1>5 DEF OnFile
  <2>4. l # 0 => \A t : (\E f \in S : f.table = t) <=> OnFile(l, t) \/ t = first.table
    BY <1>2, <1>4, <1>5 DEF OnFile
  <2>5. l \in Nat
    BY <1>2
  <2> HIDE DEF S, l
  <2>6. /\ DiskOK' /\ DOMAIN disk' = DOMAIN disk \cup {l}
        /\ \A d, t : OnFile(d, t)' <=> IF d = l THEN \E f \in S : f.table = t ELSE OnFile(d, t)
    BY <2>1, <2>2, <2>5, DiskChange
  <2>7. DOMAIN disk' = DOMAIN disk
    BY <1>5, <2>6
  <2> QED BY <2>3, <2>4, <2>6, <2>7
<1> HIDE DEF e, S, G
<1>9. /\ IoOK' /\ ~Wiping'
      /\ \A d, t : ToWrite(d, t)' <=>
           \/ e.op = "write" /\ e.level = d /\ \E f \in e.files : f.table = t
           \/ \E i \in DOMAIN io \ {1} : /\ io[i].op = "write" /\ io[i].level = d
                                         /\ \E f \in io[i].files : f.table = t
      /\ \A d, t : ToRemove(d, t)' <=>
           \/ e.op = "remove" /\ e.level = d /\ t \in e.tables
           \/ \E i \in DOMAIN io \ {1} : /\ io[i].op = "remove" /\ io[i].level = d
                                         /\ t \in io[i].tables
  <2>1. /\ io' = [io EXCEPT ![1] = e] /\ IsOp(e, Stamps) /\ e.op = Op1.op /\ e.level = Op1.level
        /\ Op1.op # "wipe" /\ Op1.op # "mkdir" /\ Op1.op # "remove"
        /\ Op1.op = "write" => e.files \subseteq Op1.files
        /\ Op1.level \in DOMAIN disk => Op1.level \in DOMAIN disk'
    BY <1>1, <1>6, <1>7, <1>8
  <2>2. Shrinks(e)
    BY <2>1 DEF Shrinks
  <2> QED BY <2>2, SameOp
<1>10. \A d, t : ToWrite(d, t) <=>
          \/ l = d /\ \E f \in F : f.table = t
          \/ \E i \in DOMAIN io \ {1} : /\ io[i].op = "write" /\ io[i].level = d
                                        /\ \E f \in io[i].files : f.table = t
  BY <1>1 DEF ToWrite, Op1
<1>11. ASSUME NEW d \in Nat \ {0}, NEW t
       PROVE  WillBe(d, t)' <=> WillBe(d, t)
  <2>1. ToRemove(d, t)' <=> ToRemove(d, t)
    <3>1. ToRemove(d, t) <=> \E i \in DOMAIN io \ {1} : /\ io[i].op = "remove" /\ io[i].level = d
                                                        /\ t \in io[i].tables
      BY <1>1 DEF ToRemove, Op1
    <3> QED BY <1>7, <1>9, <3>1
  <2>2. ToWrite(d, t) <=> ToWrite(d, t)' \/ (d = l /\ t = first.table)
    <3>1. ToWrite(d, t)' <=>
            \/ l = d /\ \E f \in G : f.table = t
            \/ \E i \in DOMAIN io \ {1} : /\ io[i].op = "write" /\ io[i].level = d
                                          /\ \E f \in io[i].files : f.table = t
      BY <1>7, <1>9
    <3>2. (\E f \in F : f.table = t) <=> (\E f \in G : f.table = t) \/ t = first.table
      BY <1>4 DEF G
    <3> QED BY <1>10, <3>1, <3>2
  <2>3. OnFile(d, t)' <=> OnFile(d, t) \/ (d = l /\ t = first.table)
    BY <1>8
  <2>4. ~(ToWrite(d, t) /\ ToRemove(d, t))
    BY DEF IoOK
  <2> QED BY <2>1, <2>2, <2>3, <2>4 DEF WillBe
<1>12. \A d, t : OnFile(d, t)' => OnFile(d, t) \/ ToWrite(d, t)
  BY <1>4, <1>8, <1>10
<1>13. ASSUME NEW d, NEW t, ToWrite(d, t)'
       PROVE  ToWrite(d, t)
  <2>1. (\E f \in G : f.table = t) => (\E f \in F : f.table = t)
    BY <1>7
  <2>2. \/ l = d /\ \E f \in G : f.table = t
        \/ \E i \in DOMAIN io \ {1} : /\ io[i].op = "write" /\ io[i].level = d
                                      /\ \E f \in io[i].files : f.table = t
    BY <1>7, <1>9, <1>13
  <2> QED BY <1>10, <2>1, <2>2
<1> QED BY <1>1, <1>8, <1>9, <1>11, <1>12, <1>13 DEF Kept1

(* A wipe takes files and directories away, and leaves the queue.           *)
LEMMA WipeKeeps ==
  ASSUME DiskOK, IoOK, io # <<>>, WipeOne, timeId' = timeId
  PROVE  /\ Wiping /\ Wiping' /\ DiskOK' /\ IoOK'
         /\ \A l, t : OnFile(l, t)' => OnFile(l, t)
<1>1. Op1.op = "wipe" /\ Wiping /\ 1 \in DOMAIN io /\ io' = io
  BY FirstOp DEF WipeOne
<1>2. DOMAIN io = {1} /\ Wiping'
  BY <1>1 DEF IoOK, Op1, Wiping
<1>3. Stamps' = Stamps
  BY DEF Stamps
<1>4. IoOK'
  <2>1. \A l, t : ~ToWrite(l, t) /\ ~ToRemove(l, t)
    BY <1>1, <1>2 DEF ToWrite, ToRemove, Op1
  <2>2. \A l, t : ~(ToWrite(l, t)' /\ ToRemove(l, t)')
    BY <1>1, <2>1 DEF ToWrite, ToRemove
  <2>3. io \in Seq(Range(io)) /\ \A i \in DOMAIN io : IsOp(io[i], Stamps) /\ io[i].op = "wipe"
    BY <1>1, <1>2 DEF IoOK, Op1
  <2>4. /\ io' \in Seq(Range(io')) /\ (\A i \in DOMAIN io' : IsOp(io'[i], Stamps'))
        /\ (\A i \in DOMAIN io' : io'[i].op = "wipe") /\ DOMAIN io' = {1}
    BY <1>1, <1>2, <1>3, <2>3
  <2> QED BY <2>2, <2>4, Zenon DEF IoOK
<1>5. PICK b \in Nat : DOMAIN disk \subseteq 0 .. b
  BY DEF DiskOK
<1>6. PICK l \in DOMAIN disk :
        IF disk[l] = {} THEN disk' = Restrict(disk, DOMAIN disk \ {l})
        ELSE \E f \in disk[l] : disk' = [disk EXCEPT ![l] = @ \ {f}]
  BY DEF WipeOne
<1>7. /\ DOMAIN disk' \subseteq DOMAIN disk /\ disk' = [d \in DOMAIN disk' |-> disk'[d]]
      /\ \A d \in DOMAIN disk' : disk'[d] \subseteq disk[d]
  <2>1. CASE disk[l] = {}
    BY <1>6, <2>1 DEF Restrict
  <2>2. CASE disk[l] # {}
    <3>1. PICK f \in disk[l] : disk' = [disk EXCEPT ![l] = disk[l] \ {f}]
      BY <1>6, <2>2
    <3> QED BY <3>1 DEF DiskOK
  <2> QED BY <2>1, <2>2
<1>8. DiskOK'
  <2>1. DOMAIN disk' \subseteq 0 .. b
    BY <1>5, <1>7
  <2>2. \A d \in DOMAIN disk' : IsFiniteSet(disk'[d]) /\ \A f \in disk'[d] : IsTable(f.table, Keys, Stamps')
    <3> SUFFICES ASSUME NEW d \in DOMAIN disk'
                 PROVE  IsFiniteSet(disk'[d]) /\ \A f \in disk'[d] : IsTable(f.table, Keys, Stamps')
      OBVIOUS
    <3>1. IsFiniteSet(disk[d]) /\ (\A f \in disk[d] : IsTable(f.table, Keys, Stamps)) /\ disk'[d] \subseteq disk[d]
      BY <1>7 DEF DiskOK, Made
    <3> QED BY <1>3, <3>1, FS_Subset
  <2> QED BY <1>7, <2>1, <2>2 DEF DiskOK, Made
<1>9. \A d, t : OnFile(d, t)' => OnFile(d, t)
  BY <1>7 DEF OnFile
<1> QED BY <1>1, <1>2, <1>4, <1>8, <1>9

LEMMA FileStepKeeps ==
  ASSUME DiskOK, IoOK, Stamps \in Nat, FileStep
  PROVE  /\ UNCHANGED <<vars, loaded, torn, restarts>> /\ io # <<>>
         /\ DiskOK' /\ IoOK'
         /\ \A l, t : /\ OnFile(l, t)' => OnFile(l, t) \/ ToWrite(l, t)
                      /\ ToWrite(l, t)' => ToWrite(l, t)
         /\ ~Wiping => ~Wiping' /\ \A l \in Nat \ {0} : \A t : WillBe(l, t)' <=> WillBe(l, t)
         /\ Wiping => Wiping' \/ (io' = <<>> /\ disk' = <<>>)
<1>1. UNCHANGED <<vars, loaded, torn, restarts>> /\ io # <<>> /\ timeId' = timeId
  BY DEF FileStep, Mkdir, WriteOne, RemoveOne, OperationDone, WipeOne, Idle, vars
<1>2. CASE Mkdir \/ WriteOne \/ RemoveOne \/ (OperationDone /\ ~Wiping)
  <2>1. Kept1
    BY <1>1, <1>2, MkdirKeeps, WriteKeeps, RemoveKeeps, DoneKeeps
  <2> QED BY <1>1, <2>1 DEF Kept1
<1>3. CASE OperationDone /\ Wiping
  <2>1. Op1.op = "wipe" /\ disk = <<>> /\ disk' = <<>> /\ io' = Tail(io) /\ DOMAIN io = {1}
    <3>1. Op1.op = "wipe" /\ Todo = Op1 /\ 1 \in DOMAIN io
      BY <1>1, <1>3, FirstOp
    <3>2. disk = <<>> /\ disk' = disk /\ io' = Tail(io)
      BY <1>3, <3>1 DEF OperationDone
    <3> QED BY <3>1, <3>2 DEF IoOK, Op1
  <2>2. io' = <<>>
    <3>1. io \in Seq(Range(io)) /\ Len(io) \in Nat /\ DOMAIN io = 1 .. Len(io)
      BY <1>1, FirstOp DEF IoOK
    <3>2. Len(io) = 1
      BY <2>1, <3>1
    <3>3. Len(Tail(io)) = 0 /\ Tail(io) \in Seq(Range(io))
      BY <1>1, <3>1, <3>2, HeadTailProperties
    <3> QED BY <2>1, <3>3, EmptySeq
  <2>3. Stamps' = Stamps
    BY <1>1 DEF Stamps
  <2>4. DiskOK'
    BY <2>1, <2>3 DEF DiskOK, Made
  <2>5. IoOK'
    <3>1. Op1.op # "mkdir"
      BY <2>1
    <3> QED BY <1>1, <2>1, <3>1, NextIo
  <2>6. \A l, t : ~OnFile(l, t)' /\ ~ToWrite(l, t)'
    BY <2>1, <2>2, NoTables DEF OnFile, ToWrite
  <2> QED BY <1>1, <1>3, <2>1, <2>2, <2>4, <2>5, <2>6
<1>4. CASE WipeOne
  <2>1. /\ Wiping /\ Wiping' /\ DiskOK' /\ IoOK'
        /\ \A l, t : OnFile(l, t)' => OnFile(l, t)
    BY <1>1, <1>4, WipeKeeps
  <2>2. io' = io
    BY <1>4 DEF WipeOne
  <2>3. \A l, t : ToWrite(l, t)' => ToWrite(l, t)
    BY <2>2 DEF ToWrite
  <2> QED BY <1>1, <2>1, <2>3
<1> QED BY <1>2, <1>3, <1>4 DEF FileStep

------------------------------------------------------------------------------
(* Steps of the store *)

DInv == /\ TablesOK /\ FiniteLevels
        /\ pc # "dead" => LevelsInv
        /\ DiskOK /\ IoOK /\ Follows

(* What can happen while no file operation is left to do. *)
LEMMA StoreStepCases ==
  ASSUME StoreStep
  PROVE  /\ [Next]_vars /\ pc # "dead" /\ io = <<>>
         /\ UNCHANGED <<disk, loaded, torn, restarts>>
         /\ \/ Flush /\ io' = FlushFiles
            \/ CompactLevel0 /\ io' = Level0Files
            \/ Compact /\ io' = CompactFiles
            \/ Reset /\ io' = <<Wipe>>
            \/ UNCHANGED <<level0, levels, timeId>> /\ io' = io /\ ~Flush /\ ~Reset
<1>1. io = <<>>
  BY DEF StoreStep
<1>2. CASE \/ \E k \in Keys, v \in PutValues : Put(k, v) /\ NoFiles
           \/ \E k \in DelKeys : Del(k) /\ NoFiles
           \/ \E chunk \in GcChunks : (GcNothing(chunk) \/ GcStart(chunk)) /\ NoFiles
  <2>1. NoFiles /\ Invoke
    BY <1>2 DEF Invoke
  <2>2. UNCHANGED <<level0, levels, timeId>> /\ pc = "idle" /\ call' # API!ResetCall
    BY <1>2 DEF Put, Del, GcNothing, GcStart, Ready, tables, API!PutCall, API!DelCall,
                API!GcCall, API!ResetCall
  <2>3. ~Flush /\ ~Reset
    BY <2>2 DEF Flush, Reset
  <2> QED BY <1>1, <2>1, <2>2, <2>3 DEF NoFiles, files, Next
<1>3. CASE \/ (FlushNothing \/ Clean \/ Return) /\ NoFiles
           \/ (GcMove \/ GcSkip \/ GcReadFails \/ GcFlush \/ GcPunch) /\ NoFiles
  <2>1. UNCHANGED <<level0, levels, timeId>> /\ pc \notin {"idle", "dead"}
    BY <1>3 DEF FlushNothing, Clean, Return, GcMove, GcSkip, GcReadFails, GcFlush, GcPunch, tables
  <2>2. ~Flush
    BY <1>3 DEF FlushNothing, Clean, Return, GcMove, GcSkip, GcReadFails, GcFlush, GcPunch, Flush
  <2>3. ~Reset
    BY <2>1 DEF Reset
  <2> QED BY <1>1, <1>3, <2>1, <2>2, <2>3 DEF NoFiles, files, Next, Continue
<1>4. CASE Reset /\ Queue(<<Wipe>>)
  BY <1>1, <1>4 DEF Queue, Next, Invoke, Reset
<1>5. CASE Flush /\ Queue(FlushFiles)
  BY <1>1, <1>5 DEF Queue, Next, Continue, Flush
<1>6. CASE CompactLevel0 /\ Queue(Level0Files)
  BY <1>1, <1>6 DEF Queue, Next, Continue, CompactLevel0
<1>7. CASE Compact /\ Queue(CompactFiles)
  BY <1>1, <1>7 DEF Queue, Next, Continue, Compact
<1> QED BY <1>2, <1>3, <1>4, <1>5, <1>6, <1>7 DEF StoreStep

LEMMA MoreStamps ==
  ASSUME NEW n \in Nat, NEW m \in Nat, n <= m, NEW t, IsTable(t, Keys, n)
  PROVE  IsTable(t, Keys, m)
<1>1. 0 .. n - 1 \subseteq 0 .. m - 1
  OBVIOUS
<1>2. /\ KeysOf(t) \subseteq Keys /\ KeysOf(t) # {}
      /\ t \in [timeId: 0 .. n - 1, items: [KeysOf(t) -> [off: Int, vlen: {0, 1}]]]
  BY DEF IsTable
<1>3. t \in [timeId: 0 .. m - 1, items: [KeysOf(t) -> [off: Int, vlen: {0, 1}]]]
  <2> DEFINE I == [KeysOf(t) -> [off: Int, vlen: {0, 1}]]
  <2> HIDE DEF I
  <2> SUFFICES t \in [timeId: 0 .. m - 1, items: I]
    BY DEF I
  <2>1. t \in [timeId: 0 .. n - 1, items: I]
    BY <1>2 DEF I
  <2> QED BY <1>1, <2>1
<1> QED BY <1>2, <1>3 DEF IsTable

LEMMA DiskStays ==
  ASSUME DiskOK, disk' = disk, Stamps \in Nat, Stamps' \in Nat, Stamps <= Stamps'
  PROVE  DiskOK'
<1>1. \A t : IsTable(t, Keys, Stamps) => IsTable(t, Keys, Stamps')
  <2> DEFINE n == Stamps
             m == Stamps'
  <2>1. n \in Nat /\ m \in Nat /\ n <= m
    OBVIOUS
  <2> HIDE DEF n, m
  <2>2. \A t : IsTable(t, Keys, n) => IsTable(t, Keys, m)
    BY <2>1, MoreStamps
  <2> QED BY <2>2 DEF n, m
<1>2. \A l \in DOMAIN disk : IsFiniteSet(disk[l]) /\ \A f \in disk[l] : IsTable(f.table, Keys, Stamps')
  BY <1>1 DEF DiskOK, Made
<1>3. /\ \E b \in Nat : DOMAIN disk \subseteq 0 .. b
      /\ disk = [l \in DOMAIN disk |-> disk[l]]
  BY DEF DiskOK
<1> QED BY <1>2, <1>3 DEF DiskOK, Made

(* Nothing queued. *)
LEMMA EmptyIo ==
  ASSUME NEW q, q = <<>>
  PROVE  q \in Seq(Range(q)) /\ DOMAIN q = {}
BY EmptySeq, NoTables, SeqOfRange

LEMMA NothingQueued ==
  ASSUME io = <<>>
  PROVE  /\ IoOK /\ ~Wiping /\ \A l, t : ~ToWrite(l, t) /\ ~ToRemove(l, t)
<1>1. io \in Seq(Range(io)) /\ DOMAIN io = {}
  BY EmptyIo
<1>2. \A l, t : ~ToWrite(l, t) /\ ~ToRemove(l, t)
  BY <1>1 DEF ToWrite, ToRemove
<1> QED BY <1>1, <1>2 DEF IoOK, Wiping

LEMMA NothingQueuedNext ==
  ASSUME io' = <<>>
  PROVE  /\ IoOK' /\ ~Wiping' /\ \A l, t : ~ToWrite(l, t)' /\ ~ToRemove(l, t)'
<1>1. io' \in Seq(Range(io')) /\ DOMAIN io' = {}
  BY EmptyIo
<1>2. \A l, t : ~ToWrite(l, t)' /\ ~ToRemove(l, t)'
  BY <1>1 DEF ToWrite, ToRemove
<1> QED BY <1>1, <1>2 DEF IoOK, Wiping

LEMMA WipeQueued ==
  ASSUME io' = <<Wipe>>
  PROVE  /\ IoOK' /\ Wiping' /\ \A l, t : ~ToWrite(l, t)' /\ ~ToRemove(l, t)'
<1> DEFINE q == <<Wipe>>
<1>1. q \in Seq(Range(q)) /\ DOMAIN q = {1} /\ q[1] = Wipe /\ q # <<>>
  <2>1. <<Wipe>> \in Seq({Wipe}) /\ DOMAIN <<Wipe>> = {1} /\ <<Wipe>>[1] = Wipe
    BY SingleFacts
  <2> QED BY <2>1, SeqOfRange
<1>2. io' = q
  OBVIOUS
<1> HIDE DEF q
<1>3. io' \in Seq(Range(io')) /\ DOMAIN io' = {1} /\ io'[1] = Wipe /\ io' # <<>>
  BY <1>1, <1>2
<1>4. IsOp(io'[1], Stamps') /\ io'[1].op = "wipe"
  BY <1>3 DEF IsOp, Wipe
<1>5. \A l, t : ~ToWrite(l, t)' /\ ~ToRemove(l, t)'
  BY <1>3, <1>4 DEF ToWrite, ToRemove
<1>6. \A i \in DOMAIN io' : i = 1 /\ IsOp(io'[i], Stamps') /\ io'[i].op = "wipe"
  BY <1>3, <1>4
<1>7. IoOK'
  BY <1>3, <1>5, <1>6 DEF IoOK
<1> QED BY <1>3, <1>4, <1>5, <1>7 DEF Wiping

(* The removals that follow the files of a compaction. *)
Removals(rem, n) ==
  /\ rem \in Seq(Range(rem))
  /\ \A i \in DOMAIN rem : IsOp(rem[i], n) /\ rem[i].op = "remove"

LEMMA CompactionQueued ==
  ASSUME NEW l \in Nat, NEW new, NEW rem, io' = WriteThenRemove(l, new, rem),
         Removals(rem, Stamps'), IsFiniteSet(new), \A t \in new : IsTable(t, Keys, Stamps'),
         \A i \in DOMAIN rem : rem[i].level = l => \A t \in new : t \notin rem[i].tables
  PROVE  /\ IoOK' /\ ~Wiping'
         /\ \A d, t : ToWrite(d, t)' <=> d = l /\ t \in new
         /\ \A d, t : ToRemove(d, t)' <=> \E i \in DOMAIN rem : rem[i].level = d /\ t \in rem[i].tables
<1> DEFINE F == FilesOf(new)
<1>1. rem \in Seq(Range(rem)) /\ DOMAIN rem = 1 .. Len(rem) /\ Len(rem) \in Nat
  BY SeqFacts DEF Removals
<1>2. /\ io' \in Seq(Range(io')) /\ DOMAIN io' = 1 .. Len(rem) + 2
      /\ io'[1] = MakeDir(l) /\ io'[2] = WriteAll(l, F)
      /\ \A i \in DOMAIN rem : io'[i + 2] = rem[i]
  <2> DEFINE S == Range(rem)
  <2>1. rem \in Seq(S)
    BY <1>1
  <2> DEFINE q == WriteThenRemove(l, new, rem)
  <2>2. /\ q \in Seq(Range(q)) /\ DOMAIN q = 1 .. Len(rem) + 2
        /\ q[1] = MakeDir(l) /\ q[2] = WriteAll(l, F)
        /\ \A i \in 1 .. Len(rem) : q[i + 2] = rem[i]
    <3> HIDE DEF S
    <3> QED BY <1>1, <2>1, QueueFacts
  <2>3. io' = q
    OBVIOUS
  <2> HIDE DEF q, F
  <2> QED BY <1>1, <2>2, <2>3
<1>3. IsOp(io'[1], Stamps') /\ io'[1].op = "mkdir"
  BY <1>2 DEF IsOp, MakeDir
<1>4. /\ io'[2].op = "write" /\ io'[2].level = l /\ io'[2].files = F
      /\ \A f \in F : f.slot = 0 /\ f.table \in new
      /\ \A t \in new : \E f \in F : f.table = t
  <2>1. \A t : File(0, t).slot = 0 /\ File(0, t).table = t
    BY DEF File
  <2>2. \A t \in new : File(0, t) \in F
    BY DEF FilesOf
  <2>3. \A f \in F : \E t \in new : f = File(0, t)
    BY DEF FilesOf
  <2> HIDE DEF F
  <2>4. io'[2].op = "write" /\ io'[2].level = l /\ io'[2].files = F
    BY <1>2 DEF WriteAll
  <2> QED BY <2>1, <2>2, <2>3, <2>4
<1>5. IsOp(io'[2], Stamps')
  <2>1. IsFiniteSet(F)
    <3> DEFINE f == [t \in new |-> File(0, t)]
    <3>1. f \in Surjection(new, F)
      BY DEF Surjection, FilesOf
    <3> QED BY <3>1, FS_Surjection
  <2>2. io'[2] = WriteAll(io'[2].level, io'[2].files)
    BY <1>2, <1>4
  <2> HIDE DEF F
  <2> QED BY <1>4, <2>1, <2>2 DEF IsOp
<1> HIDE DEF F
<1>6. \A i \in DOMAIN io' : i = 1 \/ i = 2 \/ (i - 2 \in DOMAIN rem /\ io'[i] = rem[i - 2])
  <2> SUFFICES ASSUME NEW i \in DOMAIN io', i # 1, i # 2
               PROVE  i - 2 \in DOMAIN rem /\ io'[i] = rem[i - 2]
    OBVIOUS
  <2>1. i - 2 \in DOMAIN rem /\ (i - 2) + 2 = i
    BY <1>1, <1>2
  <2> QED BY <1>2, <2>1
<1>7. \A i \in DOMAIN io' : /\ IsOp(io'[i], Stamps') /\ io'[i].op # "wipe"
                            /\ io'[i].op = "write" => i = 2
  BY <1>3, <1>4, <1>5, <1>6 DEF Removals
<1>8. ASSUME NEW d, NEW t
      PROVE  ToWrite(d, t)' <=> d = l /\ t \in new
  <2>1. 2 \in DOMAIN io'
    BY <1>1, <1>2
  <2>2. ToWrite(d, t)' <=> io'[2].level = d /\ \E f \in io'[2].files : f.table = t
    BY <1>4, <1>7, <2>1 DEF ToWrite
  <2> QED BY <1>4, <2>2
<1>9. ASSUME NEW d, NEW t
      PROVE  ToRemove(d, t)' <=> \E i \in DOMAIN rem : rem[i].level = d /\ t \in rem[i].tables
  <2>1. ASSUME ToRemove(d, t)'
        PROVE  \E i \in DOMAIN rem : rem[i].level = d /\ t \in rem[i].tables
    <3>1. PICK i \in DOMAIN io' : io'[i].op = "remove" /\ io'[i].level = d /\ t \in io'[i].tables
      BY <2>1 DEF ToRemove
    <3>2. i # 1 /\ i # 2
      BY <1>3, <1>4, <3>1
    <3> QED BY <1>6, <3>1, <3>2
  <2>2. ASSUME NEW i \in DOMAIN rem, rem[i].level = d, t \in rem[i].tables
        PROVE  ToRemove(d, t)'
    <3>1. i + 2 \in DOMAIN io' /\ io'[i + 2] = rem[i] /\ rem[i].op = "remove"
      BY <1>1, <1>2 DEF Removals
    <3>2. io'[i + 2].op = "remove" /\ io'[i + 2].level = d /\ t \in io'[i + 2].tables
      BY <2>2, <3>1
    <3> QED BY <3>1, <3>2 DEF ToRemove
  <2> QED BY <2>1, <2>2
<1>10. \A d, t : ~(ToWrite(d, t)' /\ ToRemove(d, t)')
  BY <1>8, <1>9
<1>11. IoOK'
  <2>1. io'[1] = MakeDir(io'[2].level)
    BY <1>2, <1>4
  <2> QED BY <1>2, <1>7, <1>10, <2>1 DEF IoOK
<1>12. ~Wiping'
  BY <1>3 DEF Wiping
<1> QED BY <1>8, <1>9, <1>11, <1>12

LEMMA FlushQueued ==
  ASSUME io' = FlushFiles, IsTable(NewTable, Keys, Stamps')
  PROVE  /\ IoOK' /\ ~Wiping'
         /\ \A d, t : ToWrite(d, t)' => d = 0 /\ t = NewTable
         /\ \A d, t : ~ToRemove(d, t)'
<1>1. CASE io' = <<>>
  BY <1>1, NothingQueuedNext
<1>2. CASE io' # <<>>
  <2> DEFINE F == {File(Len(level0'), NewTable)}
             a == MakeDir(0)
             b == WriteAll(0, F)
  <2>1. io' = <<a, b>>
    BY <1>2 DEF FlushFiles
  <2>2. a.op = "mkdir" /\ b.op = "write" /\ b.level = 0 /\ b.files = F /\ a.level = 0
    BY DEF MakeDir, WriteAll
  <2>3. IsOp(a, Stamps')
    BY DEF IsOp, MakeDir
  <2>4. IsFiniteSet(F) /\ \A f \in F : f.table = NewTable
    <3> DEFINE x == File(Len(level0'), NewTable)
    <3>1. x.table = NewTable /\ F = {x}
      BY DEF File
    <3> HIDE DEF x, F
    <3> QED BY <3>1, FS_Singleton
  <2>5. IsOp(b, Stamps')
    <3>1. b = WriteAll(b.level, b.files)
      BY <2>2
    <3> HIDE DEF F, b
    <3> QED BY <2>2, <2>4, <3>1 DEF IsOp
  <2>6. a = MakeDir(b.level)
    BY <2>2
  <2> HIDE DEF F, a, b
  <2>7. /\ io' \in Seq(Range(io')) /\ DOMAIN io' = 1 .. 2 /\ io'[1] = a /\ io'[2] = b
    <3>1. <<a, b>> \in Seq({a, b}) /\ DOMAIN <<a, b>> = 1 .. 2 /\ <<a, b>>[1] = a /\ <<a, b>>[2] = b
      BY PairFacts
    <3>2. \A q : q = <<a, b>> => q \in Seq(Range(q)) /\ DOMAIN q = 1 .. 2 /\ q[1] = a /\ q[2] = b
      BY <3>1, SeqOfRange
    <3> QED BY <2>1, <3>2
  <2>8. \A i \in DOMAIN io' : (i = 1 /\ io'[i] = a) \/ (i = 2 /\ io'[i] = b)
    BY <2>7
  <2>9. \A i \in DOMAIN io' : /\ IsOp(io'[i], Stamps') /\ io'[i].op \notin {"wipe", "remove"}
                              /\ io'[i].op = "write" => i = 2
    BY <2>2, <2>3, <2>5, <2>8
  <2>10. \A d, t : ~ToRemove(d, t)'
    BY <2>9 DEF ToRemove
  <2>11. \A d, t : ToWrite(d, t)' => d = 0 /\ t = NewTable
    BY <2>2, <2>4, <2>7, <2>9 DEF ToWrite
  <2>12. IoOK'
    BY <2>6, <2>7, <2>9, <2>10 DEF IoOK
  <2>13. ~Wiping'
    BY <2>2, <2>7 DEF Wiping
  <2> QED BY <2>10, <2>11, <2>12, <2>13
<1> QED BY <1>1, <1>2

LEMMA StoreStepTypes ==
  ASSUME DInv, StoreStep
  PROVE  /\ LevelsInv /\ LevelsInv' /\ TablesOK' /\ DiskOK'
         /\ Stamps \in Nat /\ Stamps' \in Nat /\ Stamps <= Stamps'
<1>1. LevelsInv /\ LevelsInv' /\ disk' = disk
  BY StoreStepCases, LevelsInvInductive DEF DInv
<1>2. TablesOK /\ TablesOK'
  BY <1>1, TypeParts DEF LevelsInv, Inv, TypeOK, TablesOK
<1>3. timeId' = timeId \/ timeId' = timeId + 1
  BY StoreStepCases DEF Flush, CompactLevel0, Compact, Reset
<1>4. Stamps \in Nat /\ Stamps' \in Nat /\ Stamps <= Stamps'
  <2>1. timeId \in Nat /\ timeId' \in Nat
    BY <1>2 DEF TablesOK
  <2> DEFINE a == timeId
             b == timeId'
  <2>2. Stamps = a + 1 /\ Stamps' = b + 1
    BY DEF Stamps
  <2>3. a \in Nat /\ b \in Nat /\ (b = a \/ b = a + 1)
    BY <1>3, <2>1
  <2> HIDE DEF a, b
  <2>4. a + 1 \in Nat /\ b + 1 \in Nat /\ a + 1 <= b + 1
    BY <2>3
  <2> QED BY <2>2, <2>4, Zenon
<1>5. DiskOK'
  BY <1>1, <1>4, DiskStays DEF DInv
<1> QED BY <1>1, <1>2, <1>4, <1>5

(* Nothing is queued and something is now. *)
LEMMA FollowsStart ==
  ASSUME Follows, io = <<>>, disk' = disk, loaded' = loaded, ~Wiping',
         NEW l \in Nat \ {0}, NEW t
  PROVE  /\ t \in TablesOf(l) /\ t \notin loaded => OnFile(l, t)
         /\ OnFile(l, t) => t \in TablesOf(l)
         /\ WillBe(l, t)' <=> (OnFile(l, t) /\ ~ToRemove(l, t)') \/ ToWrite(l, t)'
<1>1. ~Wiping /\ ~ToWrite(l, t) /\ ~ToRemove(l, t)
  BY NothingQueued
<1>2. OnFile(l, t)' <=> OnFile(l, t)
  BY DEF OnFile
<1>3. WillBe(l, t) <=> OnFile(l, t)
  BY <1>1 DEF WillBe
<1> QED BY <1>1, <1>2, <1>3 DEF Follows, WillBe

LEMMA FlushFollows ==
  ASSUME DInv, StoreStep, Flush, io' = FlushFiles
  PROVE  IoOK' /\ Follows' /\ ~Wiping' /\ \A d, t : ToWrite(d, t)' => t = NewTable
<1>1. level0' = Append(level0, NewTable) /\ levels' = levels
  BY DEF Flush
<1>2. IsTable(NewTable, Keys, Stamps')
  <2>1. TablesOK' /\ level0 \in Seq(Range(level0))
    BY StoreStepTypes DEF DInv, TablesOK
  <2>2. /\ Len(level0) + 1 \in DOMAIN Append(level0, NewTable)
        /\ Append(level0, NewTable)[Len(level0) + 1] = NewTable
    BY <2>1, AppendFacts, SeqFacts
  <2>3. Len(level0) + 1 \in DOMAIN level0' /\ level0'[Len(level0) + 1] = NewTable
    BY <1>1, <2>2
  <2> QED BY <2>1, <2>3 DEF TablesOK, Made
<1>3. /\ IoOK' /\ ~Wiping'
      /\ \A d, t : ToWrite(d, t)' => d = 0 /\ t = NewTable
      /\ \A d, t : ~ToRemove(d, t)'
  BY <1>2, FlushQueued
<1>4. ASSUME NEW l \in Nat \ {0}, NEW t
      PROVE  /\ t \in TablesOf(l)' /\ t \notin loaded' => WillBe(l, t)'
             /\ WillBe(l, t)' => t \in TablesOf(l)'
  <2>1. /\ t \in TablesOf(l) /\ t \notin loaded => OnFile(l, t)
        /\ OnFile(l, t) => t \in TablesOf(l)
        /\ WillBe(l, t)' <=> (OnFile(l, t) /\ ~ToRemove(l, t)') \/ ToWrite(l, t)'
    BY <1>3, StoreStepCases, FollowsStart DEF DInv
  <2>2. TablesOf(l)' = TablesOf(l) /\ loaded' = loaded
    BY <1>1, StoreStepCases DEF TablesOf
  <2>3. ~ToWrite(l, t)' /\ ~ToRemove(l, t)'
    BY <1>3
  <2> QED BY <2>1, <2>2, <2>3
<1>5. Follows'
  BY <1>3, <1>4 DEF Follows
<1> QED BY <1>3, <1>5

LEMMA Level0Follows ==
  ASSUME DInv, StoreStep, CompactLevel0, io' = Level0Files
  PROVE  /\ IoOK' /\ Follows' /\ ~Wiping'
         /\ \A d, t : ToWrite(d, t)' => t \in New0
<1>1. Inv /\ Stamps' = Stamps /\ Stamps \in Nat
  BY StoreStepTypes DEF CompactLevel0, Stamps, LevelsInv
<1>2. IsFiniteSet(New0) /\ \A t \in New0 : IsTable(t, Keys, Stamps')
  BY <1>1, NewFacts DEF Made
<1>3. /\ \A t \in Lower0 : IsTable(t, Keys, Stamps')
      /\ DOMAIN levels \subseteq DOMAIN levels'
      /\ 1 \in DOMAIN levels' /\ levels'[1] = (Lower0 \ Into0) \cup New0
      /\ (1 \in DOMAIN levels /\ Lower0 = levels[1]) \/ (1 \notin DOMAIN levels /\ Lower0 = {})
      /\ \A i \in DOMAIN levels' : i = 1 \/ (i \in DOMAIN levels /\ levels'[i] = levels[i])
  BY <1>1, CompactLevel0Shape DEF Made
<1>4. Into0 \subseteq Lower0
  BY DEF Into0, Lower0, Overlapping
<1> DEFINE r == RemoveAll(1, Into0 \ New0)
           rem == <<r>>
<1>5. r.op = "remove" /\ r.level = 1 /\ r.tables = Into0 \ New0 /\ IsOp(r, Stamps')
  <2>1. r.op = "remove" /\ r.level = 1 /\ r.tables = Into0 \ New0
    BY DEF RemoveAll
  <2>2. r = RemoveAll(r.level, r.tables) /\ \A t \in r.tables : IsTable(t, Keys, Stamps')
    BY <1>3, <1>4, <2>1
  <2> HIDE DEF r
  <2> QED BY <2>1, <2>2 DEF IsOp
<1>6. io' = WriteThenRemove(1, New0, rem)
  BY DEF Level0Files
<1> HIDE DEF r
<1>7. rem \in Seq(Range(rem)) /\ DOMAIN rem = {1} /\ rem[1] = r
  BY SingleFacts, SeqOfRange
<1> HIDE DEF rem
<1>8. /\ IoOK' /\ ~Wiping'
      /\ \A d, t : ToWrite(d, t)' <=> d = 1 /\ t \in New0
      /\ \A d, t : ToRemove(d, t)' <=> \E i \in DOMAIN rem : rem[i].level = d /\ t \in rem[i].tables
  <2>1. Removals(rem, Stamps')
    BY <1>5, <1>7 DEF Removals
  <2>2. \A i \in DOMAIN rem : rem[i].level = 1 => \A t \in New0 : t \notin rem[i].tables
    BY <1>5, <1>7
  <2> QED BY <1>2, <1>6, <2>1, <2>2, CompactionQueued
<1>9. \A d, t : ToRemove(d, t)' <=> d = 1 /\ t \in Into0 \ New0
  BY <1>5, <1>7, <1>8
<1>10. ASSUME NEW l \in Nat \ {0}, NEW t
       PROVE  /\ t \in TablesOf(l)' /\ t \notin loaded' => WillBe(l, t)'
              /\ WillBe(l, t)' => t \in TablesOf(l)'
  <2>1. /\ t \in TablesOf(l) /\ t \notin loaded => OnFile(l, t)
        /\ OnFile(l, t) => t \in TablesOf(l)
        /\ WillBe(l, t)' <=> (OnFile(l, t) /\ ~ToRemove(l, t)') \/ ToWrite(l, t)'
    BY <1>8, StoreStepCases, FollowsStart DEF DInv
  <2>2. loaded' = loaded
    BY StoreStepCases
  <2>3. CASE l = 1
    <3>1. TablesOf(1) = Lower0 /\ TablesOf(1)' = (Lower0 \ Into0) \cup New0
      BY <1>3 DEF TablesOf
    <3>2. (ToWrite(1, t)' <=> t \in New0) /\ (ToRemove(1, t)' <=> t \in Into0 \ New0)
      BY <1>8, <1>9
    <3> QED BY <2>1, <2>2, <2>3, <3>1, <3>2
  <2>4. CASE l # 1
    <3>1. TablesOf(l)' = TablesOf(l)
      BY <1>3, <2>4 DEF TablesOf
    <3>2. ~ToWrite(l, t)' /\ ~ToRemove(l, t)'
      BY <1>8, <1>9, <2>4
    <3> QED BY <2>1, <2>2, <3>1, <3>2
  <2> QED BY <2>3, <2>4
<1>11. Follows'
  BY <1>8, <1>10 DEF Follows
<1> QED BY <1>8, <1>11

LEMMA CompactFollows ==
  ASSUME DInv, StoreStep, Compact, io' = CompactFiles
  PROVE  /\ IoOK' /\ Follows' /\ ~Wiping'
         /\ \A d, t : ToWrite(d, t)' => t \in New
<1>1. Inv /\ Stamps' = Stamps /\ Stamps \in Nat
  BY StoreStepTypes DEF Compact, Stamps, LevelsInv
<1>2. IsFiniteSet(New) /\ \A t \in New : IsTable(t, Keys, Stamps')
  BY <1>1, NewFacts DEF Made
<1>3. /\ depth \in DOMAIN levels /\ depth \in Nat /\ depth > 0
      /\ From \subseteq levels[depth]
      /\ \A t \in levels[depth] \cup Lower : IsTable(t, Keys, Stamps')
      /\ DOMAIN levels \subseteq DOMAIN levels'
      /\ depth \in DOMAIN levels' /\ levels'[depth] = levels[depth] \ From
      /\ depth + 1 \in DOMAIN levels' /\ levels'[depth + 1] = (Lower \ Into) \cup New
      /\ \/ depth + 1 \in DOMAIN levels /\ Lower = levels[depth + 1]
         \/ depth + 1 \notin DOMAIN levels /\ Lower = {}
      /\ \A i \in DOMAIN levels' :
           \/ i \in {depth, depth + 1}
           \/ i \in DOMAIN levels /\ levels'[i] = levels[i]
  BY <1>1, CompactShape DEF Made
<1>4. Into \subseteq Lower
  BY DEF Into, Lower, Overlapping
<1> DEFINE r == RemoveAll(depth, From)
           s == RemoveAll(depth + 1, Into \ New)
           rem == <<r, s>>
<1>5. r.op = "remove" /\ r.level = depth /\ r.tables = From /\ IsOp(r, Stamps')
  <2>1. r.op = "remove" /\ r.level = depth /\ r.tables = From
    BY DEF RemoveAll
  <2>2. r = RemoveAll(r.level, r.tables) /\ \A t \in r.tables : IsTable(t, Keys, Stamps')
    BY <1>3, <2>1
  <2> HIDE DEF r
  <2> QED BY <1>3, <2>1, <2>2 DEF IsOp
<1>6. s.op = "remove" /\ s.level = depth + 1 /\ s.tables = Into \ New /\ IsOp(s, Stamps')
  <2>1. s.op = "remove" /\ s.level = depth + 1 /\ s.tables = Into \ New
    BY DEF RemoveAll
  <2>2. s = RemoveAll(s.level, s.tables) /\ \A t \in s.tables : IsTable(t, Keys, Stamps')
    BY <1>3, <1>4, <2>1
  <2>3. depth + 1 \in Nat
    BY <1>3
  <2> HIDE DEF s
  <2> QED BY <2>1, <2>2, <2>3 DEF IsOp
<1> DEFINE below == depth + 1
<1>7. io' = WriteThenRemove(below, New, rem) /\ below \in Nat /\ below # depth
  BY <1>3 DEF CompactFiles
<1>8. s.level = below
  BY <1>6
<1> HIDE DEF r, s, below
<1>9. rem \in Seq(Range(rem)) /\ DOMAIN rem = 1 .. 2 /\ rem[1] = r /\ rem[2] = s
  <2>1. rem \in Seq({r, s}) /\ DOMAIN rem = 1 .. 2 /\ rem[1] = r /\ rem[2] = s
    BY PairFacts
  <2> HIDE DEF rem
  <2> QED BY <2>1, SeqOfRange
<1>10. \A i \in DOMAIN rem : (i = 1 /\ rem[i] = r) \/ (i = 2 /\ rem[i] = s)
  BY <1>9
<1> HIDE DEF rem
<1>11. /\ IoOK' /\ ~Wiping'
       /\ \A d, t : ToWrite(d, t)' <=> d = below /\ t \in New
       /\ \A d, t : ToRemove(d, t)' <=> \E i \in DOMAIN rem : rem[i].level = d /\ t \in rem[i].tables
  <2>1. Removals(rem, Stamps')
    BY <1>5, <1>6, <1>9, <1>10 DEF Removals
  <2>2. \A i \in DOMAIN rem : rem[i].level = below => \A t \in New : t \notin rem[i].tables
    BY <1>5, <1>6, <1>7, <1>10
  <2> QED BY <1>2, <1>7, <2>1, <2>2, CompactionQueued
<1>12. \A d, t : ToRemove(d, t)' <=> (d = depth /\ t \in From) \/ (d = below /\ t \in Into \ New)
  <2>1. 1 \in DOMAIN rem /\ 2 \in DOMAIN rem
    BY <1>9
  <2> QED BY <1>5, <1>6, <1>8, <1>9, <1>10, <1>11, <2>1
<1>13. ASSUME NEW l \in Nat \ {0}, NEW t
       PROVE  /\ t \in TablesOf(l)' /\ t \notin loaded' => WillBe(l, t)'
              /\ WillBe(l, t)' => t \in TablesOf(l)'
  <2>1. /\ t \in TablesOf(l) /\ t \notin loaded => OnFile(l, t)
        /\ OnFile(l, t) => t \in TablesOf(l)
        /\ WillBe(l, t)' <=> (OnFile(l, t) /\ ~ToRemove(l, t)') \/ ToWrite(l, t)'
    BY <1>11, StoreStepCases, FollowsStart DEF DInv
  <2>2. loaded' = loaded
    BY StoreStepCases
  <2>3. CASE l = below
    <3>1. TablesOf(l) = Lower /\ TablesOf(l)' = (Lower \ Into) \cup New
      BY <1>3, <2>3 DEF TablesOf, below
    <3>2. (ToWrite(l, t)' <=> t \in New) /\ (ToRemove(l, t)' <=> t \in Into \ New)
      BY <1>7, <1>11, <1>12, <2>3
    <3> QED BY <2>1, <2>2, <3>1, <3>2
  <2>4. CASE l = depth
    <3>1. TablesOf(l) = levels[depth] /\ TablesOf(l)' = levels[depth] \ From
      BY <1>3, <2>4 DEF TablesOf
    <3>2. ~ToWrite(l, t)' /\ (ToRemove(l, t)' <=> t \in From)
      BY <1>7, <1>11, <1>12, <2>4
    <3> QED BY <2>1, <2>2, <3>1, <3>2
  <2>5. CASE l # below /\ l # depth
    <3>1. TablesOf(l)' = TablesOf(l)
      BY <1>3, <2>5 DEF TablesOf, below
    <3>2. ~ToWrite(l, t)' /\ ~ToRemove(l, t)'
      BY <1>11, <1>12, <2>5
    <3> QED BY <2>1, <2>2, <3>1, <3>2
  <2> QED BY <2>3, <2>4, <2>5
<1>14. Follows'
  BY <1>11, <1>13 DEF Follows
<1>15. \A d, t : ToWrite(d, t)' => t \in New
  BY <1>11
<1> QED BY <1>11, <1>14, <1>15

------------------------------------------------------------------------------
(* A start of the process *)

LEMMA SameStampOrLess ==
  ASSUME NEW n \in Nat, NEW m \in Nat, NEW t, IsTable(t, Keys, n), t.timeId <= m
  PROVE  IsTable(t, Keys, m + 1)
<1>1. /\ KeysOf(t) \subseteq Keys /\ KeysOf(t) # {}
      /\ t \in [timeId: 0 .. n - 1, items: [KeysOf(t) -> [off: Int, vlen: {0, 1}]]]
  BY DEF IsTable
<1> DEFINE I == [KeysOf(t) -> [off: Int, vlen: {0, 1}]]
<1>2. t \in [timeId: 0 .. n - 1, items: I]
  BY <1>1
<1> HIDE DEF I
<1>3. t \in [timeId: 0 .. (m + 1) - 1, items: I]
  <2>1. t.timeId \in 0 .. n - 1
    BY <1>2
  <2>2. t.timeId \in 0 .. (m + 1) - 1
    BY <2>1
  <2> QED BY <1>2, <2>2
<1> QED BY <1>1, <1>3 DEF I, IsTable

LEMMA TablesInFinite ==
  ASSUME DiskOK, NEW l \in DOMAIN disk
  PROVE  IsFiniteSet(TablesIn(l)) /\ \A t \in TablesIn(l) : Made(t) /\ t \in LoadAll
<1>1. IsFiniteSet(disk[l]) /\ \A f \in disk[l] : Made(f.table)
  BY DEF DiskOK
<1> DEFINE g == [f \in disk[l] |-> f.table]
<1>2. g \in Surjection(disk[l], TablesIn(l))
  BY DEF Surjection, TablesIn
<1>3. IsFiniteSet(TablesIn(l))
  BY <1>1, <1>2, FS_Surjection
<1>4. \A t \in TablesIn(l) : Made(t)
  BY <1>1 DEF TablesIn
<1>5. \A t \in TablesIn(l) : t \in LoadAll
  BY DEF LoadAll
<1> QED BY <1>3, <1>4, <1>5

(* Every file counts for the next stamp. *)
LEMMA LoadedTables ==
  ASSUME DiskOK, Stamps \in Nat
  PROVE  /\ NextStamp \in Nat
         /\ \A t \in LoadAll : IsTable(t, Keys, NextStamp + 1) /\ \E l : OnFile(l, t)
<1>1. \A t \in LoadAll : IsTable(t, Keys, Stamps) /\ \E l : OnFile(l, t)
  <2> SUFFICES ASSUME NEW t \in LoadAll
               PROVE  IsTable(t, Keys, Stamps) /\ \E l : OnFile(l, t)
    OBVIOUS
  <2>1. PICK l \in DOMAIN disk : t \in TablesIn(l)
    BY DEF LoadAll
  <2>2. PICK f \in disk[l] : f.table = t
    BY <2>1 DEF TablesIn
  <2> QED BY <2>1, <2>2 DEF DiskOK, Made, OnFile
<1>2. CASE LoadAll = {}
  BY <1>2 DEF NextStamp
<1>3. CASE LoadAll # {}
  <2>1. /\ NextStamp \in 0 .. Stamps - 1
        /\ \A t \in LoadAll : t.timeId <= NextStamp
    BY <1>1, <1>3, KeysBounded, MaxTimeIdInSet DEF NextStamp
  <2>2. NextStamp \in Nat
    BY <2>1
  <2> HIDE DEF NextStamp
  <2>3. \A t \in LoadAll : IsTable(t, Keys, NextStamp + 1)
    BY <1>1, <2>1, <2>2, SameStampOrLess
  <2> QED BY <1>1, <2>2, <2>3
<1> QED BY <1>2, <1>3

LEMMA EmptyDisk ==
  ASSUME DiskOK, DOMAIN disk = {}
  PROVE  disk = <<>>
<1>1. disk = [l \in {} |-> disk[l]]
  BY DEF DiskOK
<1>2. disk \in [1 .. 0 -> {}]
  BY <1>1
<1>3. disk \in Seq({})
  BY <1>2, SeqDef
<1>4. Len(disk) = 0
  BY <1>2, <1>3, LenProperties
<1> QED BY <1>3, <1>4, EmptySeq

LEMMA LoadedLevels ==
  ASSUME DiskOK
  PROVE  /\ LoadLevels \in Seq(Range(LoadLevels))
         /\ \A l \in DOMAIN LoadLevels :
              IsFiniteSet(LoadLevels[l]) /\ LoadLevels[l] \subseteq LoadAll
<1> DEFINE n == IF disk = <<>> THEN 0 ELSE MaxDir
<1>1. n \in Nat
  <2>1. CASE disk = <<>>
    BY <2>1
  <2>2. CASE disk # <<>>
    <3>1. PICK b \in Nat : DOMAIN disk \subseteq 0 .. b
      BY DEF DiskOK
    <3>2. DOMAIN disk \in SUBSET Nat /\ DOMAIN disk # {} /\ \A x \in DOMAIN disk : x <= b
      <4>1. \A x \in DOMAIN disk : x \in Nat /\ x <= b
        BY <3>1
      <4>2. DOMAIN disk # {}
        BY <2>2, EmptyDisk
      <4> QED BY <4>1, <4>2
    <3>3. MaxDir \in DOMAIN disk
      BY <3>2, MaxInSet DEF MaxDir
    <3> QED BY <2>2, <3>2, <3>3
  <2> QED BY <2>1, <2>2
<1>2. /\ DOMAIN LoadLevels = 1 .. n
      /\ \A l \in 1 .. n : LoadLevels[l] = IF l \in DOMAIN disk THEN TablesIn(l) ELSE {}
      /\ LoadLevels = [l \in 1 .. n |-> LoadLevels[l]]
  BY DEF LoadLevels
<1> HIDE DEF n
<1>3. LoadLevels \in [1 .. n -> Range(LoadLevels)]
  BY <1>2 DEF Range
<1>4. LoadLevels \in Seq(Range(LoadLevels))
  BY <1>1, <1>3, SeqDef
<1>5. ASSUME NEW l \in DOMAIN LoadLevels
      PROVE  IsFiniteSet(LoadLevels[l]) /\ LoadLevels[l] \subseteq LoadAll
  <2>1. CASE l \in DOMAIN disk
    <3>1. LoadLevels[l] = TablesIn(l)
      BY <1>2, <2>1
    <3> QED BY <2>1, <3>1, TablesInFinite
  <2>2. CASE l \notin DOMAIN disk
    <3>1. LoadLevels[l] = {}
      BY <1>2, <2>2
    <3> QED BY <3>1, FS_EmptySet
  <2> QED BY <2>1, <2>2
<1> QED BY <1>4, <1>5

LEMMA LoadedLevel0 ==
  ASSUME DiskOK, NEW s \in LoadOrders
  PROVE  s \in Seq(Range(s)) /\ \A i \in DOMAIN s : s[i] \in LoadAll
<1> DEFINE found == IF 0 \in DOMAIN disk THEN TablesIn(0) ELSE {}
<1>1. IsFiniteSet(found) /\ found \subseteq LoadAll
  BY TablesInFinite, FS_EmptySet
<1>2. s \in [1 .. Cardinality(found) -> found] /\ Range(s) = found
  BY DEF LoadOrders
<1> HIDE DEF found
<1>3. Cardinality(found) \in Nat
  BY <1>1, FS_CardinalityType
<1>4. s \in Seq(found)
  BY <1>2, <1>3, SeqDef
<1> QED BY <1>1, <1>2, <1>4

LEMMA RestartTypes ==
  ASSUME DInv, Restart
  PROVE  DInv'
<1>1. TablesOK /\ FiniteLevels /\ LevelsInv /\ DiskOK /\ pc # "dead"
  BY DEF DInv, Restart
<1>2. /\ level0' \in LoadOrders /\ levels' = LoadLevels /\ timeId' = NextStamp
      /\ loaded' = LoadAll /\ disk' = disk
      /\ io' = (IF disk = <<>> THEN <<>> ELSE <<Wipe>>)
      /\ memtable' = EmptyMap /\ pc' = "idle" /\ after' = "return" /\ depth' = 0 /\ gc' = NoGc
      /\ call' = API!NoCall /\ streamOk' = TRUE /\ vlog' = vlog /\ tail' = tail
  BY DEF Restart, Killed, LogOpened
<1>3. Stamps \in Nat
  BY <1>1 DEF TablesOK, Stamps
<1>4. NextStamp \in Nat /\ \A t \in LoadAll : IsTable(t, Keys, NextStamp + 1)
  BY <1>1, <1>3, LoadedTables
<1>5. Stamps' = NextStamp + 1
  BY <1>2 DEF Stamps
<1>6. \A t \in LoadAll : IsTable(t, Keys, Stamps')
  BY <1>4, <1>5
<1>7. TablesOK' /\ FiniteLevels'
  <2>1. level0' \in Seq(Range(level0')) /\ \A i \in DOMAIN level0' : level0'[i] \in LoadAll
    BY <1>1, <1>2, LoadedLevel0
  <2>2. /\ levels' \in Seq(Range(levels'))
        /\ \A l \in DOMAIN levels' : IsFiniteSet(levels'[l]) /\ levels'[l] \subseteq LoadAll
    BY <1>1, <1>2, LoadedLevels
  <2>3. timeId' \in Nat
    BY <1>2, <1>4
  <2> QED BY <1>6, <2>1, <2>2, <2>3 DEF TablesOK, FiniteLevels, Made
<1>8. LevelsInv'
  <2>1. MemOK'
    BY <1>2 DEF MemOK, EmptyMap
  <2>2. LogOK /\ LogOK'
    <3>1. LogOK
      BY <1>1, TypeParts DEF LevelsInv, Inv
    <3> QED BY <1>2, <3>1 DEF LogOK
  <2>3. ControlOK' /\ CompactionDue'
    BY <1>2 DEF ControlOK, CompactionDue, NoGc
  <2>4. TypeOK'
    BY <1>7, <2>1, <2>2, <2>3 DEF TypeOK, MemOK, TablesOK, LogOK, ControlOK
  <2> QED BY <1>7, <2>3, <2>4 DEF LevelsInv, Inv
<1>9. DiskOK'
  <2>1. \A l \in DOMAIN disk : IsFiniteSet(disk[l]) /\ \A f \in disk[l] : f.table \in LoadAll
    <3>1. \A l \in DOMAIN disk : \A f \in disk[l] : f.table \in TablesIn(l)
      BY DEF TablesIn
    <3> QED BY <1>1, <3>1, TablesInFinite DEF DiskOK
  <2>2. /\ \E b \in Nat : DOMAIN disk \subseteq 0 .. b
        /\ disk = [l \in DOMAIN disk |-> disk[l]]
    BY <1>1 DEF DiskOK
  <2>3. \A l \in DOMAIN disk : IsFiniteSet(disk[l]) /\ \A f \in disk[l] : IsTable(f.table, Keys, Stamps')
    BY <1>6, <2>1
  <2> QED BY <1>2, <2>2, <2>3 DEF DiskOK, Made
<1>10. \A l \in Nat \ {0} : TablesOf(l)' \subseteq loaded'
  <2>1. \A l \in DOMAIN levels' : levels'[l] \subseteq LoadAll
    BY <1>1, <1>2, LoadedLevels
  <2> QED BY <1>2, <2>1 DEF TablesOf
<1>11. IoOK' /\ Follows'
  <2>1. CASE disk = <<>>
    <3>1. /\ IoOK' /\ ~Wiping'
          /\ \A l, t : ~ToWrite(l, t)' /\ ~ToRemove(l, t)'
      BY <1>2, <2>1, NothingQueuedNext
    <3>2. \A l, t : ~OnFile(l, t)'
      BY <1>2, <2>1, NoTables DEF OnFile
    <3>3. \A l, t : ~WillBe(l, t)'
      BY <3>1, <3>2 DEF WillBe
    <3> QED BY <1>10, <3>1, <3>3 DEF Follows
  <2>2. CASE disk # <<>>
    <3>1. IoOK' /\ Wiping'
      BY <1>2, <2>2, WipeQueued
    <3> QED BY <1>10, <3>1 DEF Follows
  <2> QED BY <2>1, <2>2
<1> QED BY <1>7, <1>8, <1>9, <1>11 DEF DInv

LEMMA StoreStepKeeps ==
  ASSUME DInv, StoreStep
  PROVE  /\ DInv'
         /\ \A l, t : ToWrite(l, t)' => \/ Flush /\ t = NewTable
                                        \/ CompactLevel0 /\ t \in New0
                                        \/ Compact /\ t \in New
<1>1. LevelsInv' /\ TablesOK' /\ DiskOK'
  BY StoreStepTypes
<1>2. FiniteLevels'
  BY <1>1 DEF LevelsInv
<1>3. /\ IoOK' /\ Follows'
      /\ \A l, t : ToWrite(l, t)' => \/ Flush /\ t = NewTable
                                     \/ CompactLevel0 /\ t \in New0
                                     \/ Compact /\ t \in New
  <2>1. CASE Flush /\ io' = FlushFiles
    BY <2>1, FlushFollows
  <2>2. CASE CompactLevel0 /\ io' = Level0Files
    BY <2>2, Level0Follows
  <2>3. CASE Compact /\ io' = CompactFiles
    BY <2>3, CompactFollows
  <2>4. CASE Reset /\ io' = <<Wipe>>
    <3>1. /\ IoOK' /\ Wiping'
          /\ \A l, t : ~ToWrite(l, t)' /\ ~ToRemove(l, t)'
      BY <2>4, WipeQueued
    <3>2. \A l : TablesOf(l)' = {}
      BY <2>4, NoTables DEF Reset, TablesOf
    <3> QED BY <3>1, <3>2 DEF Follows
  <2>5. CASE UNCHANGED <<level0, levels, timeId>> /\ io' = io
    <3>1. io' = <<>> /\ disk' = disk /\ loaded' = loaded
      BY <2>5, StoreStepCases
    <3>2. /\ IoOK' /\ ~Wiping'
          /\ \A l, t : ~ToWrite(l, t)' /\ ~ToRemove(l, t)'
      BY <3>1, NothingQueuedNext
    <3>3. ASSUME NEW l \in Nat \ {0}, NEW t
          PROVE  /\ t \in TablesOf(l)' /\ t \notin loaded' => WillBe(l, t)'
                 /\ WillBe(l, t)' => t \in TablesOf(l)'
      <4>1. /\ t \in TablesOf(l) /\ t \notin loaded => OnFile(l, t)
            /\ OnFile(l, t) => t \in TablesOf(l)
            /\ WillBe(l, t)' <=> (OnFile(l, t) /\ ~ToRemove(l, t)') \/ ToWrite(l, t)'
        BY <3>1, <3>2, StoreStepCases, FollowsStart DEF DInv
      <4>2. TablesOf(l)' = TablesOf(l)
        BY <2>5 DEF TablesOf
      <4> QED BY <3>1, <3>2, <4>1, <4>2
    <3> QED BY <3>2, <3>3 DEF Follows
  <2> QED BY <2>1, <2>2, <2>3, <2>4, <2>5, StoreStepCases
<1>4. DInv'
  BY <1>1, <1>2, <1>3 DEF DInv
<1> QED BY <1>3, <1>4

LEMMA FileStepKeepsDInv ==
  ASSUME DInv, FileStep
  PROVE  DInv'
<1>1. TablesOK /\ FiniteLevels /\ DiskOK /\ IoOK /\ Follows /\ (pc # "dead" => LevelsInv)
  BY DEF DInv
<1>2. Stamps \in Nat
  BY <1>1 DEF TablesOK, Stamps
<1>3. /\ UNCHANGED <<vars, loaded, torn, restarts>> /\ io # <<>>
      /\ DiskOK' /\ IoOK'
      /\ ~Wiping => ~Wiping' /\ \A l \in Nat \ {0} : \A t : WillBe(l, t)' <=> WillBe(l, t)
      /\ Wiping => Wiping' \/ (io' = <<>> /\ disk' = <<>>)
  BY <1>1, <1>2, FileStepKeeps
<1>4. UNCHANGED <<level0, levels, timeId, pc, loaded>> /\ [Next]_vars
  BY <1>3 DEF vars
<1>5. TablesOK' /\ FiniteLevels' /\ (pc' # "dead" => LevelsInv')
  <2>1. TablesOK' /\ FiniteLevels'
    BY <1>1, <1>4 DEF TablesOK, FiniteLevels, Made, Stamps
  <2>2. pc' # "dead" => LevelsInv'
    BY <1>1, <1>4, LevelsInvInductive
  <2> QED BY <2>1, <2>2
<1>6. \A l : TablesOf(l)' = TablesOf(l) /\ loaded' = loaded
  BY <1>4 DEF TablesOf
<1>7. Follows'
  <2>1. CASE ~Wiping
    <3>1. ~Wiping' /\ \A l \in Nat \ {0} : \A t : WillBe(l, t)' <=> WillBe(l, t)
      BY <1>3, <2>1
    <3>2. \A l \in Nat \ {0} : \A t :
            /\ t \in TablesOf(l) /\ t \notin loaded => WillBe(l, t)
            /\ WillBe(l, t) => t \in TablesOf(l)
      BY <1>1, <2>1 DEF Follows
    <3>3. ASSUME NEW l \in Nat \ {0}, NEW t
          PROVE  /\ t \in TablesOf(l)' /\ t \notin loaded' => WillBe(l, t)'
                 /\ WillBe(l, t)' => t \in TablesOf(l)'
      BY <1>6, <3>1, <3>2
    <3> QED BY <3>1, <3>3 DEF Follows
  <2>2. CASE Wiping
    <3>1. \A l \in Nat \ {0} : TablesOf(l)' \subseteq loaded'
      <4>1. \A l \in Nat \ {0} : TablesOf(l) \subseteq loaded
        BY <1>1, <2>2 DEF Follows
      <4> QED BY <1>6, <4>1
    <3>2. ASSUME io' = <<>>, disk' = <<>>, NEW l, NEW t
          PROVE  ~WillBe(l, t)'
      <4>1. ~OnFile(l, t)'
        BY <3>2, NoTables DEF OnFile
      <4>2. ~ToWrite(l, t)'
        BY <3>2, NothingQueuedNext
      <4> QED BY <4>1, <4>2 DEF WillBe
    <3>3. ~Wiping' => io' = <<>> /\ disk' = <<>>
      BY <1>3, <2>2
    <3> QED BY <3>1, <3>2, <3>3 DEF Follows
  <2> QED BY <2>1, <2>2
<1> QED BY <1>3, <1>5, <1>7 DEF DInv

(* Nothing that DInv is about changes but what the process does next. *)
LEMMA UnchangedKeepsDInv ==
  ASSUME DInv, UNCHANGED <<level0, levels, timeId, disk, io, loaded>>,
         pc' # "dead" => UNCHANGED vars
  PROVE  DInv'
<1>1. TablesOK' /\ FiniteLevels'
  BY DEF DInv, TablesOK, FiniteLevels, Made, Stamps
<1>2. pc' # "dead" => LevelsInv'
  <2> SUFFICES ASSUME pc' # "dead" PROVE LevelsInv'
    OBVIOUS
  <2>1. UNCHANGED vars /\ pc' = pc /\ [Next]_vars
    BY DEF vars
  <2> QED BY <2>1, LevelsInvInductive DEF DInv
<1>3. DiskOK'
  BY DEF DInv, DiskOK, Made, Stamps
<1>4. /\ \A l, t : (ToWrite(l, t)' <=> ToWrite(l, t)) /\ (ToRemove(l, t)' <=> ToRemove(l, t))
      /\ \A l, t : OnFile(l, t)' <=> OnFile(l, t)
      /\ \A l : TablesOf(l)' = TablesOf(l)
      /\ Wiping' <=> Wiping
  BY DEF ToWrite, ToRemove, OnFile, TablesOf, Wiping
<1>5. \A l, t : WillBe(l, t)' <=> WillBe(l, t)
  BY <1>4 DEF WillBe
<1>6. Stamps' = Stamps
  BY DEF Stamps
<1>7. IoOK'
  <2>1. /\ io \in Seq(Range(io)) /\ \A i \in DOMAIN io : IsOp(io[i], Stamps)
        /\ \A i \in DOMAIN io : io[i].op = "wipe" => DOMAIN io = {1}
        /\ \A i \in DOMAIN io : io[i].op = "write" =>
             \/ i = 1 /\ io[1].level \in DOMAIN disk
             \/ i = 2 /\ io[1] = MakeDir(io[2].level)
        /\ \A l, t : ~(ToWrite(l, t) /\ ToRemove(l, t))
    BY DEF DInv, IoOK
  <2>2. \A l, t : ~(ToWrite(l, t)' /\ ToRemove(l, t)')
    BY <1>4, <2>1
  <2> QED BY <1>6, <2>1, <2>2, Zenon DEF IoOK
<1>8. Follows'
  BY <1>4, <1>5 DEF DInv, Follows
<1> QED BY <1>1, <1>2, <1>3, <1>7, <1>8 DEF DInv

LEMMA DInvInductive ==
  /\ DurableInit => DInv
  /\ DInv /\ [DurableNext]_allVars => DInv'
<1>1. ASSUME DurableInit PROVE DInv
  <2>1. LevelsInv
    BY <1>1, LevelsInvInductive DEF DurableInit
  <2>2. TablesOK /\ FiniteLevels
    BY <2>1, TypeParts DEF LevelsInv, Inv
  <2>3. disk = <<>> /\ io = <<>> /\ levels = <<>>
    BY <1>1 DEF DurableInit, Init
  <2>4. /\ IoOK /\ ~Wiping /\ \A l, t : ~ToWrite(l, t) /\ ~ToRemove(l, t)
    BY <2>3, NothingQueued
  <2>5. DiskOK /\ \A l, t : ~OnFile(l, t)
    <3>1. DOMAIN disk = {}
      BY <2>3, NoTables
    <3>2. disk = [l \in DOMAIN disk |-> disk[l]]
      BY <2>3
    <3>3. DOMAIN disk \subseteq 0 .. 0 /\ 0 \in Nat
      BY <3>1
    <3> QED BY <3>1, <3>2, <3>3 DEF DiskOK, OnFile
  <2>6. \A l : TablesOf(l) = {}
    BY <2>3, NoTables DEF TablesOf
  <2>7. Follows
    BY <2>4, <2>5, <2>6 DEF Follows, WillBe
  <2> QED BY <2>1, <2>2, <2>4, <2>5, <2>7 DEF DInv
<1>2. ASSUME DInv, [DurableNext]_allVars PROVE DInv'
  <2>1. CASE StoreStep
    BY <1>2, <2>1, StoreStepKeeps
  <2>2. CASE FileStep
    BY <1>2, <2>2, FileStepKeepsDInv
  <2>3. CASE Restart
    BY <1>2, <2>3, RestartTypes
  <2>4. CASE RestartFails
    BY <1>2, <2>4, UnchangedKeepsDInv DEF RestartFails, tables
  <2>5. CASE UNCHANGED allVars
    BY <1>2, <2>5, UnchangedKeepsDInv DEF allVars, vars, files
  <2> QED BY <1>2, <2>1, <2>2, <2>3, <2>4, <2>5 DEF DurableNext
<1> QED BY <1>1, <1>2

(* Kills and restarts keep the types of the store's variables, until a      *)
(* start fails on an empty directory (SSTableHandler.cc, init).             *)
THEOREM DurableTypes == DurableSpec => [](pc # "dead" => TypeOK)
<1>1. DurableInit => DInv
  BY DInvInductive
<1>2. DInv /\ [DurableNext]_allVars => DInv'
  BY DInvInductive
<1>3. DInv => (pc # "dead" => TypeOK)
  BY DEF DInv, LevelsInv, Inv
<1> QED BY <1>1, <1>2, <1>3, PTL DEF DurableSpec

(* Once its file operations are done, every table of a level below 0 that   *)
(* was made since the start has its file, and there is no other file there: *)
(* however compactions cascade, whatever the keys, and across kills and     *)
(* restarts (SSTableHandler.cc, compactLevel0 and compact).                 *)
THEOREM FilesFollowLevels == DurableSpec => []DiskFollowsLevels
<1>1. DurableInit => DInv
  BY DInvInductive
<1>2. DInv /\ [DurableNext]_allVars => DInv'
  BY DInvInductive
<1>3. DInv => DiskFollowsLevels
  <2> SUFFICES ASSUME DInv, io = <<>>, NEW l \in (DOMAIN levels \cup DOMAIN disk) \ {0}
               PROVE  LET found == IF l \in DOMAIN disk THEN TablesIn(l) ELSE {}
                      IN  TablesOf(l) \ loaded \subseteq found /\ found \subseteq TablesOf(l)
    BY DEF DiskFollowsLevels
  <2> DEFINE found == IF l \in DOMAIN disk THEN TablesIn(l) ELSE {}
  <2>1. l \in Nat \ {0}
    <3>1. levels \in Seq(Range(levels))
      BY DEF DInv, TablesOK
    <3>2. DOMAIN levels \subseteq Nat
      BY <3>1, SeqFacts
    <3>3. DOMAIN disk \subseteq Nat
      BY DEF DInv, DiskOK
    <3> QED BY <3>2, <3>3
  <2>2. \A t : t \in found <=> OnFile(l, t)
    BY DEF TablesIn, OnFile
  <2>3. ~Wiping /\ \A d, t : ~ToWrite(d, t) /\ ~ToRemove(d, t)
    BY NothingQueued
  <2>4. \A t : /\ t \in TablesOf(l) /\ t \notin loaded => WillBe(l, t)
               /\ WillBe(l, t) => t \in TablesOf(l)
    BY <2>1, <2>3 DEF DInv, Follows
  <2>5. \A t : WillBe(l, t) <=> OnFile(l, t)
    BY <2>3 DEF WillBe
  <2> HIDE DEF found
  <2>6. TablesOf(l) \ loaded \subseteq found /\ found \subseteq TablesOf(l)
    BY <2>2, <2>4, <2>5
  <2> QED BY <2>6 DEF found
<1> QED BY <1>1, <1>2, <1>3, PTL DEF DurableSpec

------------------------------------------------------------------------------
(* What restarts read *)

(* A table whose values are logged: each of its offsets is one the log has  *)
(* given out, and the record there, unless gc has punched it, is of the key.*)
Logged1(item, k) ==
  item.vlen # 0 => /\ item.off \in 0 .. tail - 1
                   /\ item.off \in DOMAIN vlog => vlog[item.off].key = k
Sound(t) == \A k \in KeysOf(t) : Logged1(t.items[k], k)

(* reset has emptied the log and is taking the files away. *)
Resetting == call = API!ResetCall /\ Wiping

SoundInv == ~torn =>
  /\ \A i \in DOMAIN level0 : Sound(level0[i])
  /\ \A l \in DOMAIN levels : \A t \in levels[l] : Sound(t)
  /\ ~Resetting => \A l, t : OnFile(l, t) => Sound(t)
  /\ \A l, t : ToWrite(l, t) => Sound(t)

LEMMA SplitFromSound ==
  ASSUME NEW D, NEW f \in [D -> Items], NEW last, NEW a,
         \A k \in D : Logged1(f[k], k),
         NEW t \in Split(Kept(f, last), a)
  PROVE  Sound(t)
<1> DEFINE g == Kept(f, last)
           E == {k \in D : ~(last /\ f[k].vlen = 0)}
<1>1. g \in [E -> Items] /\ \A k \in E : g[k] = f[k] /\ k \in D
  BY DEF Kept, Restrict
<1> HIDE DEF g, E
<1>2. \A k \in KeysOf(t) : k \in E /\ t.items[k] = g[k]
  <2>1. t \in Split(g, a)
    BY DEF g
  <2> QED BY <1>1, <2>1, SplitItems
<1> QED BY <1>1, <1>2 DEF Sound

LEMMA MergedFromSound ==
  ASSUME Stamps \in Nat, NEW S, \A t \in S : Made(t) /\ Sound(t)
  PROVE  /\ Merged(S) \in [UNION {KeysOf(t) : t \in S} -> Items]
         /\ \A k \in UNION {KeysOf(t) : t \in S} : Logged1(Merged(S)[k], k)
<1>1. \A t \in S : IsTable(t, Keys, Stamps)
  BY DEF Made
<1>2. Merged(S) \in [UNION {KeysOf(t) : t \in S} -> Items]
  BY <1>1, KeysBounded, MergedItems
<1>3. ASSUME NEW k \in UNION {KeysOf(t) : t \in S}
      PROVE  Logged1(Merged(S)[k], k)
  <2> DEFINE H == Holding(S, k)
  <2>1. H # {} /\ \A t \in H : t \in S /\ k \in KeysOf(t) /\ IsTable(t, Keys, Stamps)
    BY <1>1 DEF Holding
  <2>2. Merged(S)[k] = Newest(H).items[k]
    BY DEF Merged
  <2> HIDE DEF H
  <2>3. Newest(H) \in H
    BY <2>1, KeysBounded, NewestInSet
  <2> QED BY <2>1, <2>2, <2>3 DEF Sound
<1> QED BY <1>2, <1>3

LEMMA New0Sound ==
  ASSUME Inv, CompactLevel0, \A t \in From0 \cup Into0 : Sound(t)
  PROVE  \A t \in New0 : Sound(t)
<1> DEFINE S == From0 \cup Into0
           D == UNION {KeysOf(t) : t \in S}
           m == Merged(S)
           last == Len(levels) = 0
           a == MaxTimeId(From0 \cup Into0)
<1>1. Stamps \in Nat
  BY DEF Inv, TypeOK, Stamps
<1>2. \A t \in S : Made(t) /\ Sound(t)
  <2>1. Into0 \subseteq Lower0
    BY DEF Into0, Lower0, Overlapping
  <2> QED BY <2>1, CompactLevel0Shape
<1>3. New0 = Split(Kept(m, last), a)
  BY DEF New0
<1> HIDE DEF S
<1>4. m \in [D -> Items] /\ \A k \in D : Logged1(m[k], k)
  BY <1>1, <1>2, MergedFromSound
<1> HIDE DEF D, m, last, a
<1> QED BY <1>3, <1>4, SplitFromSound

LEMMA NewSound ==
  ASSUME Inv, Compact, \A t \in From \cup Into : Sound(t)
  PROVE  \A t \in New : Sound(t)
<1> DEFINE D == UNION {KeysOf(t) : t \in From}
           E == UNION {KeysOf(t) : t \in Into}
           m == Merged(From)
           n == Merged(Into)
           f == Overriding(m, n)
           last == Len(levels) = depth
           a == MaxTimeId(From)
<1>1. Stamps \in Nat
  BY DEF Inv, TypeOK, Stamps
<1>2. \A t \in From \cup Into : Made(t) /\ Sound(t)
  <2>1. Into \subseteq Lower
    BY DEF Into, Lower, Overlapping
  <2> QED BY <2>1, CompactShape
<1>3. New = Split(Kept(f, last), a)
  BY DEF New
<1>4. m \in [D -> Items] /\ \A k \in D : Logged1(m[k], k)
  BY <1>1, <1>2, MergedFromSound
<1>5. n \in [E -> Items] /\ \A k \in E : Logged1(n[k], k)
  BY <1>1, <1>2, MergedFromSound
<1> HIDE DEF D, E, m, n
<1>6. f \in [D \cup E -> Items] /\ \A k \in D \cup E : Logged1(f[k], k)
  <2>1. f = [x \in D \cup E |-> IF x \in D THEN m[x] ELSE n[x]]
    BY <1>4, <1>5 DEF Overriding
  <2> HIDE DEF f
  <2> QED BY <1>4, <1>5, <2>1
<1> DEFINE G == D \cup E
<1>7. f \in [G -> Items] /\ \A k \in G : Logged1(f[k], k)
  BY <1>6
<1> HIDE DEF f, last, a, G
<1> QED BY <1>3, <1>7, SplitFromSound

(* The item get finds is one of a table. *)
LEMMA ItemSource ==
  ASSUME TablesOK, NEW k \in Keys
  PROVE  \/ Item(k) = NoItem
         \/ \E i \in DOMAIN level0 : k \in KeysOf(level0[i]) /\ Item(k) = level0[i].items[k]
         \/ \E l \in DOMAIN levels : \E t \in levels[l] :
              k \in KeysOf(t) /\ Item(k) = t.items[k]
<1>1. /\ Len(level0) \in Nat /\ DOMAIN level0 = 1 .. Len(level0)
      /\ Len(levels) \in Nat /\ DOMAIN levels = 1 .. Len(levels)
  BY SeqFacts DEF TablesOK
<1>2. CASE Level0With(k) # {}
  <2> DEFINE W == Level0With(k)
  <2>1. W \in SUBSET Nat /\ (\A x \in W : x <= Len(level0))
    BY <1>1 DEF Level0With
  <2>2. Max(W) \in W
    <3> HIDE DEF W
    <3>1. W # {}
      BY <1>2 DEF W
    <3> QED BY <1>1, <2>1, <3>1, MaxInSet
  <2>3. Max(Level0With(k)) \in DOMAIN level0 /\ k \in KeysOf(level0[Max(Level0With(k))])
    BY <2>2 DEF Level0With
  <2> QED BY <1>2, <2>3 DEF Item
<1>3. CASE Level0With(k) = {} /\ LevelsWith(k) # {}
  <2> DEFINE W == LevelsWith(k)
  <2>1. W \in SUBSET Nat
    BY <1>1 DEF LevelsWith
  <2>2. Min(W) \in W
    <3> HIDE DEF W
    <3>1. W # {}
      BY <1>3 DEF W
    <3> QED BY <2>1, <3>1, MinInSet
  <2>3. Min(W) \in DOMAIN levels /\ Holding(levels[Min(W)], k) # {}
    BY <2>2 DEF LevelsWith
  <2> DEFINE H == Holding(levels[Min(W)], k)
  <2>4. /\ Stamps \in Nat
        /\ \A t \in H : t \in levels[Min(W)] /\ k \in KeysOf(t) /\ IsTable(t, Keys, Stamps)
    BY <2>3 DEF Holding, TablesOK, Stamps, Made
  <2>5. Item(k) = Newest(H).items[k] /\ H # {}
    BY <1>3, <2>3 DEF Item
  <2> HIDE DEF H, W
  <2>6. Newest(H) \in H
    BY <2>4, <2>5, KeysBounded, NewestInSet
  <2> QED BY <2>3, <2>4, <2>5, <2>6
<1>4. CASE Level0With(k) = {} /\ LevelsWith(k) = {}
  BY <1>4 DEF Item
<1> QED BY <1>2, <1>3, <1>4

(* Offsets given out stay given out while the log only grows or is punched. *)
LEMMA SoundStays ==
  ASSUME LogOK, tail' \in Nat, tail <= tail',
         \A off \in DOMAIN vlog' : off \in 0 .. tail - 1 =>
           off \in DOMAIN vlog /\ vlog'[off] = vlog[off]
  PROVE  \A t : Sound(t) => Sound(t)'
<1> SUFFICES ASSUME NEW t, Sound(t), NEW k \in KeysOf(t), t.items[k].vlen # 0
             PROVE  /\ t.items[k].off \in 0 .. tail' - 1
                    /\ t.items[k].off \in DOMAIN vlog' => vlog'[t.items[k].off].key = k
  BY DEF Sound, Logged1
<1> DEFINE off == t.items[k].off
           a == tail
           b == tail'
<1>1. /\ off \in 0 .. a - 1
      /\ off \in DOMAIN vlog => vlog[off].key = k
  BY DEF Sound, Logged1
<1>2. a \in Nat /\ b \in Nat /\ a <= b
  BY DEF LogOK
<1>5. \A x \in DOMAIN vlog' : x \in 0 .. a - 1 => x \in DOMAIN vlog /\ vlog'[x] = vlog[x]
  OBVIOUS
<1> HIDE DEF off, a, b
<1>3. off \in 0 .. b - 1
  BY <1>1, <1>2
<1>4. off \in DOMAIN vlog' => vlog'[off].key = k
  BY <1>1, <1>5
<1> QED BY <1>3, <1>4 DEF off, b

SInv == /\ DInv /\ SoundInv
        /\ torn \in BOOLEAN /\ restarts \in Nat
        /\ pc # "dead" => LogInv
        /\ restarts = 0 => BackedInv

LEMMA FlushSound ==
  ASSUME SInv, StoreStep, Flush, ~torn
  PROVE  \A t : Sound(t) \/ t = NewTable => Sound(t)'
<1>1. Inv /\ streamOk /\ LogOK
  <2>1. LevelsInv /\ pc # "dead"
    BY StoreStepTypes, StoreStepCases DEF SInv
  <2> QED BY <2>1, TypeParts DEF SInv, LevelsInv, Inv, LogInv
<1>2. /\ tail \in Nat /\ tail' \in Nat /\ tail <= tail'
      /\ DOMAIN vlog' = DOMAIN vlog \cup (tail .. tail' - 1)
      /\ \A off \in DOMAIN vlog : vlog'[off] = vlog[off]
      /\ \A k \in Logged :
           /\ NewOffset(k) \in tail .. tail' - 1
           /\ vlog'[NewOffset(k)] = [key |-> k, val |-> memtable[k]]
  BY <1>1, FlushLog
<1>3. \A t : Sound(t) => Sound(t)'
  <2>1. \A off \in DOMAIN vlog' : off \in 0 .. tail - 1 =>
          off \in DOMAIN vlog /\ vlog'[off] = vlog[off]
    BY <1>2
  <2> QED BY <1>1, <1>2, <2>1, SoundStays
<1>4. /\ KeysOf(NewTable) = DOMAIN memtable
      /\ \A k \in DOMAIN memtable :
           NewTable.items[k].off = NewOffset(k) /\ NewTable.items[k].vlen = VLen(memtable[k])
  BY DEF NewTable, Table, KeysOf
<1>5. ASSUME NEW k \in DOMAIN memtable, VLen(memtable[k]) # 0
      PROVE  /\ NewOffset(k) \in 0 .. tail' - 1
             /\ vlog'[NewOffset(k)].key = k
  <2> DEFINE a == tail
             b == tail'
             off == NewOffset(k)
  <2>1. k \in Logged
    BY <1>5 DEF Logged, VLen
  <2>2. /\ a \in Nat /\ b \in Nat /\ off \in a .. b - 1
        /\ vlog'[off] = [key |-> k, val |-> memtable[k]]
    BY <1>2, <2>1
  <2> HIDE DEF a, b, off
  <2>3. off \in 0 .. b - 1 /\ vlog'[off].key = k
    BY <2>2
  <2> QED BY <2>3 DEF b, off
<1>6. ASSUME NEW t, t = NewTable
      PROVE  Sound(t)'
  <2>1. /\ KeysOf(t) = DOMAIN memtable
        /\ \A k \in DOMAIN memtable :
             t.items[k].off = NewOffset(k) /\ t.items[k].vlen = VLen(memtable[k])
    BY <1>4, <1>6
  <2>2. \A k \in KeysOf(t) : t.items[k].vlen # 0 =>
          /\ t.items[k].off \in 0 .. tail' - 1
          /\ t.items[k].off \in DOMAIN vlog' => vlog'[t.items[k].off].key = k
    BY <1>5, <2>1
  <2> QED BY <2>2 DEF Sound, Logged1
<1> QED BY <1>3, <1>6

LEMMA OthersSound ==
  ASSUME LogOK, [Next]_vars, ~Flush, ~Reset
  PROVE  \A t : Sound(t) => Sound(t)'
<1>1. tail' = tail
  <2>1. CASE UNCHANGED vars
    BY <2>1 DEF vars
  <2>2. CASE Invoke
    BY <2>2 DEF Invoke, Put, Del, GcNothing, GcStart, log
  <2>3. CASE Continue
    BY <2>3 DEF Continue, FlushNothing, CompactLevel0, Compact, Clean, GcMove, GcSkip,
                GcReadFails, GcFlush, GcPunch, Return, log
  <2> QED BY <2>1, <2>2, <2>3 DEF Next
<1>2. \A off \in DOMAIN vlog' : off \in DOMAIN vlog /\ vlog'[off] = vlog[off]
  <2>1. CASE GcPunch
    BY <2>1 DEF GcPunch, Restrict
  <2>2. CASE UNCHANGED vlog
    BY <2>2
  <2> QED BY <2>1, <2>2, LogCases
<1>3. tail' \in Nat /\ tail <= tail'
  BY <1>1 DEF LogOK
<1> QED BY <1>2, <1>3, SoundStays

LEMMA StoreStepSound ==
  ASSUME SInv, StoreStep
  PROVE  SoundInv'
<1> SUFFICES ASSUME ~torn
             PROVE  /\ \A i \in DOMAIN level0' : Sound(level0[i])'
                    /\ \A l \in DOMAIN levels' : \A t \in levels'[l] : Sound(t)'
                    /\ ~Resetting' => \A l, t : OnFile(l, t)' => Sound(t)'
                    /\ \A l, t : ToWrite(l, t)' => Sound(t)'
  <2>1. torn' = torn
    BY StoreStepCases
  <2> QED BY <2>1 DEF SoundInv
<1>1. /\ [Next]_vars /\ pc # "dead" /\ io = <<>> /\ disk' = disk
      /\ Inv /\ LogOK /\ LogInv /\ TablesOK
  <2>1. LevelsInv /\ [Next]_vars /\ pc # "dead" /\ io = <<>> /\ disk' = disk
    BY StoreStepTypes, StoreStepCases DEF SInv
  <2> QED BY <2>1, TypeParts DEF SInv, LevelsInv, Inv
<1>2. ~Resetting
  BY <1>1, NothingQueued DEF Resetting
<1>3. /\ \A i \in DOMAIN level0 : Sound(level0[i])
      /\ \A l \in DOMAIN levels : \A t \in levels[l] : Sound(t)
      /\ \A l, t : OnFile(l, t) => Sound(t)
  BY <1>2 DEF SInv, SoundInv
<1>4. \A l, t : OnFile(l, t)' => OnFile(l, t)
  BY <1>1 DEF OnFile
<1>5. \A l, t : ToWrite(l, t)' => \/ Flush /\ t = NewTable
                                  \/ CompactLevel0 /\ t \in New0
                                  \/ Compact /\ t \in New
  BY StoreStepKeeps DEF SInv
<1>6. CASE Flush
  <2>1. \A t : Sound(t) \/ t = NewTable => Sound(t)'
    BY <1>6, FlushSound
  <2>2. pc = "flush" /\ level0' = Append(level0, NewTable) /\ levels' = levels
    BY <1>6 DEF Flush
  <2>3. ~CompactLevel0 /\ ~Compact
    BY <2>2 DEF CompactLevel0, Compact
  <2>4. level0 \in Seq(Range(level0)) /\ DOMAIN level0 = 1 .. Len(level0) /\ Len(level0) \in Nat
    BY <1>1, SeqFacts DEF TablesOK
  <2>5. \A i \in DOMAIN level0' :
          \/ level0'[i] = NewTable
          \/ i \in DOMAIN level0 /\ level0'[i] = level0[i]
    <3>1. /\ DOMAIN level0' = 1 .. Len(level0) + 1
          /\ \A i \in 1 .. Len(level0) + 1 :
               level0'[i] = IF i = Len(level0) + 1 THEN NewTable ELSE level0[i]
      BY <2>2, <2>4, AppendFacts
    <3> QED BY <2>4, <3>1
  <2>6. \A i \in DOMAIN level0' : Sound(level0'[i]) \/ level0'[i] = NewTable
    BY <1>3, <2>5
  <2>7. /\ \A l \in DOMAIN levels' : \A t \in levels'[l] : Sound(t)'
        /\ \A l, t : OnFile(l, t)' => Sound(t)'
        /\ \A l, t : ToWrite(l, t)' => Sound(t)'
    BY <1>3, <1>4, <1>5, <2>1, <2>2, <2>3
  <2>8. \A i \in DOMAIN level0' : \A t : t = level0'[i] => Sound(t)'
    BY <2>1, <2>6
  <2>9. \A i \in DOMAIN level0' : Sound(level0[i])'
    BY <2>8 DEF Sound, Logged1
  <2> QED BY <2>7, <2>9
<1>7. CASE Reset
  <2>1. /\ level0' = <<>> /\ levels' = <<>> /\ call' = API!ResetCall /\ pc = "idle"
    BY <1>7 DEF Reset
  <2>2. ~Flush /\ ~CompactLevel0 /\ ~Compact
    BY <2>1 DEF Flush, CompactLevel0, Compact
  <2>3. io' = <<Wipe>>
    BY <1>7, <2>2, StoreStepCases
  <2>4. Resetting'
    BY <2>1, <2>3, WipeQueued DEF Resetting
  <2>5. DOMAIN level0' = {} /\ DOMAIN levels' = {}
    BY <2>1, NoTables
  <2> QED BY <1>5, <2>2, <2>4, <2>5
<1>8. CASE ~Flush /\ ~Reset
  <2>1. \A t : Sound(t) => Sound(t)'
    BY <1>1, <1>8, OthersSound
  <2>2. \A l, t : OnFile(l, t)' => Sound(t)'
    BY <1>3, <1>4, <2>1
  <2>3. ASSUME \A i \in DOMAIN level0' : i \in DOMAIN level0 /\ level0'[i] = level0[i]
        PROVE  \A i \in DOMAIN level0' : Sound(level0[i])'
    <3>1. \A i \in DOMAIN level0' : \A t : t = level0'[i] => Sound(t)'
      BY <1>3, <2>1, <2>3
    <3> QED BY <3>1 DEF Sound, Logged1
  <2>4. CASE CompactLevel0
    <3>1. /\ level0' = <<>> /\ DOMAIN level0' = {}
          /\ pc = "compactLevel0"
      BY <2>4, NoTables DEF CompactLevel0
    <3>2. /\ levels'[1] = (Lower0 \ Into0) \cup New0
          /\ (1 \in DOMAIN levels /\ Lower0 = levels[1]) \/ (1 \notin DOMAIN levels /\ Lower0 = {})
          /\ \A i \in DOMAIN levels' : i = 1 \/ (i \in DOMAIN levels /\ levels'[i] = levels[i])
      BY <1>1, <2>4, CompactLevel0Shape
    <3>3. \A t \in Lower0 : Sound(t)
      BY <1>3, <3>2
    <3>4. \A t \in From0 \cup Into0 : Sound(t)
      <4>1. Into0 \subseteq Lower0
        BY DEF Into0, Lower0, Overlapping
      <4>2. \A t \in From0 : \E i \in DOMAIN level0 : t = level0[i]
        BY DEF From0, Range
      <4> QED BY <1>3, <3>3, <4>1, <4>2
    <3>5. \A t \in New0 : Sound(t)
      BY <1>1, <2>4, <3>4, New0Sound
    <3>6. ~Compact
      BY <3>1 DEF Compact
    <3>7. \A l \in DOMAIN levels' : \A t \in levels'[l] : Sound(t)
      BY <1>3, <3>2, <3>3, <3>5
    <3> QED BY <1>5, <1>8, <2>1, <2>2, <3>1, <3>5, <3>6, <3>7
  <2>5. CASE Compact
    <3>1. level0' = level0 /\ pc = "compact"
      BY <2>5 DEF Compact
    <3>2. /\ From \subseteq levels[depth] /\ depth \in DOMAIN levels
          /\ levels'[depth] = levels[depth] \ From
          /\ levels'[depth + 1] = (Lower \ Into) \cup New
          /\ \/ depth + 1 \in DOMAIN levels /\ Lower = levels[depth + 1]
             \/ depth + 1 \notin DOMAIN levels /\ Lower = {}
          /\ \A i \in DOMAIN levels' :
               \/ i \in {depth, depth + 1}
               \/ i \in DOMAIN levels /\ levels'[i] = levels[i]
      BY <1>1, <2>5, CompactShape
    <3>3. \A t \in Lower : Sound(t)
      BY <1>3, <3>2
    <3>4. \A t \in From \cup Into : Sound(t)
      <4>1. Into \subseteq Lower
        BY DEF Into, Lower, Overlapping
      <4> QED BY <1>3, <3>2, <3>3, <4>1
    <3>5. \A t \in New : Sound(t)
      BY <1>1, <2>5, <3>4, NewSound
    <3>6. ~CompactLevel0
      BY <3>1 DEF CompactLevel0
    <3>7. \A l \in DOMAIN levels' : \A t \in levels'[l] : Sound(t)
      <4> SUFFICES ASSUME NEW l \in DOMAIN levels', NEW t \in levels'[l]
                   PROVE  Sound(t)
        OBVIOUS
      <4>1. CASE l = depth
        BY <1>3, <3>2, <4>1
      <4>2. CASE l = depth + 1
        BY <3>2, <3>3, <3>5, <4>2
      <4>3. CASE l \in DOMAIN levels /\ levels'[l] = levels[l]
        BY <1>3, <4>3
      <4> QED BY <3>2, <4>1, <4>2, <4>3
    <3>8. \A i \in DOMAIN level0' : Sound(level0[i])'
      BY <2>3, <3>1
    <3> QED BY <1>5, <1>8, <2>1, <2>2, <3>5, <3>6, <3>7, <3>8
  <2>6. CASE UNCHANGED <<level0, levels, timeId>> /\ ~CompactLevel0 /\ ~Compact
    <3>1. \A i \in DOMAIN level0' : Sound(level0[i])'
      BY <2>3, <2>6
    <3>2. \A l \in DOMAIN levels' : \A t \in levels'[l] : Sound(t)'
      BY <1>3, <2>1, <2>6
    <3> QED BY <1>5, <1>8, <2>2, <2>6, <3>1, <3>2
  <2> QED BY <1>8, <2>4, <2>5, <2>6, StoreStepCases
<1> QED BY <1>6, <1>7, <1>8

LEMMA FileStepSound ==
  ASSUME SInv, FileStep
  PROVE  SoundInv'
<1>1. /\ UNCHANGED <<vars, loaded, torn, restarts>>
      /\ \A l, t : /\ OnFile(l, t)' => OnFile(l, t) \/ ToWrite(l, t)
                   /\ ToWrite(l, t)' => ToWrite(l, t)
      /\ Wiping => Wiping' \/ (io' = <<>> /\ disk' = <<>>)
  <2>1. DiskOK /\ IoOK /\ Stamps \in Nat
    BY DEF SInv, DInv, TablesOK, Stamps
  <2> QED BY <2>1, FileStepKeeps
<1>2. UNCHANGED <<level0, levels, vlog, tail, call>> /\ torn' = torn
  BY <1>1 DEF vars, tables, log
<1> SUFFICES ASSUME ~torn
             PROVE  /\ \A i \in DOMAIN level0' : Sound(level0[i])'
                    /\ \A l \in DOMAIN levels' : \A t \in levels'[l] : Sound(t)'
                    /\ ~Resetting' => \A l, t : OnFile(l, t)' => Sound(t)'
                    /\ \A l, t : ToWrite(l, t)' => Sound(t)'
  BY <1>2 DEF SoundInv
<1>3. /\ \A i \in DOMAIN level0 : Sound(level0[i])
      /\ \A l \in DOMAIN levels : \A t \in levels[l] : Sound(t)
      /\ ~Resetting => \A l, t : OnFile(l, t) => Sound(t)
      /\ \A l, t : ToWrite(l, t) => Sound(t)
  BY DEF SInv, SoundInv
<1>4. \A t : Sound(t)' <=> Sound(t)
  BY <1>2 DEF Sound, Logged1
<1>5. \A i \in DOMAIN level0' : Sound(level0[i])'
  BY <1>2, <1>3 DEF Sound, Logged1
<1>6. ~Resetting' => \A l, t : OnFile(l, t)' => Sound(t)'
  <2>1. CASE ~Resetting
    BY <1>1, <1>3, <1>4, <2>1
  <2>2. CASE Resetting /\ ~Resetting'
    <3>1. disk' = <<>>
      BY <1>1, <1>2, <2>2 DEF Resetting
    <3> QED BY <3>1, NoTables DEF OnFile
  <2> QED BY <2>1, <2>2
<1> QED BY <1>1, <1>2, <1>3, <1>4, <1>5, <1>6

(* A start finds sound tables only, unless reset was killed halfway.        *)
LEMMA RestartSound ==
  ASSUME SInv, Restart
  PROVE  SoundInv'
<1>1. DiskOK /\ Stamps \in Nat
  BY DEF SInv, DInv, TablesOK, Stamps
<1>2. /\ level0' \in LoadOrders /\ levels' = LoadLevels /\ disk' = disk
      /\ vlog' = vlog /\ tail' = tail
      /\ io' = (IF disk = <<>> THEN <<>> ELSE <<Wipe>>)
      /\ torn' = (torn \/ (call = API!ResetCall /\ io # <<>> /\ disk # <<>>))
  BY DEF Restart, Killed, LogOpened
<1> SUFFICES ASSUME ~torn'
             PROVE  /\ \A i \in DOMAIN level0' : Sound(level0[i])'
                    /\ \A l \in DOMAIN levels' : \A t \in levels'[l] : Sound(t)'
                    /\ ~Resetting' => \A l, t : OnFile(l, t)' => Sound(t)'
                    /\ \A l, t : ToWrite(l, t)' => Sound(t)'
  BY DEF SoundInv
<1>3. ~torn /\ (Resetting => disk = <<>>)
  <2>1. torn \in BOOLEAN
    BY DEF SInv
  <2> QED BY <1>2, <2>1 DEF Resetting, Wiping
<1>4. \A l, t : OnFile(l, t) => Sound(t)
  <2>1. CASE Resetting
    <3>1. disk = <<>>
      BY <1>3, <2>1
    <3> QED BY <3>1, NoTables DEF OnFile
  <2>2. CASE ~Resetting
    BY <1>3, <2>2 DEF SInv, SoundInv
  <2> QED BY <2>1, <2>2
<1>5. \A t : Sound(t) => Sound(t)'
  BY <1>2 DEF Sound, Logged1
<1>6. \A t \in LoadAll : Sound(t)'
  BY <1>1, <1>4, <1>5, LoadedTables
<1>7. \A i \in DOMAIN level0' : Sound(level0[i])'
  <2>1. \A i \in DOMAIN level0' : level0'[i] \in LoadAll
    BY <1>1, <1>2, LoadedLevel0
  <2>2. \A i \in DOMAIN level0' : \A t : t = level0'[i] => Sound(t)'
    BY <1>6, <2>1
  <2> QED BY <2>2 DEF Sound, Logged1
<1>8. \A l \in DOMAIN levels' : \A t \in levels'[l] : Sound(t)'
  <2>1. \A l \in DOMAIN levels' : levels'[l] \subseteq LoadAll
    BY <1>1, <1>2, LoadedLevels
  <2> QED BY <1>6, <2>1
<1>9. \A l, t : OnFile(l, t)' => Sound(t)'
  BY <1>2, <1>4, <1>5 DEF OnFile
<1>10. \A l, t : ~ToWrite(l, t)'
  BY <1>2, NothingQueuedNext, WipeQueued
<1> QED BY <1>7, <1>8, <1>9, <1>10

LEMMA UnchangedSound ==
  ASSUME SInv, UNCHANGED <<level0, levels, vlog, tail, call, disk, io, torn>>
  PROVE  SoundInv'
<1>1. (Wiping' <=> Wiping) /\ (Resetting' <=> Resetting)
  BY DEF Wiping, Resetting
<1>2. \A t : Sound(t)' <=> Sound(t)
  BY DEF Sound, Logged1
<1>3. \A l, t : (OnFile(l, t)' <=> OnFile(l, t)) /\ (ToWrite(l, t)' <=> ToWrite(l, t))
  BY DEF OnFile, ToWrite
<1>4. \A i \in DOMAIN level0 : Sound(level0[i]) <=> Sound(level0[i])'
  BY DEF Sound, Logged1
<1> QED BY <1>1, <1>2, <1>3, <1>4 DEF SInv, SoundInv

LEMMA SInvInductive ==
  ASSUME NarrowKeys, GcWithinLog
  PROVE  /\ DurableInit => SInv
         /\ SInv /\ [DurableNext]_allVars => SInv'
<1>1. ASSUME DurableInit PROVE SInv
  <2>1. /\ Init /\ disk = <<>> /\ io = <<>> /\ torn = FALSE /\ restarts = 0
        /\ level0 = <<>> /\ levels = <<>>
    BY <1>1 DEF DurableInit, Init
  <2>2. DInv
    BY <1>1, DInvInductive
  <2>3. BackedInv
    BY <2>1, BackedInvInductive
  <2>4. \A l, t : ~OnFile(l, t) /\ ~ToWrite(l, t)
    BY <2>1, NoTables, NothingQueued DEF OnFile
  <2>5. DOMAIN level0 = {} /\ DOMAIN levels = {}
    BY <2>1, NoTables
  <2>6. SoundInv
    BY <2>4, <2>5 DEF SoundInv
  <2> QED BY <2>1, <2>2, <2>3, <2>6 DEF SInv, BackedInv
<1>2. ASSUME SInv, [DurableNext]_allVars PROVE SInv'
  <2>1. DInv'
    BY <1>2, DInvInductive DEF SInv
  <2>2. ASSUME [Next]_vars, restarts' = restarts, pc # "dead"
        PROVE  (pc' # "dead" => LogInv') /\ (restarts' = 0 => BackedInv')
    <3>1. LevelsInv /\ LogInv /\ (restarts = 0 => BackedInv)
      BY <1>2, <2>2 DEF SInv, DInv
    <3>2. LogInv'
      BY <2>2, <3>1, LogStep DEF LevelsInv
    <3>3. restarts' = 0 => BackedInv'
      BY <2>2, <3>1, BackedInvInductive
    <3> QED BY <3>2, <3>3
  <2>3. ASSUME UNCHANGED <<vars, restarts>>
        PROVE  (pc' # "dead" => LogInv') /\ (restarts' = 0 => BackedInv')
    <3>1. pc' = pc /\ [Next]_vars /\ restarts' = restarts
      BY <2>3 DEF vars
    <3>2. CASE pc # "dead"
      BY <2>2, <3>1, <3>2
    <3>3. CASE pc = "dead"
      <4>1. restarts = 0 => BackedInv
        BY <1>2 DEF SInv
      <4> QED BY <3>1, <3>3, <4>1, BackedInvInductive
    <3> QED BY <3>2, <3>3
  <2>4. CASE StoreStep
    <3>1. [Next]_vars /\ pc # "dead" /\ torn' = torn /\ restarts' = restarts
      BY <2>4, StoreStepCases
    <3>2. SoundInv'
      BY <1>2, <2>4, StoreStepSound
    <3> QED BY <1>2, <2>1, <2>2, <3>1, <3>2 DEF SInv
  <2>5. CASE FileStep
    <3>1. UNCHANGED <<vars, torn, restarts>>
      BY <2>5 DEF FileStep, Mkdir, WriteOne, RemoveOne, OperationDone, WipeOne, Idle
    <3>2. SoundInv'
      BY <1>2, <2>5, FileStepSound
    <3> QED BY <1>2, <2>1, <2>3, <3>1, <3>2 DEF SInv
  <2>6. CASE Restart
    <3>1. SoundInv'
      BY <1>2, <2>6, RestartSound
    <3>2. /\ torn' \in BOOLEAN /\ restarts' = restarts + 1 /\ pc # "dead"
          /\ pc' = "idle" /\ gc' = NoGc /\ streamOk' = TRUE
          /\ vlog' = vlog /\ tail' = tail
      BY <1>2, <2>6 DEF Restart, Killed, LogOpened, SInv
    <3>3. restarts' \in Nat /\ restarts' # 0
      BY <1>2, <3>2 DEF SInv
    <3>4. LogInv'
      BY <1>2, <3>2 DEF SInv, LogInv, Collecting
    <3> QED BY <2>1, <3>1, <3>2, <3>3, <3>4 DEF SInv
  <2>7. CASE RestartFails
    <3>1. /\ UNCHANGED <<level0, levels, vlog, tail, call, disk, io, torn>>
          /\ restarts' = restarts + 1 /\ pc' = "dead"
      BY <2>7 DEF RestartFails, tables, log
    <3>2. SoundInv'
      BY <1>2, <3>1, UnchangedSound
    <3>3. restarts' \in Nat /\ restarts' # 0 /\ torn' \in BOOLEAN
      BY <1>2, <3>1 DEF SInv
    <3> QED BY <2>1, <3>1, <3>2, <3>3 DEF SInv
  <2>8. CASE UNCHANGED allVars
    <3>1. /\ UNCHANGED <<vars, torn, restarts>>
          /\ UNCHANGED <<level0, levels, vlog, tail, call, disk, io, torn>>
      BY <2>8 DEF allVars, files, vars, tables, log
    <3>2. SoundInv'
      BY <1>2, <3>1, UnchangedSound
    <3> QED BY <1>2, <2>1, <2>3, <3>1, <3>2 DEF SInv
  <2> QED BY <1>2, <2>4, <2>5, <2>6, <2>7, <2>8 DEF DurableNext
<1> QED BY <1>1, <1>2

(* Whatever kills and restarts come, a value a table finds is in the log    *)
(* and belongs to its key, unless reset is killed between the log and the   *)
(* tables or the store is both restarted and punched by gc: for every store *)
(* of narrow tables whose callers ask gc for no more than the log holds     *)
(* (SSTableHandler.cc, init; kvstore.cc, gc).                               *)
THEOREM RestartsReadLogged ==
  ASSUME NarrowKeys, GcWithinLog
  PROVE  DurableSpec => []RestartsReadOwnValues
<1>1. DurableInit => SInv
  BY SInvInductive
<1>2. SInv /\ [DurableNext]_allVars => SInv'
  BY SInvInductive
<1>3. SInv => RestartsReadOwnValues
  <2> SUFFICES ASSUME SInv, ~torn, restarts = 0 \/ ~Punched
               PROVE  VisibleBacked
    BY DEF RestartsReadOwnValues
  <2>1. CASE restarts = 0
    BY <2>1 DEF SInv, BackedInv
  <2>2. CASE ~Punched
    <3>1. DOMAIN vlog = 0 .. tail - 1
      BY <2>2 DEF Punched
    <3>2. /\ \A i \in DOMAIN level0 : Sound(level0[i])
          /\ \A l \in DOMAIN levels : \A t \in levels[l] : Sound(t)
      BY DEF SInv, SoundInv
    <3>3. ASSUME NEW k \in Keys
          PROVE  Logged1(Item(k), k)
      <4>1. TablesOK
        BY DEF SInv, DInv
      <4>2. CASE Item(k) = NoItem
        BY <4>2 DEF NoItem, Logged1
      <4>3. ASSUME NEW t, Sound(t), k \in KeysOf(t), Item(k) = t.items[k]
            PROVE  Logged1(Item(k), k)
        BY <4>3 DEF Sound
      <4> QED BY <3>2, <4>1, <4>2, <4>3, ItemSource
    <3> QED BY <3>1, <3>3 DEF VisibleBacked, Logged1
  <2> QED BY <2>1, <2>2
<1> QED BY <1>1, <1>2, <1>3, PTL DEF DurableSpec

------------------------------------------------------------------------------
(* What a start would find *)

(* The files D of a store: the tables of a level, the orders in which init  *)
(* may find those of level 0, the levels below, and what get would find.    *)
TablesAt(D, l) == IF l \in DOMAIN D THEN {f.table : f \in D[l]} ELSE {}
OrdersOf(D) ==
  {s \in [1 .. Cardinality(TablesAt(D, 0)) -> TablesAt(D, 0)] :
     /\ Range(s) = TablesAt(D, 0)
     /\ \A i, j \in DOMAIN s : i < j => ~Older(s[j], s[i])}
LevelsOf(D) == [l \in 1 .. (IF D = <<>> THEN 0 ELSE Max(DOMAIN D)) |-> TablesAt(D, l)]
FoundIn(D, k) == Find(CHOOSE s \in OrdersOf(D) : TRUE, LevelsOf(D), k)

(* The operators of the instance are those of the store. *)
LEMMA SameOperators ==
  /\ \A S : OnDisk!Max(S) = Max(S) /\ OnDisk!Min(S) = Min(S)
  /\ \A t : OnDisk!KeysOf(t) = KeysOf(t)
  /\ \A S, k : OnDisk!Holding(S, k) = Holding(S, k)
  /\ \A S : OnDisk!Newest(S) = Newest(S)
  /\ OnDisk!NoItem = NoItem
<1>1. \A S : OnDisk!Max(S) = Max(S) /\ OnDisk!Min(S) = Min(S)
  BY DEF OnDisk!Max, OnDisk!Min, Max, Min
<1>2. \A t : OnDisk!KeysOf(t) = KeysOf(t)
  BY DEF OnDisk!KeysOf, KeysOf
<1>3. \A S, k : OnDisk!Holding(S, k) = Holding(S, k)
  BY <1>2 DEF OnDisk!Holding, Holding
<1>4. \A t : OnDisk!Smallest(t) = Smallest(t)
  BY <1>1, <1>2 DEF OnDisk!Smallest, Smallest
<1>5. \A t, u : OnDisk!Older(t, u) <=> Older(t, u)
  BY <1>4 DEF OnDisk!Older, Older
<1>6. \A S : OnDisk!Newest(S) = Newest(S)
  BY <1>5 DEF OnDisk!Newest, Newest
<1> QED BY <1>1, <1>2, <1>3, <1>6 DEF OnDisk!NoItem, OnDisk!NoOffset, NoItem, NoOffset

LEMMA DiskItems == \A k : OnDisk!Item(k) = FoundIn(disk, k)
<1>1. LoadOrders = OrdersOf(disk) /\ LoadLevels = LevelsOf(disk)
  BY DEF LoadOrders, LoadLevels, OrdersOf, LevelsOf, TablesAt, TablesIn, MaxDir
<1> DEFINE s == CHOOSE s \in LoadOrders : TRUE
           lv == LoadLevels
<1>2. \A k : FoundIn(disk, k) = Find(s, lv, k)
  BY <1>1 DEF FoundIn
<1>3. ASSUME NEW k PROVE OnDisk!Level0With(k) = In0(s, k) /\ OnDisk!LevelsWith(k) = InLevels(lv, k)
  BY SameOperators DEF OnDisk!Level0With, OnDisk!LevelsWith, In0, InLevels
<1>4. ASSUME NEW k PROVE OnDisk!Item(k) = Find(s, lv, k)
  BY <1>3, SameOperators DEF OnDisk!Item, Find
<1> QED BY <1>2, <1>4

LEMMA DiskItemsNext == \A k : OnDisk!Item(k)' = FoundIn(disk', k)
<1>1. LoadOrders' = OrdersOf(disk') /\ LoadLevels' = LevelsOf(disk')
  BY DEF LoadOrders, LoadLevels, OrdersOf, LevelsOf, TablesAt, TablesIn, MaxDir
<1> DEFINE s == CHOOSE s \in LoadOrders' : TRUE
           lv == LoadLevels'
<1>2. \A k : FoundIn(disk', k) = Find(s, lv, k)
  BY <1>1 DEF FoundIn
<1>3. ASSUME NEW k PROVE OnDisk!Level0With(k)' = In0(s, k) /\ OnDisk!LevelsWith(k)' = InLevels(lv, k)
  BY SameOperators DEF OnDisk!Level0With, OnDisk!LevelsWith, In0, InLevels
<1>4. ASSUME NEW k PROVE OnDisk!Item(k)' = Find(s, lv, k)
  BY <1>3, SameOperators DEF OnDisk!Item, Find
<1> QED BY <1>2, <1>4

(* Files as the first life leaves them: those of level 0 differ in their    *)
(* stamps, and there is an order of them.                                   *)
DiskLike(D, n) ==
  /\ n \in Nat
  /\ \E b \in Nat : DOMAIN D \subseteq 0 .. b
  /\ \A l \in Nat : \A t \in TablesAt(D, l) : IsTable(t, Keys, n)
  /\ D = <<>> => DOMAIN D = {}
  /\ IsFiniteSet(TablesAt(D, 0))
  /\ OrdersOf(D) # {}
  /\ \A t, u \in TablesAt(D, 0) : t # u => t.timeId # u.timeId

(* The first level of files that has the key.                               *)
FirstFiled(D, k, l) ==
  /\ l \in Nat /\ Holding(TablesAt(D, l), k) # {}
  /\ \A m \in Nat : m < l => Holding(TablesAt(D, m), k) = {}
NowhereAt(D, k) == \A l \in Nat : Holding(TablesAt(D, l), k) = {}

LEMMA FirstCases ==
  ASSUME NEW D, NEW k
  PROVE  NowhereAt(D, k) \/ \E l \in Nat : FirstFiled(D, k, l)
<1> DEFINE S == {l \in Nat : Holding(TablesAt(D, l), k) # {}}
<1>1. CASE S = {}
  BY <1>1 DEF NowhereAt
<1>2. CASE S # {}
  <2>1. S \in SUBSET Nat
    OBVIOUS
  <2>2. Min(S) \in S /\ \A x \in S : Min(S) <= x
    <3> HIDE DEF S
    <3> QED BY <1>2, <2>1, MinInSet
  <2> DEFINE l == Min(S)
  <2>3. l \in Nat /\ Holding(TablesAt(D, l), k) # {}
    BY <2>2
  <2>4. \A m \in Nat : m \in S => l <= m
    BY <2>2
  <2> HIDE DEF l
  <2>5. \A m \in Nat : m < l => m \notin S
    BY <2>3, <2>4
  <2>6. \A m \in Nat : m < l => Holding(TablesAt(D, m), k) = {}
    BY <2>5
  <2>7. FirstFiled(D, k, l)
    BY <2>3, <2>6 DEF FirstFiled
  <2> QED BY <2>3, <2>7
<1> QED BY <1>1, <1>2

(* The last table in the order, when the stamps tell. *)
LEMMA NewestIs ==
  ASSUME NEW n \in Nat, NEW S, \A u \in S : IsTable(u, Keys, n),
         NEW t \in S, \A u \in S : u # t => u.timeId < t.timeId
  PROVE  Newest(S) = t
<1>1. MaxKey \in Nat /\ Keys \in SUBSET (0 .. MaxKey)
  BY KeysBounded
<1>2. Newest(S) \in S /\ \A u \in S : ~Older(Newest(S), u)
  BY <1>1, NewestInSet
<1> QED BY <1>2 DEF Older

(* The start finds the newest of the files of that level. *)
LEMMA FoundFirst ==
  ASSUME NEW D, NEW n, DiskLike(D, n), NEW k, NEW l, FirstFiled(D, k, l)
  PROVE  FoundIn(D, k) = Newest(Holding(TablesAt(D, l), k)).items[k]
<1> DEFINE s == CHOOSE s \in OrdersOf(D) : TRUE
           T == TablesAt(D, 0)
           lv == LevelsOf(D)
           H == Holding(TablesAt(D, l), k)
<1>0. /\ n \in Nat /\ l \in Nat /\ H # {}
      /\ \A m \in Nat : m < l => Holding(TablesAt(D, m), k) = {}
      /\ \A m \in Nat : \A t \in TablesAt(D, m) : IsTable(t, Keys, n)
  BY DEF DiskLike, FirstFiled
<1>00. MaxKey \in Nat /\ Keys \in SUBSET (0 .. MaxKey)
  BY KeysBounded
<1>1. s \in OrdersOf(D)
  BY DEF DiskLike
<1>2. /\ s \in [1 .. Cardinality(T) -> T] /\ Range(s) = T
      /\ \A i, j \in DOMAIN s : i < j => ~Older(s[j], s[i])
  BY <1>1 DEF OrdersOf
<1>3. \A t \in H : t \in TablesAt(D, l) /\ k \in KeysOf(t) /\ IsTable(t, Keys, n)
  BY <1>0 DEF Holding
<1>4. FoundIn(D, k) = Find(s, lv, k)
  BY DEF FoundIn
<1> HIDE DEF s, lv, H
<1>5. CASE l = 0
  <2> DEFINE N == Newest(H)
  <2>1. N \in H /\ \A u \in H : ~Older(N, u)
    BY <1>0, <1>00, <1>3, NewestInSet
  <2>2. PICK x \in DOMAIN s : s[x] = N
    BY <1>2, <1>3, <1>5, <2>1 DEF Range
  <2>3. In0(s, k) \in SUBSET Nat /\ x \in In0(s, k) /\ \A i \in In0(s, k) : i \in DOMAIN s /\ s[i] \in H
    <3>1. \A i \in DOMAIN s : i \in Nat /\ s[i] \in TablesAt(D, 0)
      BY <1>2
    <3> QED BY <1>3, <1>5, <2>1, <2>2, <3>1 DEF In0, Holding, H
  <2>4. ASSUME NEW i \in In0(s, k), x <= i
        PROVE  s[i] = N
    <3>1. CASE i = x
      BY <2>2, <3>1
    <3>2. CASE i # x
      <4>1. x < i /\ i \in DOMAIN s /\ s[i] \in H
        BY <2>3, <2>4, <3>2
      <4>2. ~Older(s[i], N) /\ ~Older(N, s[i])
        BY <1>2, <2>1, <2>2, <4>1
      <4>3. IsTable(s[i], Keys, n) /\ IsTable(N, Keys, n)
        BY <1>3, <2>1, <4>1
      <4>4. s[i].timeId \in Nat /\ N.timeId \in Nat
        BY <1>0, <1>00, <4>3, TableFacts
      <4>5. s[i].timeId = N.timeId
        BY <4>2, <4>4 DEF Older
      <4> QED BY <1>3, <1>5, <2>1, <4>1, <4>5 DEF DiskLike
    <3> QED BY <3>1, <3>2
  <2>5. Max(In0(s, k)) \in In0(s, k) /\ x <= Max(In0(s, k))
    <3>1. In0(s, k) # {} /\ Cardinality(T) \in Nat
      <4>1. IsFiniteSet(T)
        BY DEF DiskLike
      <4> QED BY <2>3, <4>1, FS_CardinalityType
    <3>2. \A i \in In0(s, k) : i <= Cardinality(T)
      BY <1>2, <2>3, <3>1
    <3> HIDE DEF T
    <3> QED BY <2>3, <3>1, <3>2, MaxInSet
  <2>6. s[Max(In0(s, k))] = N
    BY <2>4, <2>5
  <2> QED BY <1>4, <2>3, <2>6 DEF Find, H
<1>6. CASE l # 0
  <2>1. In0(s, k) = {}
    <3>1. Holding(TablesAt(D, 0), k) = {}
      BY <1>0, <1>6
    <3>2. \A i \in DOMAIN s : s[i] \in TablesAt(D, 0)
      BY <1>2
    <3> QED BY <3>1, <3>2 DEF In0, Holding
  <2>2. PICK b \in Nat : DOMAIN D \subseteq 0 .. b
    BY DEF DiskLike
  <2>3. l \in DOMAIN D
    BY <1>0, <1>3 DEF TablesAt
  <2>4. Max(DOMAIN D) \in Nat /\ l <= Max(DOMAIN D) /\ D # <<>>
    <3>1. DOMAIN D \in SUBSET Nat /\ \A x \in DOMAIN D : x <= b
      BY <2>2
    <3>2. Max(DOMAIN D) \in DOMAIN D /\ l <= Max(DOMAIN D)
      BY <2>2, <2>3, <3>1, MaxInSet
    <3>3. D # <<>>
      BY <2>3 DEF DiskLike
    <3> QED BY <3>1, <3>2, <3>3
  <2>5. /\ DOMAIN lv = 1 .. Max(DOMAIN D)
        /\ \A m \in DOMAIN lv : lv[m] = TablesAt(D, m)
    BY <2>4 DEF lv, LevelsOf
  <2>6. l \in DOMAIN lv /\ DOMAIN lv \subseteq Nat /\ lv[l] = TablesAt(D, l)
    BY <1>0, <1>6, <2>4, <2>5
  <2>7. InLevels(lv, k) \in SUBSET Nat /\ l \in InLevels(lv, k)
    BY <1>0, <2>6 DEF InLevels, H
  <2>8. \A m \in InLevels(lv, k) : ~(m < l)
    BY <1>0, <2>5, <2>6 DEF InLevels
  <2>9. Min(InLevels(lv, k)) = l
    <3>1. Min(InLevels(lv, k)) \in InLevels(lv, k) /\ Min(InLevels(lv, k)) <= l
      BY <2>7, MinInSet
    <3> QED BY <2>7, <2>8, <3>1
  <2>10. InLevels(lv, k) # {}
    BY <2>7
  <2> QED BY <1>4, <2>1, <2>6, <2>9, <2>10 DEF Find, H
<1> QED BY <1>5, <1>6

LEMMA FoundNowhere ==
  ASSUME NEW D, NEW n, DiskLike(D, n), NEW k, NowhereAt(D, k)
  PROVE  FoundIn(D, k) = NoItem
<1> DEFINE s == CHOOSE s \in OrdersOf(D) : TRUE
           lv == LevelsOf(D)
<1>1. s \in OrdersOf(D)
  BY DEF DiskLike
<1>2. \A i \in DOMAIN s : s[i] \in TablesAt(D, 0)
  BY <1>1 DEF OrdersOf
<1>3. \A l \in DOMAIN lv : l \in Nat /\ lv[l] = TablesAt(D, l)
  BY DEF LevelsOf
<1>4. FoundIn(D, k) = Find(s, lv, k)
  BY DEF FoundIn
<1> HIDE DEF s, lv
<1>5. NotIn0(s, k)
  BY <1>2 DEF NotIn0, NowhereAt, Holding
<1>6. NotBelow(lv, k)
  BY <1>3 DEF NotBelow, NowhereAt, Holding
<1> QED BY <1>4, <1>5, <1>6, FindNone

(* Files that differ only below that level, or not for this key.            *)
LEMMA FoundSame ==
  ASSUME NEW D, NEW E, NEW n, DiskLike(D, n), DiskLike(E, n), NEW k,
         \/ \A l \in Nat : Holding(TablesAt(D, l), k) = Holding(TablesAt(E, l), k)
         \/ \E l \in Nat : /\ Holding(TablesAt(D, l), k) # {}
                           /\ \A m \in Nat : m <= l =>
                                Holding(TablesAt(D, m), k) = Holding(TablesAt(E, m), k)
  PROVE  FoundIn(D, k) = FoundIn(E, k)
<1>1. CASE NowhereAt(D, k)
  <2>1. NowhereAt(E, k)
    BY <1>1 DEF NowhereAt
  <2> QED BY <1>1, <2>1, FoundNowhere
<1>2. ASSUME NEW l \in Nat, FirstFiled(D, k, l)
      PROVE  FoundIn(D, k) = FoundIn(E, k)
  <2>1. \A m \in Nat : m <= l => Holding(TablesAt(D, m), k) = Holding(TablesAt(E, m), k)
    <3>1. ASSUME NEW d \in Nat, Holding(TablesAt(D, d), k) # {},
                 \A m \in Nat : m <= d => Holding(TablesAt(D, m), k) = Holding(TablesAt(E, m), k)
          PROVE  \A m \in Nat : m <= l => Holding(TablesAt(D, m), k) = Holding(TablesAt(E, m), k)
      <4>1. ~(d < l)
        BY <1>2, <3>1 DEF FirstFiled
      <4> QED BY <3>1, <4>1
    <3> QED BY <3>1
  <2>2. Holding(TablesAt(D, l), k) = Holding(TablesAt(E, l), k)
    BY <2>1
  <2>3. FirstFiled(E, k, l)
    BY <1>2, <2>1 DEF FirstFiled
  <2>4. FoundIn(D, k) = Newest(Holding(TablesAt(D, l), k)).items[k]
    BY <1>2, FoundFirst
  <2>5. FoundIn(E, k) = Newest(Holding(TablesAt(E, l), k)).items[k]
    BY <2>3, FoundFirst
  <2> QED BY <2>2, <2>4, <2>5
<1> QED BY <1>1, <1>2, FirstCases

(* No two files of a level hold the key under one stamp.                    *)
Untied(D, k) ==
  \A l \in Nat : \A t, u \in Holding(TablesAt(D, l), k) : t # u => t.timeId # u.timeId

(* The files agree with the levels in memory at the first level that has    *)
(* the key.                                                                 *)
LEMMA FoundInLevels ==
  ASSUME NEW D, NEW n, DiskLike(D, n), NEW l0, NEW lv, Tidy(l0, lv, n), NEW k, NotIn0(l0, k),
         NEW l, FirstFiled(D, k, l), NEW v, BelowAt(lv, k, l, v), v \in TablesAt(D, l),
         \A t \in Holding(TablesAt(D, l), k) : t.timeId <= v.timeId,
         Untied(D, k)
  PROVE  FoundIn(D, k) = Find(l0, lv, k)
<1> DEFINE H == Holding(TablesAt(D, l), k)
<1>1. l \in Nat /\ n \in Nat /\ \A t \in H : IsTable(t, Keys, n)
  BY DEF DiskLike, FirstFiled, Holding
<1>2. v \in H
  BY DEF Holding, BelowAt
<1>3. \A t \in H : t.timeId \in Nat
  BY <1>1, KeysBounded, TableFacts
<1>4. \A t \in H : t # v => t.timeId < v.timeId
  BY <1>1, <1>2, <1>3 DEF Untied
<1>5. FoundIn(D, k) = Newest(H).items[k]
  BY FoundFirst
<1> HIDE DEF H
<1>6. Newest(H) = v
  BY <1>1, <1>2, <1>4, NewestIs
<1>7. Find(l0, lv, k) = v.items[k]
  BY FindBelow
<1> QED BY <1>5, <1>6, <1>7

------------------------------------------------------------------------------
(* What is queued in the first life *)

(* The tables of o are on their way out, and for each of their keys their   *)
(* level has a table that is no older.                                      *)
Fades(lv, o) ==
  \A t \in o.tables : \A k \in KeysOf(t) :
    /\ o.level \in DOMAIN lv
    /\ \E v \in lv[o.level] : k \in KeysOf(v) /\ t.timeId <= v.timeId

(* Files leave, and come below level 0, while level 0 is empty in memory;   *)
(* otherwise the file of its last table comes.                              *)
Leaving(o, l0) == o.level # 0 /\ l0 = <<>> /\ AllApart(o.tables)
Coming(o, l0, lv) ==
  /\ o.level # 0 => l0 = <<>>
  /\ o.level = 0 =>
       /\ Len(l0) \in {1, 2} /\ o.files \subseteq {File(Len(l0), l0[Len(l0)])}
       /\ Len(l0) = 1 => lv # <<>>

(* What is removed after o.                                                 *)
Then(o, p, lv) ==
  /\ o.op = "remove" => o.level # p.level /\ Fades(lv, p)
  /\ o.op = "write" /\ o.level = p.level => Fades(lv, p)

QueueOK(q, l0, lv) ==
  /\ \A i \in DOMAIN q : q[i].op = "remove" => Leaving(q[i], l0)
  /\ \A i \in DOMAIN q : q[i].op = "write" => Coming(q[i], l0, lv)
  /\ \A i, j \in DOMAIN q : i < j /\ q[j].op = "remove" => Then(q[i], q[j], lv)

LEMMA QueueTail ==
  ASSUME NEW q, q \in Seq(Range(q)), q # <<>>, NEW l0, NEW lv, QueueOK(q, l0, lv)
  PROVE  QueueOK(Tail(q), l0, lv)
<1> DEFINE r == Tail(q)
<1>1. /\ DOMAIN r = 1 .. Len(q) - 1 /\ Len(q) \in Nat
      /\ \A i \in DOMAIN r : i + 1 \in DOMAIN q /\ r[i] = q[i + 1]
  BY TailFacts
<1> HIDE DEF r
<1>2. \A i \in DOMAIN r : r[i].op = "remove" => Leaving(r[i], l0)
  BY <1>1 DEF QueueOK
<1>3. \A i \in DOMAIN r : r[i].op = "write" => Coming(r[i], l0, lv)
  BY <1>1 DEF QueueOK
<1>4. ASSUME NEW i \in DOMAIN r, NEW j \in DOMAIN r, i < j, r[j].op = "remove"
      PROVE  Then(r[i], r[j], lv)
  <2>1. i + 1 \in DOMAIN q /\ j + 1 \in DOMAIN q /\ r[i] = q[i + 1] /\ r[j] = q[j + 1]
    BY <1>1
  <2>2. i + 1 < j + 1
    BY <1>1, <1>4
  <2>3. q[j + 1].op = "remove"
    BY <1>4, <2>1
  <2>4. Then(q[i + 1], q[j + 1], lv)
    BY <2>1, <2>2, <2>3 DEF QueueOK
  <2> QED BY <2>1, <2>4
<1>5. QueueOK(r, l0, lv)
  BY <1>2, <1>3, <1>4 DEF QueueOK
<1> QED BY <1>5 DEF r

(* The first operation has less to do.                                      *)
LEMMA QueueLess ==
  ASSUME NEW q, q \in Seq(Range(q)), 1 \in DOMAIN q, NEW l0, NEW lv, QueueOK(q, l0, lv),
         NEW e, e.op = q[1].op, e.level = q[1].level,
         e.op = "write" => e.files \subseteq q[1].files,
         e.op = "remove" => e.tables \subseteq q[1].tables
  PROVE  QueueOK([q EXCEPT ![1] = e], l0, lv)
<1> DEFINE r == [q EXCEPT ![1] = e]
<1>1. /\ DOMAIN r = DOMAIN q
      /\ \A j \in DOMAIN q : r[j] = IF j = 1 THEN e ELSE q[j]
  BY ReplaceFacts
<1>2. DOMAIN q \subseteq Nat \ {0}
  BY SeqFacts
<1> HIDE DEF r
<1>3. ASSUME NEW i \in DOMAIN r, r[i].op = "remove"
      PROVE  Leaving(r[i], l0)
  <2>1. Leaving(q[i], l0)
    BY <1>1, <1>3 DEF QueueOK
  <2>2. CASE i = 1
    <3>1. e.op = "remove" /\ r[i] = e
      BY <1>1, <1>3, <2>2
    <3> QED BY <2>1, <2>2, <3>1 DEF Leaving, AllApart
  <2>3. CASE i # 1
    BY <1>1, <2>1, <2>3
  <2> QED BY <2>2, <2>3
<1>4. ASSUME NEW i \in DOMAIN r, r[i].op = "write"
      PROVE  Coming(r[i], l0, lv)
  <2>1. Coming(q[i], l0, lv)
    BY <1>1, <1>4 DEF QueueOK
  <2>2. CASE i = 1
    <3>1. e.op = "write" /\ r[i] = e
      BY <1>1, <1>4, <2>2
    <3> QED BY <2>1, <2>2, <3>1 DEF Coming
  <2>3. CASE i # 1
    BY <1>1, <2>1, <2>3
  <2> QED BY <2>2, <2>3
<1>5. ASSUME NEW i \in DOMAIN r, NEW j \in DOMAIN r, i < j, r[j].op = "remove"
      PROVE  Then(r[i], r[j], lv)
  <2>1. j # 1 /\ r[j] = q[j] /\ i \in DOMAIN q /\ j \in DOMAIN q
    BY <1>1, <1>2, <1>5
  <2>2. Then(q[i], q[j], lv)
    BY <1>5, <2>1 DEF QueueOK
  <2>3. r[i].op = q[i].op /\ r[i].level = q[i].level
    BY <1>1, <2>1
  <2> QED BY <2>1, <2>2, <2>3 DEF Then
<1>6. QueueOK(r, l0, lv)
  BY <1>3, <1>4, <1>5 DEF QueueOK
<1> QED BY <1>6 DEF r

LEMMA QueueEmpty ==
  ASSUME NEW q, DOMAIN q = {}, NEW l0, NEW lv
  PROVE  QueueOK(q, l0, lv)
BY DEF QueueOK

(* The queue of a compaction. *)
LEMMA QueueMade ==
  ASSUME NEW l \in Nat \ {0}, NEW new, NEW n, NEW rem, Removals(rem, n), NEW lv,
         \A i \in DOMAIN rem : rem[i].level # 0 /\ AllApart(rem[i].tables),
         \A i \in DOMAIN rem : rem[i].level = l => Fades(lv, rem[i]),
         \A i, j \in DOMAIN rem : i < j => rem[i].level # rem[j].level /\ Fades(lv, rem[j])
  PROVE  QueueOK(WriteThenRemove(l, new, rem), <<>>, lv)
<1> DEFINE q == WriteThenRemove(l, new, rem)
           S == Range(rem)
<1>1. /\ rem \in Seq(S) /\ Len(rem) \in Nat /\ DOMAIN rem = 1 .. Len(rem)
      /\ \A i \in DOMAIN rem : rem[i].op = "remove"
  BY SeqFacts DEF Removals
<1>2. /\ DOMAIN q = 1 .. Len(rem) + 2
      /\ q[1] = MakeDir(l) /\ q[2] = WriteAll(l, FilesOf(new))
      /\ \A i \in 1 .. Len(rem) : q[i + 2] = rem[i]
  <2> HIDE DEF S
  <2> QED BY <1>1, QueueFacts
<1> HIDE DEF q, S
<1>3. /\ q[1].op = "mkdir" /\ q[1].op # "write" /\ q[1].op # "remove"
      /\ q[2].op = "write" /\ q[2].op # "remove" /\ q[2].level = l
  BY <1>2 DEF MakeDir, WriteAll
<1>4. \A i \in DOMAIN q : i = 1 \/ i = 2 \/ (i > 2 /\ i - 2 \in DOMAIN rem /\ q[i] = rem[i - 2])
  <2> SUFFICES ASSUME NEW i \in DOMAIN q, i # 1, i # 2
               PROVE  i > 2 /\ i - 2 \in DOMAIN rem /\ q[i] = rem[i - 2]
    OBVIOUS
  <2>1. i > 2 /\ i - 2 \in DOMAIN rem /\ (i - 2) + 2 = i
    BY <1>1, <1>2
  <2>2. q[(i - 2) + 2] = rem[i - 2]
    BY <1>1, <1>2, <2>1
  <2> QED BY <2>1, <2>2
<1>5. ASSUME NEW i \in DOMAIN q, q[i].op = "remove"
      PROVE  i > 2 /\ i - 2 \in DOMAIN rem /\ q[i] = rem[i - 2]
  BY <1>3, <1>4, <1>5
<1>6. \A i \in DOMAIN q : q[i].op = "remove" => Leaving(q[i], <<>>)
  BY <1>5 DEF Leaving
<1>7. \A i \in DOMAIN q : q[i].op = "write" => Coming(q[i], <<>>, lv)
  <2> SUFFICES ASSUME NEW i \in DOMAIN q, q[i].op = "write"
               PROVE  Coming(q[i], <<>>, lv)
    OBVIOUS
  <2>1. i = 2
    BY <1>1, <1>3, <1>4
  <2>2. q[i].level # 0
    BY <1>3, <2>1
  <2> QED BY <2>2 DEF Coming
<1>8. ASSUME NEW i \in DOMAIN q, NEW j \in DOMAIN q, i < j, q[j].op = "remove"
      PROVE  Then(q[i], q[j], lv)
  <2>1. j > 2 /\ j - 2 \in DOMAIN rem /\ q[j] = rem[j - 2]
    BY <1>5, <1>8
  <2>2. CASE i = 1
    <3>1. q[i].op # "write" /\ q[i].op # "remove"
      BY <1>3, <2>2
    <3> QED BY <3>1 DEF Then
  <2>3. CASE i = 2
    <3>1. q[i].op # "remove" /\ q[i].level = l
      BY <1>3, <2>3
    <3>2. q[j].level = l => Fades(lv, q[j])
      BY <2>1
    <3> QED BY <3>1, <3>2 DEF Then
  <2>4. CASE i # 1 /\ i # 2
    <3>1. i - 2 \in DOMAIN rem /\ q[i] = rem[i - 2]
      BY <1>4, <2>4
    <3>2. i - 2 < j - 2
      BY <1>2, <1>1, <1>8
    <3>3. rem[i - 2].level # rem[j - 2].level /\ Fades(lv, rem[j - 2])
      BY <2>1, <3>1, <3>2
    <3> QED BY <2>1, <3>1, <3>3 DEF Then
  <2> QED BY <2>2, <2>3, <2>4
<1>9. QueueOK(q, <<>>, lv)
  BY <1>6, <1>7, <1>8 DEF QueueOK
<1> QED BY <1>9 DEF q

------------------------------------------------------------------------------
(* The files of level 0 in the first life *)

(* Files Z of level 0, of which the first m are those of the tables l0: the *)
(* names sstable1 and sstable2 are taken in turn, and what is left of the   *)
(* round before is overwritten oldest first.                                *)
ShelfOK(Z, l0, lv, m, n) ==
  /\ \A f \in Z : f.slot \in {1, 2} /\ f.table.timeId < n
  /\ \A f, g \in Z : f.slot = g.slot => f = g
  /\ \A f, g \in Z : f.slot = 1 /\ g.slot = 2 =>
       IF m = 1 THEN g.table.timeId < f.table.timeId ELSE f.table.timeId < g.table.timeId
  /\ m = 1 => \A g \in Z : g.slot = 2 => \E f \in Z : f.slot = 1
  /\ \A f \in Z : f.slot <= m => f.table = l0[f.slot]
  /\ lv = <<>> /\ m <= 1 => Z = {}

(* The file of the last table comes.                                        *)
LEMMA ShelfWritten ==
  ASSUME NEW Z, NEW l0, l0 \in Seq(Range(l0)), NEW lv, NEW n \in Nat,
         Len(l0) \in {1, 2}, Len(l0) = 1 => lv # <<>>,
         ShelfOK(Z, l0, lv, Len(l0) - 1, n),
         NEW t, t = l0[Len(l0)], t.timeId \in Nat, t.timeId < n,
         \A f \in Z : f.table.timeId < t.timeId,
         NEW f, f.slot = Len(l0), f.table = t
  PROVE  ShelfOK({g \in Z : g.slot # f.slot} \cup {f}, l0, lv, Len(l0), n)
<1> DEFINE m == Len(l0)
           Y == {g \in Z : g.slot # f.slot} \cup {f}
<1>1. m \in {1, 2} /\ (m = 1 => lv # <<>>) /\ f.slot = m /\ f.table = l0[m] /\ f.table.timeId < n
  OBVIOUS
<1>2. \A g \in Y : g = f \/ (g \in Z /\ g.slot # m)
  BY <1>1
<1>3. f \in Y /\ \A g \in Z : g.slot # m => g \in Y
  BY <1>1
<1>4. \A g \in Z : g.table.timeId < f.table.timeId
  OBVIOUS
<1>5. /\ \A g \in Z : g.slot \in {1, 2} /\ g.table.timeId < n
      /\ \A g, h \in Z : g.slot = h.slot => g = h
      /\ \A g \in Z : g.slot <= m - 1 => g.table = l0[g.slot]
  BY DEF ShelfOK
<1> HIDE DEF m, Y
<1>6. \A g \in Y : g.slot \in {1, 2} /\ g.table.timeId < n
  BY <1>1, <1>2, <1>5
<1>7. \A g, h \in Y : g.slot = h.slot => g = h
  BY <1>1, <1>2, <1>5
<1>8. \A g, h \in Y : g.slot = 1 /\ h.slot = 2 =>
        IF m = 1 THEN h.table.timeId < g.table.timeId ELSE g.table.timeId < h.table.timeId
  BY <1>1, <1>2, <1>4
<1>9. m = 1 => \A h \in Y : h.slot = 2 => \E g \in Y : g.slot = 1
  BY <1>1, <1>3
<1>10. \A g \in Y : g.slot <= m => g.table = l0[g.slot]
  <2> SUFFICES ASSUME NEW g \in Y, g.slot <= m, g # f
               PROVE  g.table = l0[g.slot]
    BY <1>1
  <2>1. g \in Z /\ g.slot # m
    BY <1>2
  <2>2. g.slot \in {1, 2}
    BY <1>5, <2>1
  <2>3. g.slot <= m - 1
    BY <1>1, <2>1, <2>2
  <2> QED BY <1>5, <2>1, <2>3
<1>11. lv = <<>> /\ m <= 1 => Y = {}
  BY <1>1
<1>12. ShelfOK(Y, l0, lv, m, n)
  BY <1>6, <1>7, <1>8, <1>9, <1>10, <1>11 DEF ShelfOK
<1> QED BY <1>12 DEF m, Y

(* Another table is pushed, on file later or never. *)
LEMMA ShelfPushed ==
  ASSUME NEW Z, NEW l0, l0 \in Seq(Range(l0)), NEW lv, NEW n \in Nat,
         ShelfOK(Z, l0, lv, Len(l0), n), \A f \in Z : f.table.timeId \in Nat, NEW t
  PROVE  /\ ShelfOK(Z, Append(l0, t), lv, Len(l0), n + 1)
         /\ (l0 = <<>> /\ lv = <<>>) \/ Len(l0) > 1 =>
              ShelfOK(Z, Append(l0, t), lv, Len(l0) + 1, n + 1)
<1> DEFINE m == Len(l0)
           p == Append(l0, t)
<1>1. m \in Nat /\ (l0 = <<>> => m = 0) /\ \A i \in 1 .. m : p[i] = l0[i]
  BY SeqFacts, AppendFacts
<1> HIDE DEF m, p
<1>2. /\ \A f \in Z : f.slot \in {1, 2} /\ f.table.timeId < n
      /\ \A f, g \in Z : f.slot = g.slot => f = g
      /\ \A f, g \in Z : f.slot = 1 /\ g.slot = 2 =>
           IF m = 1 THEN g.table.timeId < f.table.timeId ELSE f.table.timeId < g.table.timeId
      /\ m = 1 => \A g \in Z : g.slot = 2 => \E f \in Z : f.slot = 1
      /\ \A f \in Z : f.slot <= m => f.table = l0[f.slot]
      /\ lv = <<>> /\ m <= 1 => Z = {}
  BY DEF ShelfOK, m
<1>3. \A f \in Z : f.slot \in {1, 2} /\ f.table.timeId < n + 1
  BY <1>2
<1>4. \A f \in Z : f.slot <= m => f.table = p[f.slot]
  <2> SUFFICES ASSUME NEW f \in Z, f.slot <= m PROVE f.table = p[f.slot]
    OBVIOUS
  <2>1. f.slot \in {1, 2} /\ f.table = l0[f.slot]
    BY <1>2
  <2>2. f.slot \in 1 .. m
    BY <1>1, <2>1
  <2> QED BY <1>1, <2>1, <2>2
<1>5. ShelfOK(Z, p, lv, m, n + 1)
  BY <1>2, <1>3, <1>4 DEF ShelfOK
<1>6. ASSUME l0 = <<>> /\ lv = <<>>
      PROVE  ShelfOK(Z, p, lv, m + 1, n + 1)
  <2>1. Z = {}
    BY <1>1, <1>2, <1>6
  <2> QED BY <2>1 DEF ShelfOK
<1>7. ASSUME m > 1
      PROVE  ShelfOK(Z, p, lv, m + 1, n + 1)
  <2>1. m # 1 /\ m + 1 # 1 /\ ~(m + 1 <= 1)
    BY <1>1, <1>7
  <2>2. \A f \in Z : f.slot <= m
    BY <1>1, <1>2, <1>7
  <2>3. \A f \in Z : f.table = p[f.slot]
    BY <1>4, <2>2
  <2> QED BY <1>2, <1>3, <2>1, <2>3 DEF ShelfOK
<1> QED BY <1>5, <1>6, <1>7 DEF m, p

(* Level 0 is emptied in memory: its files stay. *)
LEMMA ShelfLeft ==
  ASSUME NEW Z, NEW l0, NEW lv, NEW n, NEW p, NEW lw, lw # <<>>,
         ShelfOK(Z, l0, lv, Len(l0), n), Len(l0) \in Nat, Len(l0) # 1
  PROVE  ShelfOK(Z, p, lw, 0, n)
<1>1. \A f \in Z : ~(f.slot <= 0)
  BY DEF ShelfOK
<1> QED BY <1>1 DEF ShelfOK

(* At most two files, whose stamps differ: there is an order of them.       *)
LEMMA ShelfDiffers ==
  ASSUME NEW Z, NEW l0, NEW lv, NEW m, NEW n, ShelfOK(Z, l0, lv, m, n),
         \A f \in Z : f.table.timeId \in Nat
  PROVE  /\ \A f, g \in Z : f # g =>
              f.slot # g.slot /\ f.table # g.table /\ f.table.timeId # g.table.timeId
         /\ \E a, b : Z \subseteq {a, b}
<1>1. \A f, g \in Z : f # g => f.slot # g.slot
  BY DEF ShelfOK
<1>2. \A f \in Z : f.slot \in {1, 2}
  BY DEF ShelfOK
<1>3. \A f, g \in Z : f.slot = 1 /\ g.slot = 2 => f.table.timeId # g.table.timeId
  <2> SUFFICES ASSUME NEW f \in Z, NEW g \in Z, f.slot = 1, g.slot = 2
               PROVE  f.table.timeId # g.table.timeId
    OBVIOUS
  <2>1. IF m = 1 THEN g.table.timeId < f.table.timeId ELSE f.table.timeId < g.table.timeId
    BY DEF ShelfOK
  <2>2. f.table.timeId \in Nat /\ g.table.timeId \in Nat
    OBVIOUS
  <2> QED BY <2>1, <2>2
<1>4. \A f, g \in Z : f # g => f.table.timeId # g.table.timeId
  BY <1>1, <1>2, <1>3
<1>5. \E a, b : Z \subseteq {a, b}
  <2> DEFINE a == CHOOSE f \in Z : f.slot = 1
             b == CHOOSE f \in Z : f.slot = 2
  <2>1. \A f \in Z : f.slot = 1 => f = a
    BY <1>1
  <2>2. \A f \in Z : f.slot = 2 => f = b
    BY <1>1
  <2>3. Z \subseteq {a, b}
    BY <1>2, <2>1, <2>2
  <2> QED BY <2>3
<1> QED BY <1>1, <1>4, <1>5
(* One table or two of different stamps can be put in order. *)
LEMMA InOrder ==
  ASSUME NEW T, NEW a, NEW b, T \subseteq {a, b},
         \A t \in T : t.timeId \in Nat,
         \A t, u \in T : t # u => t.timeId # u.timeId
  PROVE  /\ IsFiniteSet(T)
         /\ \E s \in [1 .. Cardinality(T) -> T] :
              /\ Range(s) = T
              /\ \A i, j \in DOMAIN s : i < j => ~Older(s[j], s[i])
<1>1. ASSUME T = {}
      PROVE  /\ IsFiniteSet(T)
             /\ \E s \in [1 .. Cardinality(T) -> T] :
                  /\ Range(s) = T
                  /\ \A i, j \in DOMAIN s : i < j => ~Older(s[j], s[i])
  <2>1. IsFiniteSet(T) /\ Cardinality(T) = 0
    BY <1>1, FS_EmptySet
  <2> DEFINE s == [i \in 1 .. 0 |-> a]
  <2>2. s \in [1 .. 0 -> T] /\ Range(s) = T /\ DOMAIN s = {}
    BY <1>1 DEF Range
  <2> HIDE DEF s
  <2> QED BY <2>1, <2>2
<1>2. ASSUME NEW x, T = {x}
      PROVE  /\ IsFiniteSet(T)
             /\ \E s \in [1 .. Cardinality(T) -> T] :
                  /\ Range(s) = T
                  /\ \A i, j \in DOMAIN s : i < j => ~Older(s[j], s[i])
  <2>1. IsFiniteSet(T) /\ Cardinality(T) = 1
    BY <1>2, FS_Singleton
  <2> DEFINE s == [i \in 1 .. 1 |-> x]
  <2>2. s \in [1 .. 1 -> T] /\ DOMAIN s = {1}
    BY <1>2
  <2>3. Range(s) = T
    BY <1>2 DEF Range
  <2> HIDE DEF s
  <2>4. \A i, j \in DOMAIN s : ~(i < j)
    BY <2>2
  <2> QED BY <2>1, <2>2, <2>3, <2>4
<1>3. ASSUME NEW x \in T, NEW y \in T, T = {x, y}, x.timeId < y.timeId
      PROVE  /\ IsFiniteSet(T)
             /\ \E s \in [1 .. Cardinality(T) -> T] :
                  /\ Range(s) = T
                  /\ \A i, j \in DOMAIN s : i < j => ~Older(s[j], s[i])
  <2>0. x.timeId \in Nat /\ y.timeId \in Nat
    OBVIOUS
  <2>00. x # y
    BY <1>3, <2>0
  <2>1. IsFiniteSet(T) /\ Cardinality(T) = 2
    <3>1. IsFiniteSet({x}) /\ Cardinality({x}) = 1
      BY FS_Singleton
    <3>2. y \notin {x} /\ T = {x} \cup {y}
      BY <1>3, <2>00
    <3>3. IsFiniteSet({x} \cup {y}) /\ Cardinality({x} \cup {y}) = 1 + 1
      BY <3>1, <3>2, FS_AddElement
    <3> QED BY <3>2, <3>3
  <2> DEFINE s == [i \in 1 .. 2 |-> IF i = 1 THEN x ELSE y]
  <2>2. s \in [1 .. 2 -> T] /\ DOMAIN s = 1 .. 2 /\ s[1] = x /\ s[2] = y
    BY <1>3
  <2> HIDE DEF s
  <2>3. Range(s) = T
    BY <1>3, <2>2 DEF Range
  <2>4. \A i, j \in DOMAIN s : i < j => i = 1 /\ j = 2
    BY <2>2
  <2>5. ~Older(y, x)
    BY <1>3, <2>0 DEF Older
  <2>6. \A i, j \in DOMAIN s : i < j => ~Older(s[j], s[i])
    BY <2>2, <2>4, <2>5
  <2> QED BY <2>1, <2>2, <2>3, <2>6
<1>4. \/ T = {} \/ \E x : T = {x}
      \/ \E x \in T : \E y \in T : T = {x, y} /\ x.timeId < y.timeId
  <2> SUFFICES ASSUME T # {}, \A x : T # {x}
               PROVE  \E x \in T : \E y \in T : T = {x, y} /\ x.timeId < y.timeId
    OBVIOUS
  <2>0. T # {a} /\ T # {b}
    OBVIOUS
  <2>1. a \in T /\ b \in T /\ a # b
    BY <2>0
  <2>2. T = {a, b} /\ T = {b, a}
    BY <2>1
  <2>3. a.timeId \in Nat /\ b.timeId \in Nat /\ a.timeId # b.timeId
    BY <2>1
  <2>4. a.timeId < b.timeId \/ b.timeId < a.timeId
    BY <2>3
  <2> QED BY <2>1, <2>2, <2>4
<1> QED BY <1>1, <1>2, <1>3, <1>4

(* Files of the first life are like that. *)
DiskTyped(D, n) ==
  /\ \E b \in Nat : DOMAIN D \subseteq 0 .. b
  /\ \A l \in DOMAIN D : \A f \in D[l] : IsTable(f.table, Keys, n)
ShelfOf(D) == IF 0 \in DOMAIN D THEN D[0] ELSE {}

LEMMA LikeFiles ==
  ASSUME NEW D, NEW n \in Nat, DiskTyped(D, n),
         NEW l0, NEW lv, NEW m, NEW stamp, ShelfOK(ShelfOf(D), l0, lv, m, stamp)
  PROVE  DiskLike(D, n)
<1> DEFINE T == TablesAt(D, 0)
           Z == ShelfOf(D)
<1>1. \A l \in Nat : \A t \in TablesAt(D, l) : IsTable(t, Keys, n)
  BY DEF DiskTyped, TablesAt
<1>2. D = <<>> => DOMAIN D = {}
  BY NoTables
<1>3. T = {f.table : f \in Z}
  BY DEF TablesAt, ShelfOf
<1>4. \A t \in T : t.timeId \in Nat
  <2>1. \A t \in T : IsTable(t, Keys, n)
    BY <1>1
  <2> HIDE DEF T
  <2> QED BY <2>1, KeysBounded, TableFacts
<1>5. \A f \in Z : f.table.timeId \in Nat
  BY <1>3, <1>4
<1> HIDE DEF T, Z
<1>6. /\ \A f, g \in Z : f # g => f.table.timeId # g.table.timeId
      /\ \E a, b : Z \subseteq {a, b}
  BY <1>5, ShelfDiffers DEF Z
<1>7. \A t, u \in T : t # u => t.timeId # u.timeId
  BY <1>3, <1>6
<1>8. PICK a, b : Z \subseteq {a, b}
  BY <1>6
<1>9. T \subseteq {a.table, b.table}
  BY <1>3, <1>8
<1>10. /\ IsFiniteSet(T)
       /\ \E s \in [1 .. Cardinality(T) -> T] :
            /\ Range(s) = T
            /\ \A i, j \in DOMAIN s : i < j => ~Older(s[j], s[i])
  BY <1>4, <1>7, <1>9, InOrder
<1>11. OrdersOf(D) # {}
  BY <1>10 DEF OrdersOf, T
<1> QED BY <1>1, <1>2, <1>7, <1>10, <1>11 DEF DiskLike, DiskTyped, T

------------------------------------------------------------------------------
(* What a start finds after one more file *)

(* For each key of t, level d has a table that is no older. *)
Faded(lv, d, t) ==
  \A k \in KeysOf(t) : d \in DOMAIN lv /\ \E v \in lv[d] : k \in KeysOf(v) /\ t.timeId <= v.timeId

LEMMA NoneOlderThanItself ==
  ASSUME NEW l0, NEW lv, NEW n, Tidy(l0, lv, n), NEW d \in DOMAIN lv, NEW t \in lv[d]
  PROVE  Faded(lv, d, t)
<1>1. IsTable(t, Keys, n) /\ n \in Nat
  BY DEF Tidy
<1>2. t.timeId \in Nat
  BY <1>1, KeysBounded, TableFacts
<1>3. t.timeId <= t.timeId
  BY <1>2
<1> QED BY <1>3 DEF Faded

(* v is what the start finds for k in D. *)
Leads(D, lv, k, l, v) ==
  /\ FirstFiled(D, k, l) /\ BelowAt(lv, k, l, v) /\ v \in TablesAt(D, l)
  /\ \A t \in Holding(TablesAt(D, l), k) : t.timeId <= v.timeId

LEMMA FoundLed ==
  ASSUME NEW D, NEW n, DiskLike(D, n), NEW l0, NEW lv, Tidy(l0, lv, n),
         NEW k, NotIn0(l0, k), Untied(D, k), NEW l, NEW v, Leads(D, lv, k, l, v)
  PROVE  FoundIn(D, k) = Find(l0, lv, k)
<1>1. /\ FirstFiled(D, k, l) /\ BelowAt(lv, k, l, v) /\ v \in TablesAt(D, l)
      /\ \A t \in Holding(TablesAt(D, l), k) : t.timeId <= v.timeId
  BY DEF Leads
<1> QED BY <1>1, FoundInLevels

(* Every table in memory that has the key has its file, and the files of    *)
(* the first level that has it are none but the fading: the start finds     *)
(* what the store finds.                                                    *)
LEMMA FoundBelow ==
  ASSUME NEW D, NEW n, DiskLike(D, n), NEW l0, NEW lv, Tidy(l0, lv, n),
         NEW k, NotIn0(l0, k), Untied(D, k),
         \A m \in DOMAIN lv : \A t \in lv[m] : k \in KeysOf(t) => t \in TablesAt(D, m),
         \A l : FirstFiled(D, k, l) =>
           \A t \in Holding(TablesAt(D, l), k) : Faded(lv, l, t)
  PROVE  FoundIn(D, k) = Find(l0, lv, k)
<1>0. n \in Nat /\ DOMAIN lv \subseteq Nat
  BY SeqFacts DEF Tidy
<1>1. CASE NowhereAt(D, k)
  <2>1. \A m \in DOMAIN lv : \A t \in lv[m] : k \notin KeysOf(t)
    BY <1>0, <1>1 DEF NowhereAt, Holding
  <2>2. NotBelow(lv, k)
    BY <2>1 DEF NotBelow
  <2> QED BY <1>1, <2>2, FoundNowhere, FindNone
<1>2. ASSUME NEW l \in Nat, FirstFiled(D, k, l)
      PROVE  FoundIn(D, k) = Find(l0, lv, k)
  <2>1. \A t \in Holding(TablesAt(D, l), k) : k \in KeysOf(t) /\ Faded(lv, l, t)
    BY <1>2 DEF Holding
  <2>2. PICK u : u \in Holding(TablesAt(D, l), k)
    BY <1>2 DEF FirstFiled
  <2>3. l \in DOMAIN lv /\ \E v \in lv[l] : k \in KeysOf(v) /\ u.timeId <= v.timeId
    BY <2>1, <2>2 DEF Faded
  <2>4. PICK v \in lv[l] : k \in KeysOf(v)
    BY <2>3
  <2>5. \A w \in lv[l] : k \in KeysOf(w) => w = v
    <3> SUFFICES ASSUME NEW w \in lv[l], k \in KeysOf(w), w # v
                 PROVE  FALSE
      OBVIOUS
    <3>1. Apart(v, w) /\ IsTable(v, Keys, n) /\ IsTable(w, Keys, n)
      BY <2>3 DEF Tidy
    <3> QED BY <1>0, <2>4, <3>1, OneHolder
  <2>6. \A t \in Holding(TablesAt(D, l), k) : t.timeId <= v.timeId
    <3> SUFFICES ASSUME NEW t \in Holding(TablesAt(D, l), k)
                 PROVE  t.timeId <= v.timeId
      OBVIOUS
    <3>1. k \in KeysOf(t) /\ Faded(lv, l, t)
      BY <2>1
    <3>2. PICK w \in lv[l] : k \in KeysOf(w) /\ t.timeId <= w.timeId
      BY <3>1 DEF Faded
    <3>3. w = v
      BY <2>5, <3>2
    <3> QED BY <3>2, <3>3
  <2>7. NotAbove(lv, k, l)
    <3> SUFFICES ASSUME NEW m \in DOMAIN lv, m < l, NEW w \in lv[m], k \in KeysOf(w)
                 PROVE  FALSE
      BY DEF NotAbove
    <3>1. w \in Holding(TablesAt(D, m), k) /\ m \in Nat
      BY <1>0 DEF Holding
    <3> QED BY <1>2, <3>1 DEF FirstFiled
  <2>8. BelowAt(lv, k, l, v) /\ v \in TablesAt(D, l)
    BY <2>3, <2>4, <2>7 DEF BelowAt
  <2> QED BY <1>2, <2>6, <2>8, FoundInLevels
<1> QED BY <1>1, <1>2, FirstCases

(* The file of u goes, one of the tables gone that leave level l.           *)
LEMMA RemovalFinds ==
  ASSUME NEW D, NEW E, NEW n, DiskLike(D, n), DiskLike(E, n),
         NEW l0, NEW lv, Tidy(l0, lv, n),
         NEW l \in Nat \ {0}, NEW gone, NEW u \in gone,
         AllApart(gone), \A t \in gone : IsTable(t, Keys, n),
         TablesAt(E, l) = TablesAt(D, l) \ {u},
         \A d \in Nat : d # l => TablesAt(E, d) = TablesAt(D, d),
         \A d \in DOMAIN lv : \A t \in lv[d] : t \in TablesAt(D, d) /\ ~(d = l /\ t = u),
         \A d \in Nat \ {0} : \A t \in TablesAt(D, d) : (d = l /\ t \in gone) \/ Faded(lv, d, t),
         NEW k, NotIn0(l0, k), Untied(E, k)
  PROVE  FoundIn(E, k) \in {FoundIn(D, k), Find(l0, lv, k)}
<1>0. n \in Nat /\ DOMAIN lv \subseteq Nat
  BY SeqFacts DEF Tidy
<1>1. CASE k \notin KeysOf(u)
  <2>1. Holding(TablesAt(D, l), k) = Holding(TablesAt(E, l), k)
    BY <1>1 DEF Holding
  <2>2. \A d \in Nat : Holding(TablesAt(D, d), k) = Holding(TablesAt(E, d), k)
    BY <2>1
  <2> QED BY <2>2, FoundSame
<1>2. CASE \E d \in Nat : d < l /\ Holding(TablesAt(D, d), k) # {}
  <2>1. PICK d \in Nat : d < l /\ Holding(TablesAt(D, d), k) # {}
    BY <1>2
  <2>2. \A m \in Nat : m <= d => m # l
    BY <2>1
  <2>3. \A m \in Nat : m <= d => Holding(TablesAt(D, m), k) = Holding(TablesAt(E, m), k)
    BY <2>2
  <2> QED BY <2>1, <2>3, FoundSame
<1>3. CASE k \in KeysOf(u) /\ ~\E d \in Nat : d < l /\ Holding(TablesAt(D, d), k) # {}
  <2>1. \A m \in DOMAIN lv : \A t \in lv[m] : k \in KeysOf(t) => t \in TablesAt(E, m)
    BY <1>0
  <2>2. ASSUME NEW d, FirstFiled(E, k, d), NEW t \in Holding(TablesAt(E, d), k)
        PROVE  Faded(lv, d, t)
    <3>1. d \in Nat /\ t \in TablesAt(E, d) /\ k \in KeysOf(t)
      BY <2>2 DEF FirstFiled, Holding
    <3>2. ~(d < l)
      <4> SUFFICES ASSUME d < l PROVE FALSE
        OBVIOUS
      <4>1. TablesAt(E, d) = TablesAt(D, d)
        BY <3>1
      <4>2. Holding(TablesAt(D, d), k) # {}
        BY <2>2, <4>1
      <4> QED BY <1>3, <3>1, <4>2
    <3>3. d \in Nat \ {0} /\ t \in TablesAt(D, d)
      <4>1. d # 0
        BY <3>2
      <4>2. TablesAt(E, d) \subseteq TablesAt(D, d)
        BY <3>1
      <4> QED BY <3>1, <4>1, <4>2
    <3>4. ~(d = l /\ t \in gone)
      <4> SUFFICES ASSUME d = l, t \in gone PROVE FALSE
        OBVIOUS
      <4>1. t # u
        BY <3>1
      <4>2. Apart(t, u) /\ IsTable(t, Keys, n) /\ IsTable(u, Keys, n)
        BY <4>1 DEF AllApart
      <4>3. k \notin KeysOf(u)
        BY <1>0, <3>1, <4>2, OneHolder
      <4> QED BY <1>3, <4>3
    <3> QED BY <3>3, <3>4
  <2>3. FoundIn(E, k) = Find(l0, lv, k)
    BY <2>1, <2>2, FoundBelow
  <2> QED BY <2>3
<1> QED BY <1>1, <1>2, <1>3

(* The file of v comes, a table of level l below level 0.                   *)
LEMMA WritingFinds ==
  ASSUME NEW D, NEW E, NEW n, DiskLike(D, n), DiskLike(E, n),
         NEW l0, NEW lv, Tidy(l0, lv, n),
         NEW l \in Nat \ {0}, NEW v, l \in DOMAIN lv, v \in lv[l],
         TablesAt(E, l) = TablesAt(D, l) \cup {v},
         \A d \in Nat : d # l => TablesAt(E, d) = TablesAt(D, d),
         \A d \in DOMAIN lv : d # l => lv[d] \subseteq TablesAt(D, d),
         \A t \in TablesAt(D, l) : Faded(lv, l, t),
         NEW k, NotIn0(l0, k), Untied(E, k)
  PROVE  FoundIn(E, k) \in {FoundIn(D, k), Find(l0, lv, k)}
<1>0. n \in Nat /\ DOMAIN lv \subseteq Nat
  BY SeqFacts DEF Tidy
<1>1. CASE k \notin KeysOf(v)
  <2>1. Holding(TablesAt(D, l), k) = Holding(TablesAt(E, l), k)
    BY <1>1 DEF Holding
  <2>2. \A d \in Nat : Holding(TablesAt(D, d), k) = Holding(TablesAt(E, d), k)
    BY <2>1
  <2> QED BY <2>2, FoundSame
<1>2. CASE \E d \in Nat : d < l /\ Holding(TablesAt(D, d), k) # {}
  <2>1. PICK d \in Nat : d < l /\ Holding(TablesAt(D, d), k) # {}
    BY <1>2
  <2>2. \A m \in Nat : m <= d => m # l
    BY <2>1
  <2>3. \A m \in Nat : m <= d => Holding(TablesAt(D, m), k) = Holding(TablesAt(E, m), k)
    BY <2>2
  <2> QED BY <2>1, <2>3, FoundSame
<1>3. CASE k \in KeysOf(v) /\ ~\E d \in Nat : d < l /\ Holding(TablesAt(D, d), k) # {}
  <2>1. v \in Holding(TablesAt(E, l), k) /\ v \in TablesAt(E, l)
    BY <1>3 DEF Holding
  <2>2. \A d \in Nat : d < l => Holding(TablesAt(D, d), k) = {} /\ Holding(TablesAt(E, d), k) = {}
    BY <1>3
  <2>3. FirstFiled(E, k, l)
    BY <2>1, <2>2 DEF FirstFiled
  <2>4. NotAbove(lv, k, l)
    <3> SUFFICES ASSUME NEW m \in DOMAIN lv, m < l, NEW w \in lv[m], k \in KeysOf(w)
                 PROVE  FALSE
      BY DEF NotAbove
    <3>1. m \in Nat /\ m # l
      BY <1>0
    <3>2. w \in Holding(TablesAt(D, m), k)
      BY <3>1 DEF Holding
    <3> QED BY <2>2, <3>1, <3>2
  <2>5. BelowAt(lv, k, l, v)
    BY <1>3, <2>4 DEF BelowAt
  <2>6. \A w \in lv[l] : k \in KeysOf(w) => w = v
    <3> SUFFICES ASSUME NEW w \in lv[l], k \in KeysOf(w), w # v
                 PROVE  FALSE
      OBVIOUS
    <3>1. Apart(v, w) /\ IsTable(v, Keys, n) /\ IsTable(w, Keys, n)
      BY DEF Tidy
    <3> QED BY <1>0, <1>3, <3>1, OneHolder
  <2>7. \A t \in Holding(TablesAt(E, l), k) : t.timeId <= v.timeId
    <3> SUFFICES ASSUME NEW t \in Holding(TablesAt(E, l), k)
                 PROVE  t.timeId <= v.timeId
      OBVIOUS
    <3>1. k \in KeysOf(t) /\ (t = v \/ t \in TablesAt(D, l))
      BY DEF Holding
    <3>2. Faded(lv, l, t)
      BY <3>1, NoneOlderThanItself
    <3>3. PICK w \in lv[l] : k \in KeysOf(w) /\ t.timeId <= w.timeId
      BY <3>1, <3>2 DEF Faded
    <3>4. w = v
      BY <2>6, <3>3
    <3> QED BY <3>3, <3>4
  <2>8. FoundIn(E, k) = Find(l0, lv, k)
    <3>1. Leads(E, lv, k, l, v)
      BY <2>1, <2>3, <2>5, <2>7 DEF Leads
    <3> QED BY <3>1, FoundLed
  <2> QED BY <2>8
<1> QED BY <1>1, <1>2, <1>3

(* The file of the last table of level 0 comes, in place of the oldest.     *)
LEMMA ShelfFinds ==
  ASSUME NEW D, NEW E, NEW n, DiskLike(D, n), DiskLike(E, n),
         NEW l0, NEW lv, Tidy(l0, lv, n), NEW m \in {1, 2}, Len(l0) = m,
         NEW f, f.slot = m, f.table = l0[m],
         NEW stamp, ShelfOK(ShelfOf(D), l0, lv, m - 1, stamp),
         \A g \in ShelfOf(D) : g.table.timeId < f.table.timeId,
         ShelfOf(E) = {g \in ShelfOf(D) : g.slot # m} \cup {f},
         \A d \in Nat : d # 0 => TablesAt(E, d) = TablesAt(D, d),
         \A d \in DOMAIN lv : lv[d] \subseteq TablesAt(D, d),
         \A d \in Nat \ {0} : \A t \in TablesAt(D, d) : Faded(lv, d, t),
         NEW k, Untied(E, k)
  PROVE  FoundIn(E, k) \in {FoundIn(D, k), Find(l0, lv, k)}
<1> DEFINE t == f.table
           HD == Holding(TablesAt(D, 0), k)
           HE == Holding(TablesAt(E, 0), k)
           Z == ShelfOf(D)
<1>0. /\ n \in Nat /\ DOMAIN lv \subseteq Nat \ {0} /\ DOMAIN l0 = 1 .. m
      /\ 0 \in Nat /\ \A d \in Nat : ~(d < 0)
  BY SeqFacts DEF Tidy
<1>1. /\ \A g \in Z : g.slot \in {1, 2}
      /\ \A g, h \in Z : g.slot = h.slot => g = h
      /\ \A g, h \in Z : g.slot = 1 /\ h.slot = 2 =>
           IF m - 1 = 1 THEN h.table.timeId < g.table.timeId ELSE g.table.timeId < h.table.timeId
      /\ m - 1 = 1 => \A g \in Z : g.slot = 2 => \E h \in Z : h.slot = 1
      /\ \A g \in Z : g.slot <= m - 1 => g.table = l0[g.slot]
  BY DEF ShelfOK
<1>2. \A u : u \in HD <=> k \in KeysOf(u) /\ \E g \in Z : g.table = u
  BY DEF Holding, TablesAt, ShelfOf
<1>3. \A u : u \in HE <=> k \in KeysOf(u) /\ (u = t \/ \E g \in Z : g.slot # m /\ g.table = u)
  <2>1. \A u : u \in HE <=> k \in KeysOf(u) /\ \E g \in ShelfOf(E) : g.table = u
    BY DEF Holding, TablesAt, ShelfOf
  <2> QED BY <2>1
<1>4. /\ \A u \in HD : IsTable(u, Keys, n)
      /\ \A u \in HE : IsTable(u, Keys, n)
  BY <1>0 DEF DiskLike, Holding
<1>5. ASSUME HE # {}
      PROVE  FoundIn(E, k) = Newest(HE).items[k]
  <2>1. FirstFiled(E, k, 0)
    BY <1>0, <1>5 DEF FirstFiled
  <2> QED BY <2>1, FoundFirst
<1>6. ASSUME HD # {}
      PROVE  FoundIn(D, k) = Newest(HD).items[k]
  <2>1. FirstFiled(D, k, 0)
    BY <1>0, <1>6 DEF FirstFiled
  <2> QED BY <2>1, FoundFirst
<1>7. m \in DOMAIN l0 /\ \A j \in DOMAIN l0 : j <= m
  BY <1>0
<1>8. t = l0[m]
  OBVIOUS
<1>9. \A g \in Z : g.table.timeId < t.timeId
  OBVIOUS
<1> HIDE DEF t, HD, HE, Z
<1>10. CASE k \in KeysOf(t)
  <2>1. t \in HE
    BY <1>3, <1>10
  <2>2. \A u \in HE : u # t => u.timeId < t.timeId
    BY <1>3, <1>9
  <2>3. Newest(HE) = t
    BY <1>0, <1>4, <2>1, <2>2, NewestIs
  <2>4. TopAt(l0, k, m)
    BY <1>7, <1>8, <1>10 DEF TopAt
  <2>5. Find(l0, lv, k) = t.items[k]
    BY <1>8, <2>4, FindTop
  <2> QED BY <1>5, <2>1, <2>3, <2>5
<1>11. CASE k \notin KeysOf(t) /\ \A g \in Z : g.slot = m => k \notin KeysOf(g.table)
  <2>1. HE = HD
    BY <1>2, <1>3, <1>11
  <2>2. \A d \in Nat : Holding(TablesAt(D, d), k) = Holding(TablesAt(E, d), k)
    BY <2>1 DEF HD, HE
  <2> QED BY <2>2, FoundSame
<1>12. ASSUME k \notin KeysOf(t), NEW o \in Z, o.slot = m, k \in KeysOf(o.table)
       PROVE  FoundIn(E, k) \in {FoundIn(D, k), Find(l0, lv, k)}
  <2>1. ASSUME NEW g \in Z, g.slot # m, k \in KeysOf(g.table)
        PROVE  FoundIn(E, k) = FoundIn(D, k)
    <3> DEFINE u == g.table
    <3>1. \A h \in Z : h.slot # m => h = g
      BY <1>1, <2>1
    <3>2. \A h \in Z : h.slot = m => h = o
      BY <1>1, <1>12
    <3>3. o.table.timeId < g.table.timeId
      <4>1. CASE m = 1
        BY <1>1, <1>12, <2>1, <4>1
      <4>2. CASE m = 2
        <5>1. m - 1 = 1 /\ g.slot = 1 /\ o.slot = 2
          BY <1>1, <1>12, <2>1, <4>2
        <5> QED BY <1>1, <5>1
      <4> QED BY <4>1, <4>2
    <3>4. u \in HE /\ u \in HD
      BY <1>2, <1>3, <2>1
    <3>5. \A w \in HE : w = u
      BY <1>3, <1>12, <3>1
    <3>6. \A w \in HD : w # u => w.timeId < u.timeId
      BY <1>2, <3>1, <3>2, <3>3
    <3> HIDE DEF u
    <3>7. Newest(HE) = u
      BY <1>0, <1>4, <3>4, <3>5, NewestIs
    <3>8. Newest(HD) = u
      BY <1>0, <1>4, <3>4, <3>6, NewestIs
    <3> QED BY <1>5, <1>6, <3>4, <3>7, <3>8
  <2>2. ASSUME \A g \in Z : g.slot # m => k \notin KeysOf(g.table)
        PROVE  FoundIn(E, k) = Find(l0, lv, k)
    <3>1. HE = {}
      BY <1>3, <1>12, <2>2
    <3>2. NotIn0(l0, k)
      <4> SUFFICES ASSUME NEW i \in DOMAIN l0, i # m
                   PROVE  k \notin KeysOf(l0[i])
        BY <1>8, <1>12 DEF NotIn0
      <4>1. m = 2 /\ i = 1
        BY <1>0
      <4>2. m - 1 = 1 /\ o.slot = 2
        BY <1>12, <4>1
      <4>3. PICK g \in Z : g.slot = 1
        BY <1>1, <4>2
      <4>4. g.table = l0[1]
        BY <1>1, <4>2, <4>3
      <4> QED BY <2>2, <4>1, <4>3, <4>4
    <3>3. \A d \in DOMAIN lv : \A w \in lv[d] : k \in KeysOf(w) => w \in TablesAt(E, d)
      BY <1>0
    <3>4. ASSUME NEW d, FirstFiled(E, k, d), NEW w \in Holding(TablesAt(E, d), k)
          PROVE  Faded(lv, d, w)
      <4>1. d \in Nat /\ d # 0 /\ w \in TablesAt(E, d)
        BY <3>1, <3>4 DEF FirstFiled, Holding, HE
      <4> QED BY <4>1
    <3> QED BY <3>2, <3>3, <3>4, FoundBelow
  <2> QED BY <2>1, <2>2
<1> QED BY <1>10, <1>11, <1>12

------------------------------------------------------------------------------
(* The invariant of the first life *)

(* The file of the last table of level 0 is to come; so many of the tables  *)
(* of level 0 have theirs, or never will.                                   *)
Due == \E t : ToWrite(0, t)
Filed == IF Due THEN Len(level0) - 1 ELSE Len(level0)

ShelfInv ==
  /\ ShelfOK(ShelfOf(disk), level0, levels, Filed, timeId)
  /\ Due => \A f \in ShelfOf(disk) : f.table.timeId < level0[Len(level0)].timeId

FirstLife == restarts = 0 =>
  /\ pc # "dead" /\ loaded = {} /\ TablesInv
  /\ QueueOK(io, level0, levels)
  /\ pc = "compact" => level0 = <<>>
  /\ pc = "compactLevel0" => Len(level0) > 2
  /\ Wiping => level0 = <<>> /\ levels = <<>>
  /\ ~Wiping => ShelfInv

(* Before a step on a file that a flush or a compaction has queued.         *)
InFirst == DInv /\ FirstLife /\ restarts = 0 /\ io # <<>> /\ ~Wiping

LEMMA LikeDisk ==
  ASSUME DiskOK, Stamps \in Nat, NEW l0, NEW lv, NEW m, NEW stamp,
         ShelfOK(ShelfOf(disk), l0, lv, m, stamp)
  PROVE  DiskLike(disk, Stamps)
<1> DEFINE n == Stamps
<1>1. n \in Nat /\ DiskTyped(disk, n)
  BY DEF DiskOK, Made, DiskTyped
<1> HIDE DEF n
<1>2. DiskLike(disk, n)
  BY <1>1, LikeFiles
<1> QED BY <1>2 DEF n

LEMMA LikeDiskNext ==
  ASSUME DiskOK', timeId' = timeId, Stamps \in Nat, NEW l0, NEW lv, NEW m, NEW stamp,
         ShelfOK(ShelfOf(disk'), l0, lv, m, stamp)
  PROVE  DiskLike(disk', Stamps)
<1> DEFINE n == Stamps
           D == disk'
<1>1. Stamps' = Stamps
  BY DEF Stamps
<1>2. n \in Nat /\ DiskTyped(D, n)
  BY <1>1 DEF DiskOK, Made, DiskTyped
<1> HIDE DEF n, D
<1>3. ShelfOK(ShelfOf(D), l0, lv, m, stamp)
  BY DEF D
<1>4. DiskLike(D, n)
  BY <1>2, <1>3, LikeFiles
<1> QED BY <1>4 DEF n, D

(* What is on file, and what is in memory. *)
LEMMA FirstFacts ==
  ASSUME InFirst
  PROVE  /\ Tidy(level0, levels, Stamps) /\ Stamps \in Nat /\ timeId \in Nat
         /\ DiskOK /\ IoOK /\ DiskLike(disk, Stamps) /\ QueueOK(io, level0, levels)
         /\ AgesDescend
         /\ \A l, t : t \in TablesAt(disk, l) <=> OnFile(l, t)
         /\ \A l \in DOMAIN levels : \A t \in levels[l] :
              (t \in TablesAt(disk, l) /\ ~ToRemove(l, t)) \/ ToWrite(l, t)
         /\ \A l \in Nat \ {0} : \A t : ToWrite(l, t) => l \in DOMAIN levels /\ t \in levels[l]
         /\ \A l \in Nat \ {0} : \A t \in TablesAt(disk, l) :
              ToRemove(l, t) \/ Faded(levels, l, t)
<1>1. /\ DInv /\ pc # "dead" /\ loaded = {} /\ TablesInv /\ QueueOK(io, level0, levels)
      /\ ~Wiping /\ ShelfInv /\ AgesDescend
  BY DEF InFirst, FirstLife, TablesInv
<1>2. Tidy(level0, levels, Stamps) /\ Stamps \in Nat /\ timeId \in Nat /\ DiskOK /\ IoOK
  BY <1>1, ItemsAreFound DEF Tidy, DInv, TablesOK
<1>3. DiskLike(disk, Stamps)
  BY <1>1, <1>2, LikeDisk DEF ShelfInv
<1>4. \A l, t : t \in TablesAt(disk, l) <=> OnFile(l, t)
  BY DEF TablesAt, OnFile
<1>5. \A l \in Nat \ {0} : \A t : WillBe(l, t) <=> t \in TablesOf(l)
  BY <1>1 DEF DInv, Follows
<1>6. DOMAIN levels \subseteq Nat \ {0}
  <2>1. levels \in Seq(Range(levels))
    BY <1>2 DEF Tidy
  <2> QED BY <2>1, SeqFacts
<1>7. ASSUME NEW l \in DOMAIN levels, NEW t \in levels[l]
      PROVE  (t \in TablesAt(disk, l) /\ ~ToRemove(l, t)) \/ ToWrite(l, t)
  <2>1. t \in TablesOf(l)
    BY DEF TablesOf
  <2>2. WillBe(l, t)
    BY <1>5, <1>6, <2>1
  <2> QED BY <1>4, <2>2 DEF WillBe
<1>8. ASSUME NEW l \in Nat \ {0}, NEW t, WillBe(l, t)
      PROVE  l \in DOMAIN levels /\ t \in levels[l]
  BY <1>5, <1>8 DEF TablesOf
<1>9. \A l \in Nat \ {0} : \A t : ToWrite(l, t) => l \in DOMAIN levels /\ t \in levels[l]
  BY <1>8 DEF WillBe
<1>10. ASSUME NEW l \in Nat \ {0}, NEW t \in TablesAt(disk, l), ~ToRemove(l, t)
       PROVE  Faded(levels, l, t)
  <2>1. WillBe(l, t)
    BY <1>4, <1>10 DEF WillBe
  <2>2. l \in DOMAIN levels /\ t \in levels[l]
    BY <1>8, <2>1
  <2> QED BY <1>2, <2>2, NoneOlderThanItself
<1> QED BY <1>1, <1>2, <1>3, <1>4, <1>7, <1>9, <1>10

LEMMA SameShelf ==
  ASSUME ShelfInv, UNCHANGED <<level0, levels, timeId>>,
         ShelfOf(disk') = ShelfOf(disk), Due' <=> Due
  PROVE  ShelfInv'
<1>1. Filed' = Filed
  BY DEF Filed
<1> QED BY <1>1 DEF ShelfInv

(* The first operation is done, or makes a directory: nothing else changes. *)
LEMMA NextFinds ==
  ASSUME InFirst, UNCHANGED <<level0, levels, timeId>>, DiskOK', io' = Tail(io),
         Op1.op # "write" \/ Op1.files = {},
         \A l : TablesAt(disk', l) = TablesAt(disk, l), ShelfOf(disk') = ShelfOf(disk)
  PROVE  /\ ShelfInv' /\ QueueOK(io', level0', levels')
         /\ \A k : FoundIn(disk', k) = FoundIn(disk, k)
<1>1. /\ IoOK /\ DiskLike(disk, Stamps) /\ Stamps \in Nat /\ QueueOK(io, level0, levels)
      /\ io # <<>> /\ ShelfInv
  BY FirstFacts DEF InFirst, FirstLife
<1>2. \A t : ToWrite(0, t) <=> \/ Op1.op = "write" /\ Op1.level = 0 /\ \E f \in Op1.files : f.table = t
                               \/ ToWrite(0, t)'
  BY <1>1, NextOp
<1>3. Due' <=> Due
  BY <1>2 DEF Due
<1>4. ShelfInv'
  BY <1>1, <1>3, SameShelf
<1>5. QueueOK(io', level0', levels')
  <2>1. io \in Seq(Range(io))
    BY <1>1 DEF IoOK
  <2>2. QueueOK(Tail(io), level0, levels)
    BY <1>1, <2>1, QueueTail
  <2> QED BY <2>2
<1>6. DiskLike(disk', Stamps)
  <2>1. ShelfOK(ShelfOf(disk'), level0', levels', Filed', timeId')
    BY <1>4 DEF ShelfInv
  <2> QED BY <1>1, <2>1, LikeDiskNext
<1>7. ASSUME NEW k
      PROVE  FoundIn(disk', k) = FoundIn(disk, k)
  <2>1. \A l \in Nat : Holding(TablesAt(disk, l), k) = Holding(TablesAt(disk', l), k)
    OBVIOUS
  <2> DEFINE D == disk
             E == disk'
             n == Stamps
  <2>2. /\ DiskLike(D, n) /\ DiskLike(E, n)
        /\ \A l \in Nat : Holding(TablesAt(D, l), k) = Holding(TablesAt(E, l), k)
    BY <1>1, <1>6, <2>1
  <2> HIDE DEF D, E, n
  <2>3. FoundIn(D, k) = FoundIn(E, k)
    BY <2>2, FoundSame
  <2> QED BY <2>3 DEF D, E
<1> QED BY <1>4, <1>5, <1>7

LEMMA MkdirFinds ==
  ASSUME InFirst, UNCHANGED <<level0, levels, timeId>>, DiskOK', Mkdir
  PROVE  /\ ShelfInv' /\ QueueOK(io', level0', levels')
         /\ \A k : FoundIn(disk', k) = FoundIn(disk, k)
<1>1. Todo = Op1
  BY FirstFacts, FirstOp DEF InFirst
<1>2. /\ Op1.op = "mkdir" /\ io' = Tail(io)
      /\ disk' = Overriding(disk, [l \in {Op1.level} |-> {}])
  BY <1>1 DEF Mkdir
<1> DEFINE a == Op1.level
           E == disk'
<1>3. /\ DOMAIN E = DOMAIN disk \cup {a}
      /\ \A l \in DOMAIN E : E[l] = IF l \in DOMAIN disk THEN disk[l] ELSE {}
  BY <1>2 DEF Overriding
<1> HIDE DEF a, E
<1>4. \A l : TablesAt(E, l) = TablesAt(disk, l)
  BY <1>3 DEF TablesAt
<1>5. ShelfOf(E) = ShelfOf(disk)
  BY <1>3 DEF ShelfOf
<1>6. Op1.op # "write"
  BY <1>2
<1>7. (\A l : TablesAt(disk', l) = TablesAt(disk, l)) /\ ShelfOf(disk') = ShelfOf(disk)
  BY <1>4, <1>5 DEF E
<1> QED BY <1>2, <1>6, <1>7, NextFinds

LEMMA DoneFinds ==
  ASSUME InFirst, UNCHANGED <<level0, levels, timeId>>, DiskOK', OperationDone
  PROVE  /\ ShelfInv' /\ QueueOK(io', level0', levels')
         /\ \A k : FoundIn(disk', k) = FoundIn(disk, k)
<1>1. Todo = Op1
  BY FirstFacts, FirstOp DEF InFirst
<1>2. io' = Tail(io) /\ disk' = disk /\ (Op1.op # "write" \/ Op1.files = {})
  BY <1>1 DEF OperationDone
<1> QED BY <1>2, NextFinds

(* No file is written while the first operation removes files; and no other *)
(* operation writes files while the first one does.                         *)
LEMMA NoOtherWrite ==
  ASSUME IoOK, io # <<>>, Op1.op # "mkdir", NEW i \in DOMAIN io, i # 1
  PROVE  io[i].op # "write"
<1>1. io[i].op = "write" => i = 2 /\ io[1] = MakeDir(io[2].level)
  BY DEF IoOK
<1>2. io[1].op # "mkdir"
  BY DEF Op1
<1>3. \A l : MakeDir(l).op = "mkdir"
  BY DEF MakeDir
<1> QED BY <1>1, <1>2, <1>3

(* What is to go fades, but for what the first operation removes and, when  *)
(* it writes, what goes from other levels.                                  *)
LEMMA RemovedFade ==
  ASSUME InFirst, NEW l, NEW t, ToRemove(l, t), Op1.op \in {"write", "remove"}
  PROVE  /\ level0 = <<>>
         /\ Op1.op = "remove" => (l = Op1.level /\ t \in Op1.tables) \/ Faded(levels, l, t)
         /\ Op1.op = "write" /\ l = Op1.level => Faded(levels, l, t)
<1>1. PICK i \in DOMAIN io : io[i].op = "remove" /\ io[i].level = l /\ t \in io[i].tables
  BY DEF ToRemove
<1>2. QueueOK(io, level0, levels) /\ 1 \in DOMAIN io /\ DOMAIN io \subseteq Nat \ {0}
  <2>1. IoOK /\ io # <<>> /\ QueueOK(io, level0, levels)
    BY FirstFacts DEF InFirst
  <2>2. 1 \in DOMAIN io /\ DOMAIN io = 1 .. Len(io) /\ Len(io) \in Nat
    BY <2>1, FirstOp
  <2> QED BY <2>1, <2>2
<1>3. level0 = <<>>
  BY <1>1, <1>2 DEF QueueOK, Leaving
<1>4. CASE i = 1
  <2>1. Op1.op = "remove" /\ l = Op1.level /\ t \in Op1.tables
    BY <1>1, <1>4 DEF Op1
  <2> QED BY <1>3, <2>1
<1>5. CASE i # 1
  <2>1. 1 < i
    BY <1>2, <1>5
  <2>2. Then(Op1, io[i], levels)
    BY <1>1, <1>2, <2>1 DEF QueueOK, Op1
  <2>3. Fades(levels, io[i]) => Faded(levels, l, t)
    BY <1>1 DEF Fades, Faded
  <2> QED BY <1>1, <1>3, <2>2, <2>3 DEF Then
<1> QED BY <1>4, <1>5

LEMMA RemoveFinds ==
  ASSUME InFirst, UNCHANGED <<level0, levels, timeId>>, DiskOK', RemoveOne,
         \A l, t : ToWrite(l, t)' => ToWrite(l, t)
  PROVE  /\ ShelfInv' /\ QueueOK(io', level0', levels')
         /\ \A k : Untied(disk', k) =>
              FoundIn(disk', k) \in {FoundIn(disk, k), Find(level0, levels, k)}
<1> DEFINE l == Op1.level
           gone == Op1.tables
<1>1. /\ Tidy(level0, levels, Stamps) /\ Stamps \in Nat /\ IoOK /\ io # <<>>
      /\ DiskLike(disk, Stamps) /\ QueueOK(io, level0, levels) /\ ShelfInv
  BY FirstFacts DEF InFirst, FirstLife
<1>2. Op1.op = "remove" /\ 1 \in DOMAIN io /\ l \in Nat
  BY <1>1, RemoveShape
<1>3. \A t \in gone : IsTable(t, Keys, Stamps)
  BY <1>1, RemoveShape
<1>4. PICK u \in gone :
        /\ disk' = IF l \in DOMAIN disk
                   THEN [disk EXCEPT ![l] = {f \in disk[l] : f.table # u}]
                   ELSE disk
        /\ io' = [io EXCEPT ![1] = RemoveAll(l, gone \ {u})]
  BY <1>1, RemoveShape
<1>5. l # 0 /\ level0 = <<>> /\ AllApart(gone)
  BY <1>1, <1>2 DEF QueueOK, Leaving, Op1
<1>6. /\ TablesAt(disk', l) = TablesAt(disk, l) \ {u}
      /\ \A d : d # l => TablesAt(disk', d) = TablesAt(disk, d)
      /\ ShelfOf(disk') = ShelfOf(disk)
  <2> DEFINE E == disk'
             S == {f \in disk[l] : f.table # u}
  <2>1. /\ DOMAIN E = DOMAIN disk
        /\ \A d \in DOMAIN E : E[d] = IF d = l THEN S ELSE disk[d]
    BY <1>4
  <2>2. l \in DOMAIN disk => {f.table : f \in S} = {f.table : f \in disk[l]} \ {u}
    OBVIOUS
  <2> HIDE DEF E, S
  <2>3. TablesAt(E, l) = TablesAt(disk, l) \ {u}
    BY <2>1, <2>2 DEF TablesAt
  <2>4. \A d : d # l => TablesAt(E, d) = TablesAt(disk, d)
    BY <2>1 DEF TablesAt
  <2>5. ShelfOf(E) = ShelfOf(disk)
    BY <1>5, <2>1 DEF ShelfOf
  <2> QED BY <2>3, <2>4, <2>5 DEF E
<1>7. \A d, t : ~ToWrite(d, t)
  <2>1. Op1.op # "mkdir" /\ io[1].op # "write"
    BY <1>2 DEF Op1
  <2>2. \A i \in DOMAIN io : io[i].op # "write"
    BY <1>1, <2>1, NoOtherWrite
  <2> QED BY <2>2 DEF ToWrite
<1>8. ShelfInv'
  <2>1. Due' <=> Due
    BY <1>7 DEF Due
  <2> QED BY <1>1, <1>6, <2>1, SameShelf
<1>9. QueueOK(io', level0', levels')
  <2> DEFINE e == RemoveAll(l, gone \ {u})
  <2>1. e.op = Op1.op /\ e.level = Op1.level /\ e.op = "remove" /\ e.tables \subseteq Op1.tables
    BY <1>2 DEF RemoveAll
  <2>2. io \in Seq(Range(io)) /\ io' = [io EXCEPT ![1] = e]
    BY <1>1, <1>4 DEF IoOK
  <2> HIDE DEF e
  <2>3. e.op = io[1].op /\ e.level = io[1].level /\ e.op # "write" /\ e.tables \subseteq io[1].tables
    BY <2>1 DEF Op1
  <2>4. QueueOK([io EXCEPT ![1] = e], level0, levels)
    BY <1>1, <1>2, <2>2, <2>3, QueueLess
  <2> QED BY <2>2, <2>4
<1>10. DiskLike(disk', Stamps)
  <2>1. ShelfOK(ShelfOf(disk'), level0', levels', Filed', timeId')
    BY <1>8 DEF ShelfInv
  <2> QED BY <1>1, <2>1, LikeDiskNext
<1>11. \A d \in DOMAIN levels : \A t \in levels[d] : t \in TablesAt(disk, d) /\ ~(d = l /\ t = u)
  <2>1. ToRemove(l, u)
    BY <1>2, <1>4 DEF ToRemove, Op1
  <2> QED BY <1>7, <2>1, FirstFacts
<1>12. \A d \in Nat \ {0} : \A t \in TablesAt(disk, d) : (d = l /\ t \in gone) \/ Faded(levels, d, t)
  <2> SUFFICES ASSUME NEW d \in Nat \ {0}, NEW t \in TablesAt(disk, d)
               PROVE  (d = l /\ t \in gone) \/ Faded(levels, d, t)
    OBVIOUS
  <2>1. ToRemove(d, t) \/ Faded(levels, d, t)
    BY FirstFacts
  <2>2. ToRemove(d, t) => (d = l /\ t \in gone) \/ Faded(levels, d, t)
    BY <1>2, RemovedFade
  <2> QED BY <2>1, <2>2
<1>13. ASSUME NEW k, Untied(disk', k)
       PROVE  FoundIn(disk', k) \in {FoundIn(disk, k), Find(level0, levels, k)}
  <2>1. NotIn0(level0, k)
    BY <1>5, NoTables DEF NotIn0
  <2> DEFINE D == disk
             E == disk'
             n == Stamps
  <2>2. /\ DiskLike(D, n) /\ DiskLike(E, n) /\ Tidy(level0, levels, n)
        /\ l \in Nat \ {0} /\ u \in gone /\ AllApart(gone) /\ \A t \in gone : IsTable(t, Keys, n)
        /\ TablesAt(E, l) = TablesAt(D, l) \ {u}
        /\ \A d \in Nat : d # l => TablesAt(E, d) = TablesAt(D, d)
        /\ \A d \in DOMAIN levels : \A t \in levels[d] : t \in TablesAt(D, d) /\ ~(d = l /\ t = u)
        /\ \A d \in Nat \ {0} : \A t \in TablesAt(D, d) : (d = l /\ t \in gone) \/ Faded(levels, d, t)
        /\ Untied(E, k)
    BY <1>1, <1>2, <1>3, <1>4, <1>5, <1>6, <1>10, <1>11, <1>12, <1>13
  <2> HIDE DEF D, E, n, l, gone
  <2>3. FoundIn(E, k) \in {FoundIn(D, k), Find(level0, levels, k)}
    BY <2>1, <2>2, RemovalFinds
  <2> QED BY <2>3 DEF D, E
<1> QED BY <1>8, <1>9, <1>13

(* What writing one file leaves to be done. *)
LEMMA WriteLess ==
  ASSUME InFirst, UNCHANGED <<level0, levels>>, Op1.op = "write", 1 \in DOMAIN io,
         NEW f \in Op1.files, io' = [io EXCEPT ![1] = WriteAll(Op1.level, Op1.files \ {f})]
  PROVE  QueueOK(io', level0', levels')
<1> DEFINE e == WriteAll(Op1.level, Op1.files \ {f})
<1>1. e.op = Op1.op /\ e.level = Op1.level /\ e.op = "write" /\ e.files \subseteq Op1.files
  BY DEF WriteAll
<1>2. io \in Seq(Range(io)) /\ io' = [io EXCEPT ![1] = e] /\ QueueOK(io, level0, levels)
  BY FirstFacts DEF IoOK
<1> HIDE DEF e
<1>3. e.op = io[1].op /\ e.level = io[1].level /\ e.op # "remove" /\ e.files \subseteq io[1].files
  BY <1>1 DEF Op1
<1>4. QueueOK([io EXCEPT ![1] = e], level0, levels)
  BY <1>2, <1>3, QueueLess
<1> QED BY <1>2, <1>4

LEMMA WriteBelowFinds ==
  ASSUME InFirst, UNCHANGED <<level0, levels, timeId>>, DiskOK', WriteOne, Op1.level # 0,
         \A l, t : ToWrite(l, t)' => ToWrite(l, t)
  PROVE  /\ ShelfInv' /\ QueueOK(io', level0', levels')
         /\ \A k : Untied(disk', k) =>
              FoundIn(disk', k) \in {FoundIn(disk, k), Find(level0, levels, k)}
<1> DEFINE l == Op1.level
<1>1. /\ Tidy(level0, levels, Stamps) /\ Stamps \in Nat /\ IoOK /\ io # <<>>
      /\ DiskLike(disk, Stamps) /\ QueueOK(io, level0, levels) /\ ShelfInv
  BY FirstFacts DEF InFirst, FirstLife
<1>2. /\ Op1.op = "write" /\ 1 \in DOMAIN io /\ l \in Nat /\ l \in DOMAIN disk /\ l # 0
      /\ \A f \in Op1.files : f.slot = 0
  BY <1>1, WriteShape
<1>3. PICK f \in Op1.files :
        /\ disk' = [disk EXCEPT ![l] =
                     {g \in disk[l] : f.slot = 0 \/ g.slot # f.slot} \cup {f}]
        /\ io' = [io EXCEPT ![1] = WriteAll(l, Op1.files \ {f})]
  BY <1>1, WriteShape
<1>4. level0 = <<>>
  BY <1>1, <1>2 DEF QueueOK, Coming, Op1
<1> DEFINE v == f.table
<1>5. /\ TablesAt(disk', l) = TablesAt(disk, l) \cup {v}
      /\ \A d : d # l => TablesAt(disk', d) = TablesAt(disk, d)
      /\ ShelfOf(disk') = ShelfOf(disk)
  <2> DEFINE E == disk'
             S == {g \in disk[l] : f.slot = 0 \/ g.slot # f.slot} \cup {f}
  <2>1. /\ DOMAIN E = DOMAIN disk
        /\ \A d \in DOMAIN E : E[d] = IF d = l THEN S ELSE disk[d]
    BY <1>3
  <2>2. S = disk[l] \cup {f}
    BY <1>2, <1>3
  <2> HIDE DEF E, S
  <2>3. TablesAt(E, l) = TablesAt(disk, l) \cup {v}
    BY <1>2, <2>1, <2>2 DEF TablesAt
  <2>4. \A d : d # l => TablesAt(E, d) = TablesAt(disk, d)
    BY <2>1 DEF TablesAt
  <2>5. ShelfOf(E) = ShelfOf(disk)
    BY <1>2, <2>1 DEF ShelfOf
  <2> QED BY <2>3, <2>4, <2>5 DEF E
<1>6. \A d, t : ToWrite(d, t) => d = l
  <2>1. \A i \in DOMAIN io : i # 1 => io[i].op # "write"
    <3>1. Op1.op # "mkdir"
      BY <1>2
    <3> QED BY <1>1, <3>1, NoOtherWrite
  <2> QED BY <2>1 DEF ToWrite, Op1
<1>7. ToWrite(l, v)
  BY <1>2, <1>3 DEF ToWrite, Op1
<1>8. ShelfInv'
  <2>1. Due' <=> Due
    BY <1>2, <1>6 DEF Due
  <2> QED BY <1>1, <1>5, <2>1, SameShelf
<1>9. QueueOK(io', level0', levels')
  BY <1>2, <1>3, WriteLess
<1>10. DiskLike(disk', Stamps)
  <2>1. ShelfOK(ShelfOf(disk'), level0', levels', Filed', timeId')
    BY <1>8 DEF ShelfInv
  <2> QED BY <1>1, <2>1, LikeDiskNext
<1>11. l \in DOMAIN levels /\ v \in levels[l]
  BY <1>2, <1>7, FirstFacts
<1>12. \A d \in DOMAIN levels : d # l => levels[d] \subseteq TablesAt(disk, d)
  BY <1>6, FirstFacts
<1>13. \A t \in TablesAt(disk, l) : Faded(levels, l, t)
  <2> SUFFICES ASSUME NEW t \in TablesAt(disk, l)
               PROVE  Faded(levels, l, t)
    OBVIOUS
  <2>1. ToRemove(l, t) \/ Faded(levels, l, t)
    BY <1>2, FirstFacts
  <2>2. ToRemove(l, t) => Faded(levels, l, t)
    BY <1>2, RemovedFade
  <2> QED BY <2>1, <2>2
<1>14. ASSUME NEW k, Untied(disk', k)
       PROVE  FoundIn(disk', k) \in {FoundIn(disk, k), Find(level0, levels, k)}
  <2>1. NotIn0(level0, k)
    BY <1>4, NoTables DEF NotIn0
  <2> DEFINE D == disk
             E == disk'
             n == Stamps
  <2>2. /\ DiskLike(D, n) /\ DiskLike(E, n) /\ Tidy(level0, levels, n)
        /\ l \in Nat \ {0} /\ l \in DOMAIN levels /\ v \in levels[l]
        /\ TablesAt(E, l) = TablesAt(D, l) \cup {v}
        /\ \A d \in Nat : d # l => TablesAt(E, d) = TablesAt(D, d)
        /\ \A d \in DOMAIN levels : d # l => levels[d] \subseteq TablesAt(D, d)
        /\ \A t \in TablesAt(D, l) : Faded(levels, l, t)
        /\ Untied(E, k)
    BY <1>1, <1>2, <1>5, <1>10, <1>11, <1>12, <1>13, <1>14
  <2> HIDE DEF D, E, n, l, v
  <2>3. FoundIn(E, k) \in {FoundIn(D, k), Find(level0, levels, k)}
    BY <2>1, <2>2, WritingFinds
  <2> QED BY <2>3 DEF D, E
<1> QED BY <1>8, <1>9, <1>14

LEMMA WriteShelfFinds ==
  ASSUME InFirst, UNCHANGED <<level0, levels, timeId>>, DiskOK', WriteOne, Op1.level = 0,
         \A l, t : ToWrite(l, t)' => ToWrite(l, t)
  PROVE  /\ ShelfInv' /\ QueueOK(io', level0', levels')
         /\ \A k : Untied(disk', k) =>
              FoundIn(disk', k) \in {FoundIn(disk, k), Find(level0, levels, k)}
<1>1. /\ Tidy(level0, levels, Stamps) /\ Stamps \in Nat /\ timeId \in Nat /\ IoOK /\ io # <<>>
      /\ DiskLike(disk, Stamps) /\ QueueOK(io, level0, levels) /\ ShelfInv /\ AgesDescend
  BY FirstFacts DEF InFirst, FirstLife
<1>2. Op1.op = "write" /\ 1 \in DOMAIN io /\ 0 \in DOMAIN disk
  BY <1>1, WriteShape
<1>3. PICK f \in Op1.files :
        /\ disk' = [disk EXCEPT ![0] =
                     {g \in disk[0] : f.slot = 0 \/ g.slot # f.slot} \cup {f}]
        /\ io' = [io EXCEPT ![1] = WriteAll(0, Op1.files \ {f})]
  BY <1>1, WriteShape
<1> DEFINE m == Len(level0)
           t == level0[m]
<1>4. /\ m \in {1, 2} /\ (m = 1 => levels # <<>>)
      /\ f = File(m, t) /\ Op1.files \ {f} = {}
  <2>1. Coming(Op1, level0, levels)
    BY <1>1, <1>2 DEF QueueOK, Op1
  <2> QED BY <1>3, <2>1 DEF Coming
<1>5. f.slot = m /\ f.table = t
  BY <1>4 DEF File
<1>6. m \in DOMAIN level0 /\ level0 \in Seq(Range(level0)) /\ m \in Nat \ {0}
  <2>1. level0 \in Seq(Range(level0))
    BY <1>1 DEF Tidy
  <2>2. DOMAIN level0 = 1 .. m
    BY <2>1, SeqFacts
  <2> QED BY <1>4, <2>1, <2>2
<1>7. t.timeId \in Nat /\ t.timeId < timeId
  <2>1. IsTable(t, Keys, Stamps)
    BY <1>1, <1>6 DEF Tidy
  <2> HIDE DEF t
  <2>2. t.timeId \in Nat
    BY <1>1, <2>1, KeysBounded, TableFacts
  <2> QED BY <1>1, <1>6, <2>2 DEF AgesDescend, t
<1>8. /\ ShelfOf(disk') = {g \in ShelfOf(disk) : g.slot # m} \cup {f}
      /\ \A d : d # 0 => TablesAt(disk', d) = TablesAt(disk, d)
  <2> DEFINE E == disk'
             S == {g \in disk[0] : f.slot = 0 \/ g.slot # f.slot} \cup {f}
  <2>1. /\ DOMAIN E = DOMAIN disk
        /\ \A d \in DOMAIN E : E[d] = IF d = 0 THEN S ELSE disk[d]
    BY <1>3
  <2>2. S = {g \in disk[0] : g.slot # m} \cup {f}
    BY <1>5, <1>6
  <2> HIDE DEF E, S
  <2>3. ShelfOf(E) = {g \in ShelfOf(disk) : g.slot # m} \cup {f}
    BY <1>2, <2>1, <2>2 DEF ShelfOf
  <2>4. \A d : d # 0 => TablesAt(E, d) = TablesAt(disk, d)
    BY <2>1 DEF TablesAt
  <2> QED BY <2>3, <2>4 DEF E
<1>9. Due
  <2>1. ToWrite(0, f.table)
    BY <1>2, <1>3 DEF ToWrite, Op1
  <2> QED BY <2>1 DEF Due
<1>10. ShelfOK(ShelfOf(disk), level0, levels, m - 1, timeId) /\ \A g \in ShelfOf(disk) : g.table.timeId < t.timeId
  BY <1>1, <1>9 DEF ShelfInv, Filed
<1>11. ~Due'
  <2>1. Op1.op # "mkdir"
    BY <1>2
  <2>2. \A i \in DOMAIN io : i # 1 => io[i].op # "write"
    BY <1>1, <2>1, NoOtherWrite
  <2> DEFINE e == WriteAll(0, Op1.files \ {f})
  <2>3. e.op = "write" /\ e.files = {}
    BY <1>4 DEF WriteAll
  <2>4. io' = [io EXCEPT ![1] = e]
    BY <1>3
  <2> HIDE DEF e
  <2>5. \A i \in DOMAIN io' : i \in DOMAIN io /\ io'[i] = IF i = 1 THEN e ELSE io[i]
    BY <2>4
  <2>6. ASSUME NEW u, ToWrite(0, u)'
        PROVE  FALSE
    <3>1. PICK i \in DOMAIN io' : io'[i].op = "write" /\ \E g \in io'[i].files : g.table = u
      BY <2>6 DEF ToWrite
    <3> QED BY <2>2, <2>3, <2>5, <3>1
  <2> QED BY <2>6 DEF Due
<1>12. ShelfOK(ShelfOf(disk'), level0, levels, m, timeId)
  <2> DEFINE Z == ShelfOf(disk)
             n == timeId
             l0 == level0
  <2>1. /\ l0 \in Seq(Range(l0)) /\ n \in Nat /\ Len(l0) \in {1, 2} /\ (Len(l0) = 1 => levels # <<>>)
        /\ ShelfOK(Z, l0, levels, Len(l0) - 1, n)
        /\ t = l0[Len(l0)] /\ t.timeId \in Nat /\ t.timeId < n
        /\ \A g \in Z : g.table.timeId < t.timeId
        /\ f.slot = Len(l0) /\ f.table = t
    BY <1>1, <1>4, <1>5, <1>6, <1>7, <1>10
  <2>2. ShelfOf(disk') = {g \in Z : g.slot # f.slot} \cup {f}
    BY <1>5, <1>8
  <2> HIDE DEF Z, n, l0, m, t
  <2>3. ShelfOK({g \in Z : g.slot # f.slot} \cup {f}, l0, levels, Len(l0), n)
    BY <2>1, ShelfWritten
  <2>4. ShelfOK(ShelfOf(disk'), l0, levels, Len(l0), n)
    BY <2>2, <2>3
  <2> QED BY <2>4 DEF n, l0, m
<1>13. ShelfInv'
  <2>1. Filed' = m
    BY <1>11 DEF Filed
  <2> QED BY <1>11, <1>12, <2>1 DEF ShelfInv
<1>14. QueueOK(io', level0', levels')
  BY <1>2, <1>3, WriteLess
<1>15. DiskLike(disk', Stamps)
  BY <1>1, <1>12, LikeDiskNext
<1>16. \A d \in DOMAIN levels : levels[d] \subseteq TablesAt(disk, d)
  <2>1. \A i \in DOMAIN io : i # 1 => io[i].op # "write"
    <3>1. Op1.op # "mkdir"
      BY <1>2
    <3> QED BY <1>1, <3>1, NoOtherWrite
  <2>2. \A d, u : ToWrite(d, u) => d = 0
    BY <2>1 DEF ToWrite, Op1
  <2>3. DOMAIN levels \subseteq Nat \ {0}
    BY <1>1, SeqFacts DEF Tidy
  <2> QED BY <2>2, <2>3, FirstFacts
<1>17. \A d \in Nat \ {0} : \A u \in TablesAt(disk, d) : Faded(levels, d, u)
  <2> SUFFICES ASSUME NEW d \in Nat \ {0}, NEW u \in TablesAt(disk, d)
               PROVE  Faded(levels, d, u)
    OBVIOUS
  <2>1. ToRemove(d, u) \/ Faded(levels, d, u)
    BY FirstFacts
  <2>2. ToRemove(d, u) => level0 = <<>>
    BY <1>2, RemovedFade
  <2>3. level0 # <<>>
    BY <1>6, NoTables
  <2> QED BY <2>1, <2>2, <2>3
<1>18. ASSUME NEW k, Untied(disk', k)
       PROVE  FoundIn(disk', k) \in {FoundIn(disk, k), Find(level0, levels, k)}
  <2> DEFINE D == disk
             E == disk'
             n == Stamps
             stamp == timeId
  <2>1. /\ DiskLike(D, n) /\ DiskLike(E, n) /\ Tidy(level0, levels, n)
        /\ m \in {1, 2} /\ Len(level0) = m /\ f.slot = m /\ f.table = level0[m]
        /\ ShelfOK(ShelfOf(D), level0, levels, m - 1, stamp)
        /\ \A g \in ShelfOf(D) : g.table.timeId < f.table.timeId
        /\ ShelfOf(E) = {g \in ShelfOf(D) : g.slot # m} \cup {f}
        /\ \A d \in Nat : d # 0 => TablesAt(E, d) = TablesAt(D, d)
        /\ \A d \in DOMAIN levels : levels[d] \subseteq TablesAt(D, d)
        /\ \A d \in Nat \ {0} : \A u \in TablesAt(D, d) : Faded(levels, d, u)
        /\ Untied(E, k)
    BY <1>1, <1>4, <1>5, <1>8, <1>10, <1>15, <1>16, <1>17, <1>18
  <2> HIDE DEF D, E, n, stamp, m, t
  <2>2. FoundIn(E, k) \in {FoundIn(D, k), Find(level0, levels, k)}
    BY <2>1, ShelfFinds
  <2> QED BY <2>2 DEF D, E
<1> QED BY <1>13, <1>14, <1>18

(* A file step of a flush or a compaction of the first life. *)
LEMMA FileStepFinds ==
  ASSUME InFirst, FileStep
  PROVE  /\ ShelfInv' /\ QueueOK(io', level0', levels')
         /\ \A k : Untied(disk', k) =>
              FoundIn(disk', k) \in {FoundIn(disk, k), Find(level0, levels, k)}
<1>1. DiskOK /\ IoOK /\ Stamps \in Nat /\ io # <<>> /\ ~Wiping
  BY FirstFacts DEF InFirst
<1>2. /\ UNCHANGED <<vars, loaded, torn, restarts>> /\ DiskOK'
      /\ \A l, t : ToWrite(l, t)' => ToWrite(l, t)
  BY <1>1, FileStepKeeps
<1>3. UNCHANGED <<level0, levels, timeId>>
  BY <1>2 DEF vars, tables
<1>4. CASE Mkdir \/ OperationDone
  <2>1. /\ ShelfInv' /\ QueueOK(io', level0', levels')
        /\ \A k : FoundIn(disk', k) = FoundIn(disk, k)
    BY <1>2, <1>3, <1>4, MkdirFinds, DoneFinds
  <2> QED BY <2>1
<1>5. CASE WriteOne
  <2>1. CASE Op1.level = 0
    BY <1>2, <1>3, <1>5, <2>1, WriteShelfFinds
  <2>2. CASE Op1.level # 0
    BY <1>2, <1>3, <1>5, <2>2, WriteBelowFinds
  <2> QED BY <2>1, <2>2
<1>6. CASE RemoveOne
  BY <1>2, <1>3, <1>6, RemoveFinds
<1>7. ~WipeOne
  BY <1>1, FirstOp DEF WipeOne
<1> QED BY <1>4, <1>5, <1>6, <1>7 DEF FileStep

LEMMA EmptyShelf ==
  ASSUME NEW l0, NEW lv, NEW m, NEW n
  PROVE  ShelfOK({}, l0, lv, m, n)
BY DEF ShelfOK

LEMMA NoFilesNoShelf ==
  ASSUME NEW D, D = <<>>
  PROVE  ShelfOf(D) = {}
BY NoTables DEF ShelfOf

LEMMA FileStepFirst ==
  ASSUME NarrowKeys, DInv, FirstLife, FileStep
  PROVE  FirstLife'
<1>1. DiskOK /\ IoOK /\ Stamps \in Nat
  BY DEF DInv, TablesOK, Stamps
<1>2. /\ UNCHANGED <<vars, loaded, torn, restarts>> /\ io # <<>> /\ IoOK'
      /\ ~Wiping => ~Wiping'
      /\ Wiping => Wiping' \/ (io' = <<>> /\ disk' = <<>>)
  BY <1>1, FileStepKeeps
<1>3. UNCHANGED <<level0, levels, timeId, pc, loaded, restarts>> /\ [Next]_vars
  BY <1>2 DEF vars, tables, control
<1> SUFFICES ASSUME restarts = 0
             PROVE  /\ pc' # "dead" /\ loaded' = {} /\ TablesInv'
                    /\ QueueOK(io', level0', levels')
                    /\ pc' = "compact" => level0' = <<>>
                    /\ pc' = "compactLevel0" => Len(level0') > 2
                    /\ Wiping' => level0' = <<>> /\ levels' = <<>>
                    /\ ~Wiping' => ShelfInv'
  BY <1>3 DEF FirstLife
<1>4. /\ pc # "dead" /\ loaded = {} /\ TablesInv
      /\ pc = "compact" => level0 = <<>>
      /\ pc = "compactLevel0" => Len(level0) > 2
      /\ Wiping => level0 = <<>> /\ levels = <<>>
  BY DEF FirstLife
<1>5. TablesInv'
  BY <1>3, <1>4, TablesInvInductive
<1>6. /\ pc' # "dead" /\ loaded' = {}
      /\ pc' = "compact" => level0' = <<>>
      /\ pc' = "compactLevel0" => Len(level0') > 2
  BY <1>3, <1>4
<1>7. CASE ~Wiping
  <2>1. InFirst
    BY <1>2, <1>7 DEF InFirst
  <2>2. ShelfInv' /\ QueueOK(io', level0', levels')
    BY <2>1, FileStepFinds
  <2> QED BY <1>2, <1>5, <1>6, <1>7, <2>2
<1>8. CASE Wiping
  <2>1. level0' = <<>> /\ levels' = <<>>
    BY <1>3, <1>4, <1>8
  <2>2. CASE Wiping'
    <3>1. DOMAIN io' = {1} /\ io'[1].op = "wipe"
      <4>1. io' # <<>> /\ io'[1].op = "wipe"
        BY <2>2 DEF Wiping
      <4>2. 1 \in DOMAIN io'
        <5>1. io' \in Seq(Range(io'))
          BY <1>2 DEF IoOK
        <5> DEFINE q == io'
        <5>2. q \in Seq(Range(q)) /\ q # <<>>
          BY <4>1, <5>1
        <5> HIDE DEF q
        <5>3. 1 \in DOMAIN q
          BY <5>2, SeqFacts
        <5> QED BY <5>3 DEF q
      <4> QED BY <1>2, <4>1, <4>2 DEF IoOK
    <3>2. QueueOK(io', level0', levels')
      BY <3>1 DEF QueueOK
    <3> QED BY <1>5, <1>6, <2>1, <2>2, <3>2
  <2>3. CASE ~Wiping'
    <3>1. io' = <<>> /\ disk' = <<>>
      BY <1>2, <1>8, <2>3
    <3>2. QueueOK(io', level0', levels')
      BY <3>1, NoTables, QueueEmpty
    <3>3. ~Due'
      BY <3>1, NothingQueuedNext DEF Due
    <3>4. ShelfOf(disk') = {}
      BY <3>1, NoFilesNoShelf
    <3>5. ShelfInv'
      BY <3>3, <3>4, EmptyShelf DEF ShelfInv
    <3> QED BY <1>5, <1>6, <2>3, <3>2, <3>5
  <2> QED BY <2>2, <2>3
<1> QED BY <1>7, <1>8

------------------------------------------------------------------------------
(* Steps of the store in the first life *)

(* Before a step of the store nothing is queued, and the tables of level 0  *)
(* have their files.                                                        *)
InStore == DInv /\ FirstLife /\ restarts = 0 /\ StoreStep

LEMMA StoreFacts ==
  ASSUME InStore
  PROVE  /\ io = <<>> /\ ~Wiping /\ disk' = disk /\ [Next]_vars
         /\ pc # "dead" /\ loaded = {} /\ TablesInv /\ Inv
         /\ pc = "compact" => level0 = <<>>
         /\ pc = "compactLevel0" => Len(level0) > 2
         /\ Tidy(level0, levels, Stamps) /\ Stamps \in Nat /\ timeId \in Nat
         /\ ShelfOK(ShelfOf(disk), level0, levels, Len(level0), timeId)
         /\ \A f \in ShelfOf(disk) : f.table.timeId \in Nat
<1>1. io = <<>> /\ disk' = disk /\ [Next]_vars
  BY StoreStepCases DEF InStore
<1>2. ~Wiping /\ ~Due
  BY <1>1, NothingQueued DEF Due
<1>3. /\ pc # "dead" /\ loaded = {} /\ TablesInv /\ ShelfInv /\ DiskOK
      /\ pc = "compact" => level0 = <<>>
      /\ pc = "compactLevel0" => Len(level0) > 2
  BY <1>2 DEF InStore, FirstLife, DInv
<1>4. Tidy(level0, levels, Stamps) /\ Stamps \in Nat /\ timeId \in Nat
  BY <1>3, ItemsAreFound DEF Tidy, InStore, DInv, TablesOK
<1>5. ShelfOK(ShelfOf(disk), level0, levels, Len(level0), timeId)
  BY <1>2, <1>3 DEF ShelfInv, Filed
<1>6. \A f \in ShelfOf(disk) : f.table.timeId \in Nat
  <2> SUFFICES ASSUME NEW f \in ShelfOf(disk) PROVE f.table.timeId \in Nat
    OBVIOUS
  <2>1. IsTable(f.table, Keys, Stamps)
    BY <1>3 DEF ShelfOf, DiskOK, Made
  <2> QED BY <1>4, <2>1, KeysBounded, TableFacts
<1>7. Inv
  BY <1>3 DEF TablesInv, LevelsInv
<1> QED BY <1>1, <1>2, <1>3, <1>4, <1>5, <1>6, <1>7

(* The queue of a flush that writes its table. *)
LEMMA QueueFlushed ==
  ASSUME NEW l0, NEW lv, NEW t, Len(l0) \in {1, 2}, t = l0[Len(l0)], Len(l0) = 1 => lv # <<>>,
         NEW q, q = <<MakeDir(0), WriteAll(0, {File(Len(l0), t)})>>
  PROVE  /\ QueueOK(q, l0, lv)
         /\ \E i \in DOMAIN q : /\ q[i].op = "write" /\ q[i].level = 0
                                /\ \E f \in q[i].files : f.table = t
<1> DEFINE x == File(Len(l0), t)
           a == MakeDir(0)
           b == WriteAll(0, {x})
<1>1. DOMAIN q = 1 .. 2 /\ q[1] = a /\ q[2] = b
  BY PairFacts
<1>2. a.op = "mkdir" /\ b.op = "write" /\ b.level = 0 /\ b.files = {x} /\ x.table = t
  BY DEF MakeDir, WriteAll, File
<1>3. x = File(Len(l0), l0[Len(l0)])
  OBVIOUS
<1> HIDE DEF x, a, b
<1>4. Coming(b, l0, lv)
  BY <1>2, <1>3 DEF Coming
<1>5. \A i \in DOMAIN q : (i = 1 /\ q[i] = a) \/ (i = 2 /\ q[i] = b)
  BY <1>1
<1>6. \A i \in DOMAIN q : q[i].op # "remove" /\ (q[i].op = "write" => Coming(q[i], l0, lv))
  BY <1>2, <1>4, <1>5
<1>7. QueueOK(q, l0, lv)
  BY <1>6 DEF QueueOK
<1>8. 2 \in DOMAIN q
  BY <1>1
<1> QED BY <1>1, <1>2, <1>7, <1>8

LEMMA FlushFirst ==
  ASSUME InStore, Flush, io' = FlushFiles
  PROVE  /\ QueueOK(io', level0', levels') /\ ShelfInv'
         /\ pc' # "dead" /\ pc' # "compact" /\ (pc' = "compactLevel0" => Len(level0') > 2)
<1> DEFINE m == Len(level0)
           p == level0'
           n == timeId
           Z == ShelfOf(disk)
<1>1. /\ p = Append(level0, NewTable) /\ levels' = levels /\ timeId' = n + 1
      /\ pc' = IF Len(p) > 2 THEN "compactLevel0" ELSE "clean"
  BY DEF Flush
<1>2. /\ level0 \in Seq(Range(level0)) /\ n \in Nat /\ disk' = disk
      /\ ShelfOK(Z, level0, levels, m, n) /\ \A f \in Z : f.table.timeId \in Nat
  BY StoreFacts DEF Tidy
<1>3. /\ m \in Nat /\ Len(p) = m + 1 /\ p[m + 1] = NewTable
      /\ level0 = <<>> <=> m = 0
  BY <1>1, <1>2, SeqFacts, AppendFacts
<1>4. NewTable.timeId = n
  BY DEF NewTable, Table
<1>5. /\ ShelfOK(Z, p, levels, m, n + 1)
      /\ (level0 = <<>> /\ levels = <<>>) \/ m > 1 => ShelfOK(Z, p, levels, m + 1, n + 1)
  <2>1. /\ ShelfOK(Z, Append(level0, NewTable), levels, Len(level0), n + 1)
        /\ (level0 = <<>> /\ levels = <<>>) \/ Len(level0) > 1 =>
             ShelfOK(Z, Append(level0, NewTable), levels, Len(level0) + 1, n + 1)
    <3> HIDE DEF Z, n
    <3> QED BY <1>2, ShelfPushed
  <2> QED BY <1>1, <2>1
<1>6. \A f \in Z : f.table.timeId < n
  BY <1>2 DEF ShelfOK
<1>7. pc' # "dead" /\ pc' # "compact" /\ (pc' = "compactLevel0" => Len(level0') > 2)
  BY <1>1
<1>8. CASE (level0 = <<>> /\ levels = <<>>) \/ Len(p) > 2
  <2>1. io' = <<>>
    BY <1>8 DEF FlushFiles
  <2>2. QueueOK(io', level0', levels')
    BY <2>1, NoTables, QueueEmpty
  <2>3. ~Due'
    BY <2>1, NothingQueuedNext DEF Due
  <2>4. ShelfOK(Z, p, levels, m + 1, n + 1)
    BY <1>3, <1>5, <1>8
  <2>5. Filed' = m + 1
    BY <1>3, <2>3 DEF Filed
  <2>6. ShelfOK(ShelfOf(disk'), level0', levels', Filed', timeId')
    BY <1>1, <1>2, <2>4, <2>5
  <2> QED BY <1>7, <2>2, <2>3, <2>6 DEF ShelfInv
<1>9. CASE ~((level0 = <<>> /\ levels = <<>>) \/ Len(p) > 2)
  <2>1. io' = <<MakeDir(0), WriteAll(0, {File(Len(p), NewTable)})>>
    BY <1>9 DEF FlushFiles
  <2>2. Len(p) \in {1, 2} /\ NewTable = p[Len(p)] /\ (Len(p) = 1 => levels' # <<>>)
    BY <1>1, <1>3, <1>9
  <2>3. /\ QueueOK(io', p, levels')
        /\ \E i \in DOMAIN io' : /\ io'[i].op = "write" /\ io'[i].level = 0
                                 /\ \E f \in io'[i].files : f.table = NewTable
    <3> DEFINE q == io'
               l0 == level0'
               lv == levels'
               t == NewTable
    <3>1. /\ q = <<MakeDir(0), WriteAll(0, {File(Len(l0), t)})>>
          /\ Len(l0) \in {1, 2} /\ t = l0[Len(l0)] /\ (Len(l0) = 1 => lv # <<>>)
      BY <2>1, <2>2
    <3> HIDE DEF q, l0, lv, t
    <3>2. /\ QueueOK(q, l0, lv)
          /\ \E i \in DOMAIN q : /\ q[i].op = "write" /\ q[i].level = 0
                                 /\ \E f \in q[i].files : f.table = t
      BY <3>1, QueueFlushed
    <3> QED BY <3>2 DEF q, l0, lv, t
  <2>4. Due'
    BY <2>3 DEF Due, ToWrite
  <2>5. Filed' = m
    <3>1. Filed' = Len(p) - 1
      BY <2>4 DEF Filed
    <3> HIDE DEF m, p
    <3> QED BY <1>3, <3>1
  <2>6. ShelfOK(ShelfOf(disk'), level0', levels', Filed', timeId')
    BY <1>1, <1>2, <1>5, <2>5
  <2>7. level0'[Len(level0')].timeId = n
    BY <1>4, <2>2
  <2>8. \A f \in ShelfOf(disk') : f.table.timeId < level0'[Len(level0')].timeId
    BY <1>2, <1>6, <2>7
  <2>9. ShelfInv'
    BY <2>6, <2>8 DEF ShelfInv
  <2> QED BY <1>7, <2>3, <2>9
<1> QED BY <1>8, <1>9

(* compactLevel0: a key of a merged table is one of the new tables, which   *)
(* are as young as the youngest merged, unless deletions are dropped; and   *)
(* then nothing of level 1 was merged.                                      *)
LEMMA Level0Fades ==
  ASSUME Inv, Stamps \in Nat, levels \in Seq(Range(levels)), CompactLevel0,
         NEW t \in Into0 \ New0, NEW k \in KeysOf(t)
  PROVE  1 \in DOMAIN levels' /\ \E v \in levels'[1] : k \in KeysOf(v) /\ t.timeId <= v.timeId
<1> DEFINE S == From0 \cup Into0
           D == UNION {KeysOf(u) : u \in S}
           last == Len(levels) = 0
           kept == Kept(Merged(S), last)
<1>1. /\ \A u \in From0 \cup Lower0 : IsTable(u, Keys, Stamps)
      /\ Into0 \subseteq Lower0
      /\ 1 \in DOMAIN levels' /\ levels'[1] = (Lower0 \ Into0) \cup New0
      /\ (1 \in DOMAIN levels /\ Lower0 = levels[1]) \/ (1 \notin DOMAIN levels /\ Lower0 = {})
  BY CompactLevel0Shape DEF Made, Into0, Lower0, Overlapping
<1>2. ~last
  <2>1. 1 \in DOMAIN levels
    BY <1>1
  <2>2. DOMAIN levels = 1 .. Len(levels)
    BY SeqFacts
  <2> QED BY <2>1, <2>2
<1>3. /\ MaxKey \in Nat /\ Keys \in SUBSET (0 .. MaxKey)
      /\ \A u \in S : IsTable(u, Keys, Stamps)
  BY <1>1, KeysBounded
<1>4. Merged(S) \in [D -> Items]
  <2> HIDE DEF S
  <2> QED BY <1>3, MergedItems
<1>5. kept \in [{j \in D : ~(last /\ Merged(S)[j].vlen = 0)} -> Items]
  <2> DEFINE merged == Merged(S)
  <2>1. merged \in [D -> Items]
    BY <1>4
  <2> HIDE DEF D, last, merged
  <2>2. Kept(merged, last) \in [{j \in D : ~(last /\ merged[j].vlen = 0)} -> Items]
    BY <2>1 DEF Kept, Restrict
  <2> QED BY <2>2 DEF merged
<1>6. New0 = Split(kept, MaxTimeId(S))
  BY DEF New0
<1>7. k \in D
  OBVIOUS
<1>8. \E v \in New0 : k \in KeysOf(v)
  <2> DEFINE C == {j \in D : ~(last /\ Merged(S)[j].vlen = 0)}
  <2>1. kept \in [C -> Items] /\ k \in C
    BY <1>2, <1>5, <1>7
  <2> HIDE DEF C, kept, S, D, last
  <2> QED BY <1>6, <2>1, SplitItems
<1>9. PICK v \in New0 : k \in KeysOf(v)
  BY <1>8
<1>10. v.timeId = MaxTimeId(S)
  BY NewFacts
<1>11. t.timeId <= MaxTimeId(S)
  <2>1. t \in S
    OBVIOUS
  <2> HIDE DEF S
  <2> QED BY <1>3, <2>1, MaxTimeIdInSet
<1>12. v \in levels'[1] /\ t.timeId <= v.timeId
  BY <1>1, <1>9, <1>10, <1>11
<1> QED BY <1>1, <1>9, <1>12

(* compact: the same, for what is merged from below: it is no younger than  *)
(* what comes from above.                                                   *)
LEMMA CompactFades ==
  ASSUME Inv, AgesDescend, Stamps \in Nat, levels \in Seq(Range(levels)), Compact,
         NEW t \in Into \ New, NEW k \in KeysOf(t)
  PROVE  /\ depth + 1 \in DOMAIN levels'
         /\ \E v \in levels'[depth + 1] : k \in KeysOf(v) /\ t.timeId <= v.timeId
<1> DEFINE d == depth
           next == d + 1
           D == UNION {KeysOf(u) : u \in From}
           E == UNION {KeysOf(u) : u \in Into}
           B == D \cup E
           last == Len(levels) = d
           merged == Overriding(Merged(From), Merged(Into))
           kept == Kept(merged, last)
<1>1. /\ d \in DOMAIN levels /\ d \in Nat /\ d > 0
      /\ From # {} /\ From \subseteq levels[d] /\ Into \subseteq Lower
      /\ \A u \in levels[d] \cup Lower : IsTable(u, Keys, Stamps)
      /\ next \in DOMAIN levels' /\ levels'[next] = (Lower \ Into) \cup New
      /\ \/ next \in DOMAIN levels /\ Lower = levels[next]
         \/ next \notin DOMAIN levels /\ Lower = {}
  BY CompactShape DEF Made, Into, Lower, Overlapping
<1>2. next \in DOMAIN levels /\ t \in levels[next] /\ d < next
  BY <1>1
<1>3. ~last
  <2>1. DOMAIN levels = 1 .. Len(levels) /\ Len(levels) \in Nat
    BY SeqFacts
  <2> QED BY <1>1, <1>2, <2>1
<1>4. MaxKey \in Nat /\ Keys \in SUBSET (0 .. MaxKey)
  BY KeysBounded
<1>5. /\ \A u \in From : IsTable(u, Keys, Stamps)
      /\ \A u \in Into : IsTable(u, Keys, Stamps)
  BY <1>1
<1>6. Merged(From) \in [D -> Items] /\ Merged(Into) \in [E -> Items]
  BY <1>4, <1>5, MergedItems
<1>7. merged \in [B -> Items]
  <2> HIDE DEF D, E
  <2> QED BY <1>6, OverridingItems DEF Overriding
<1>8. kept \in [{j \in B : ~(last /\ merged[j].vlen = 0)} -> Items]
  <2> HIDE DEF B, last, merged
  <2> QED BY <1>7 DEF Kept, Restrict
<1>9. New = Split(kept, MaxTimeId(From))
  BY DEF New
<1>10. k \in B
  OBVIOUS
<1>11. \E v \in New : k \in KeysOf(v)
  <2> DEFINE C == {j \in B : ~(last /\ merged[j].vlen = 0)}
  <2>1. kept \in [C -> Items] /\ k \in C
    BY <1>3, <1>8, <1>10
  <2> HIDE DEF C, kept, B, last, merged
  <2> QED BY <1>9, <2>1, SplitItems
<1>12. PICK v \in New : k \in KeysOf(v)
  BY <1>11
<1>13. v.timeId = MaxTimeId(From)
  BY NewFacts
<1>14. t.timeId <= MaxTimeId(From)
  <2>1. \E u \in From : MaxTimeId(From) = u.timeId
    <3> DEFINE n == Stamps
               S == From
    <3>1. n \in Nat /\ S # {} /\ \A u \in S : IsTable(u, Keys, n)
      BY <1>1, <1>5
    <3> HIDE DEF n, S
    <3>2. \E u \in S : MaxTimeId(S) = u.timeId
      BY <1>4, <3>1, MaxTimeIdInSet
    <3> QED BY <3>2 DEF S
  <2>2. PICK u \in From : MaxTimeId(From) = u.timeId
    BY <2>1
  <2>3. u \in levels[d]
    BY <1>1
  <2>4. t.timeId <= u.timeId
    BY <1>1, <1>2, <2>3 DEF AgesDescend
  <2> QED BY <2>2, <2>4
<1>15. v \in levels'[next] /\ t.timeId <= v.timeId
  BY <1>1, <1>12, <1>13, <1>14
<1> QED BY <1>1, <1>12, <1>15

LEMMA CascadeGoesOn ==
  ASSUME NEW l, Cascade(l)
  PROVE  pc' \in {"compact", "clean"}
BY DEF Cascade

(* A compaction leaves the files of level 0, and level 0 empty in memory.   *)
LEMMA ShelfCompacted ==
  ASSUME InStore, Len(level0) # 1, level0' = <<>>, levels' # <<>>, timeId' = timeId,
         \A t : ~ToWrite(0, t)'
  PROVE  ShelfInv'
<1> DEFINE n == timeId
           Z == ShelfOf(disk)
           lw == levels'
           p == level0'
<1>1. /\ ShelfOK(Z, level0, levels, Len(level0), n) /\ disk' = disk
      /\ level0 \in Seq(Range(level0))
  BY StoreFacts DEF Tidy
<1>2. Len(level0) \in Nat
  BY <1>1, SeqFacts
<1>3. lw # <<>>
  OBVIOUS
<1>4. ShelfOK(Z, p, lw, 0, n)
  <2> HIDE DEF n, Z, lw, p
  <2> QED BY <1>1, <1>2, <1>3, ShelfLeft
<1>5. ~Due'
  BY DEF Due
<1>6. Filed' = 0
  BY <1>5, NoTables DEF Filed
<1>7. ShelfOK(ShelfOf(disk'), level0', levels', Filed', timeId')
  BY <1>1, <1>4, <1>6
<1> QED BY <1>5, <1>7 DEF ShelfInv

LEMMA CompactLevel0First ==
  ASSUME InStore, CompactLevel0, io' = Level0Files
  PROVE  /\ QueueOK(io', level0', levels') /\ ShelfInv'
         /\ pc' \in {"compact", "clean"} /\ level0' = <<>>
<1>1. /\ Inv /\ TablesInv /\ Stamps \in Nat /\ Len(level0) > 2 /\ Tidy(level0, levels, Stamps)
      /\ timeId' = timeId
  BY StoreFacts DEF CompactLevel0
<1>2. levels \in Seq(Range(levels)) /\ level0 \in Seq(Range(level0)) /\ Stamps' = Stamps
  BY <1>1 DEF Tidy, Stamps
<1>3. pc' \in {"compact", "clean"} /\ level0' = <<>>
  BY CascadeGoesOn DEF CompactLevel0
<1>4. /\ \A t \in Lower0 : IsTable(t, Keys, Stamps)
      /\ Into0 \subseteq Lower0
      /\ (1 \in DOMAIN levels /\ Lower0 = levels[1]) \/ (1 \notin DOMAIN levels /\ Lower0 = {})
      /\ 1 \in DOMAIN levels'
  BY <1>1, CompactLevel0Shape DEF Made, Into0, Lower0, Overlapping
<1> DEFINE r == RemoveAll(1, Into0 \ New0)
           rem == <<r>>
<1>5. r.op = "remove" /\ r.level = 1 /\ r.tables = Into0 \ New0
  BY DEF RemoveAll
<1>6. IsOp(r, Stamps)
  <2>1. r = RemoveAll(r.level, r.tables) /\ \A t \in r.tables : IsTable(t, Keys, Stamps)
    BY <1>4, <1>5
  <2> HIDE DEF r
  <2> QED BY <1>5, <2>1 DEF IsOp
<1>7. AllApart(r.tables)
  <2>1. \A t, u \in Into0 : t # u => Apart(t, u)
    BY <1>1, <1>4 DEF Tidy
  <2> QED BY <1>5, <2>1 DEF AllApart
<1>8. Fades(levels', r)
  <2>1. \A t \in Into0 \ New0 : \A k \in KeysOf(t) :
          1 \in DOMAIN levels' /\ \E v \in levels'[1] : k \in KeysOf(v) /\ t.timeId <= v.timeId
    BY <1>1, <1>2, Level0Fades
  <2> HIDE DEF r
  <2> QED BY <1>5, <2>1 DEF Fades
<1>9. io' = WriteThenRemove(1, New0, rem)
  BY DEF Level0Files
<1> HIDE DEF r
<1>10. rem \in Seq(Range(rem)) /\ DOMAIN rem = {1} /\ rem[1] = r
  BY SingleFacts, SeqOfRange
<1> HIDE DEF rem
<1>11. QueueOK(io', level0', levels')
  <2>1. Removals(rem, Stamps)
    BY <1>5, <1>6, <1>10 DEF Removals
  <2>2. \A i \in DOMAIN rem : rem[i].level # 0 /\ AllApart(rem[i].tables) /\ Fades(levels', rem[i])
    <3>1. \A i \in DOMAIN rem : rem[i] = r
      BY <1>10
    <3>2. r.level # 0
      BY <1>5
    <3> QED BY <1>7, <1>8, <3>1, <3>2, Zenon
  <2>3. \A i, j \in DOMAIN rem : ~(i < j)
    BY <1>10
  <2> DEFINE n == Stamps
             lv == levels'
             new == New0
  <2>4. /\ Removals(rem, n)
        /\ \A i \in DOMAIN rem : rem[i].level # 0 /\ AllApart(rem[i].tables)
        /\ \A i \in DOMAIN rem : rem[i].level = 1 => Fades(lv, rem[i])
        /\ \A i, j \in DOMAIN rem : i < j => rem[i].level # rem[j].level /\ Fades(lv, rem[j])
    BY <2>1, <2>2, <2>3
  <2> HIDE DEF n, lv, new
  <2>5. QueueOK(WriteThenRemove(1, new, rem), <<>>, lv)
    BY <2>4, QueueMade
  <2> QED BY <1>3, <1>9, <2>5 DEF lv, new
<1>12. ShelfInv'
  <2>1. \A t : ~ToWrite(0, t)'
    <3>1. \A d, t : ToWrite(d, t)' => d # 0
      <4>1. io' = WriteThenRemove(1, New0, rem)
        BY <1>9
      <4>2. IsFiniteSet(New0) /\ \A t \in New0 : IsTable(t, Keys, Stamps')
        BY <1>1, <1>2, NewFacts DEF Made
      <4>3. Removals(rem, Stamps')
        BY <1>2, <1>5, <1>6, <1>10 DEF Removals
      <4>4. \A i \in DOMAIN rem : rem[i].level = 1 => \A t \in New0 : t \notin rem[i].tables
        BY <1>5, <1>10
      <4>5. \A d, t : ToWrite(d, t)' <=> d = 1 /\ t \in New0
        BY <4>1, <4>2, <4>3, <4>4, CompactionQueued
      <4> QED BY <4>5
    <3> QED BY <3>1
  <2>2. Len(level0) # 1
    <3> DEFINE m == Len(level0)
    <3>1. m \in Nat /\ m > 2
      BY <1>1, <1>2, SeqFacts
    <3> HIDE DEF m
    <3>2. m # 1
      BY <3>1
    <3> QED BY <3>2 DEF m
  <2>3. levels' # <<>>
    BY <1>4, NoTables
  <2> QED BY <1>1, <1>3, <2>1, <2>2, <2>3, ShelfCompacted
<1> QED BY <1>3, <1>11, <1>12

LEMMA CompactFirst ==
  ASSUME InStore, Compact, io' = CompactFiles
  PROVE  /\ QueueOK(io', level0', levels') /\ ShelfInv'
         /\ pc' \in {"compact", "clean"} /\ level0' = <<>>
<1>1. /\ Inv /\ TablesInv /\ AgesDescend /\ Stamps \in Nat /\ Tidy(level0, levels, Stamps)
      /\ timeId' = timeId /\ level0' = level0 /\ level0 = <<>>
  BY StoreFacts DEF Compact, TablesInv
<1>2. levels \in Seq(Range(levels)) /\ Stamps' = Stamps
  BY <1>1 DEF Tidy, Stamps
<1>3. pc' \in {"compact", "clean"}
  BY CascadeGoesOn DEF Compact
<1>4. /\ depth \in DOMAIN levels /\ depth \in Nat /\ depth > 0
      /\ From \subseteq levels[depth] /\ Into \subseteq Lower
      /\ \A t \in levels[depth] \cup Lower : IsTable(t, Keys, Stamps)
      /\ depth + 1 \in DOMAIN levels'
      /\ \/ depth + 1 \in DOMAIN levels /\ Lower = levels[depth + 1]
         \/ depth + 1 \notin DOMAIN levels /\ Lower = {}
  BY <1>1, CompactShape DEF Made, Into, Lower, Overlapping
<1> DEFINE d == depth
           below == d + 1
           r == RemoveAll(d, From)
           s == RemoveAll(below, Into \ New)
           rem == <<r, s>>
<1>5. d \in Nat /\ below \in Nat \ {0} /\ d # 0 /\ below # d
  BY <1>4
<1>6. r.op = "remove" /\ r.level = d /\ r.tables = From
  BY DEF RemoveAll
<1>7. s.op = "remove" /\ s.level = below /\ s.tables = Into \ New
  BY DEF RemoveAll
<1>8. IsOp(r, Stamps)
  <2>1. r = RemoveAll(r.level, r.tables) /\ \A t \in r.tables : IsTable(t, Keys, Stamps)
    BY <1>4, <1>6
  <2> HIDE DEF r, d, below
  <2> QED BY <1>5, <1>6, <2>1 DEF IsOp
<1>9. IsOp(s, Stamps)
  <2>1. s = RemoveAll(s.level, s.tables) /\ \A t \in s.tables : IsTable(t, Keys, Stamps)
    BY <1>4, <1>7
  <2> HIDE DEF s, d, below
  <2> QED BY <1>5, <1>7, <2>1 DEF IsOp
<1>10. AllApart(r.tables)
  <2>1. \A t, u \in From : t # u => Apart(t, u)
    BY <1>1, <1>4 DEF Tidy
  <2> QED BY <1>6, <2>1 DEF AllApart
<1>11. AllApart(s.tables)
  <2>1. \A t, u \in Into : t # u => Apart(t, u)
    BY <1>1, <1>4 DEF Tidy
  <2> QED BY <1>7, <2>1 DEF AllApart
<1>12. Fades(levels', s)
  <2>1. \A t \in Into \ New : \A k \in KeysOf(t) :
          /\ below \in DOMAIN levels'
          /\ \E v \in levels'[below] : k \in KeysOf(v) /\ t.timeId <= v.timeId
    BY <1>1, <1>2, CompactFades
  <2> HIDE DEF s, below
  <2> QED BY <1>7, <2>1 DEF Fades
<1>13. io' = WriteThenRemove(below, New, rem)
  BY DEF CompactFiles
<1> HIDE DEF r, s
<1>14. rem \in Seq(Range(rem)) /\ DOMAIN rem = 1 .. 2 /\ rem[1] = r /\ rem[2] = s
  <2>1. rem \in Seq({r, s}) /\ DOMAIN rem = 1 .. 2 /\ rem[1] = r /\ rem[2] = s
    BY PairFacts
  <2> HIDE DEF rem
  <2> QED BY <2>1, SeqOfRange
<1> HIDE DEF rem, d, below
<1>15. \A i \in DOMAIN rem : (i = 1 /\ rem[i] = r) \/ (i = 2 /\ rem[i] = s)
  BY <1>14
<1>16. Removals(rem, Stamps)
  BY <1>6, <1>7, <1>8, <1>9, <1>14, <1>15 DEF Removals
<1>17. QueueOK(io', level0', levels')
  <2>1. r.level # 0 /\ s.level # 0 /\ r.level # below /\ r.level # s.level
    BY <1>5, <1>6, <1>7
  <2>2. \A i \in DOMAIN rem : rem[i].level # 0 /\ AllApart(rem[i].tables)
    BY <1>10, <1>11, <1>15, <2>1, Zenon
  <2>3. \A i \in DOMAIN rem : rem[i].level = below => Fades(levels', rem[i])
    BY <1>12, <1>15, <2>1, Zenon
  <2>4. \A i, j \in DOMAIN rem : i < j => rem[i].level # rem[j].level /\ Fades(levels', rem[j])
    <3> SUFFICES ASSUME NEW i \in DOMAIN rem, NEW j \in DOMAIN rem, i < j
                 PROVE  rem[i].level # rem[j].level /\ Fades(levels', rem[j])
      OBVIOUS
    <3>1. i = 1 /\ j = 2
      BY <1>15
    <3>2. rem[i] = r /\ rem[j] = s
      BY <1>14, <3>1
    <3> QED BY <1>12, <2>1, <3>2, Zenon
  <2> DEFINE n == Stamps
             lv == levels'
             new == New
  <2>5. /\ Removals(rem, n) /\ below \in Nat \ {0}
        /\ \A i \in DOMAIN rem : rem[i].level # 0 /\ AllApart(rem[i].tables)
        /\ \A i \in DOMAIN rem : rem[i].level = below => Fades(lv, rem[i])
        /\ \A i, j \in DOMAIN rem : i < j => rem[i].level # rem[j].level /\ Fades(lv, rem[j])
    BY <1>5, <1>16, <2>2, <2>3, <2>4
  <2> HIDE DEF n, lv, new
  <2>6. QueueOK(WriteThenRemove(below, new, rem), <<>>, lv)
    BY <2>5, QueueMade
  <2> QED BY <1>1, <1>13, <2>6 DEF lv, new
<1>18. ShelfInv'
  <2>1. \A t : ~ToWrite(0, t)'
    <3>1. IsFiniteSet(New) /\ \A t \in New : IsTable(t, Keys, Stamps')
      BY <1>1, <1>2, NewFacts DEF Made
    <3>2. Removals(rem, Stamps')
      BY <1>2, <1>16
    <3>3. \A i \in DOMAIN rem : rem[i].level = below => \A t \in New : t \notin rem[i].tables
      BY <1>5, <1>6, <1>7, <1>15
    <3>4. \A l, t : ToWrite(l, t)' <=> l = below /\ t \in New
      BY <1>5, <1>13, <3>1, <3>2, <3>3, CompactionQueued
    <3> QED BY <1>5, <3>4
  <2>2. Len(level0) # 1
    <3>1. Len(level0) = 0
      BY <1>1, NoTables
    <3> QED BY <3>1
  <2>3. levels' # <<>>
    BY <1>4, NoTables
  <2> QED BY <1>1, <2>1, <2>2, <2>3, ShelfCompacted
<1> QED BY <1>1, <1>3, <1>17, <1>18

LEMMA ResetFirst ==
  ASSUME InStore, Reset, io' = <<Wipe>>
  PROVE  /\ QueueOK(io', level0', levels') /\ Wiping'
         /\ level0' = <<>> /\ levels' = <<>> /\ pc' = "return"
<1>1. Wiping' /\ IoOK'
  BY WipeQueued
<1>2. DOMAIN io' = {1} /\ io'[1].op = "wipe"
  <2>1. <<Wipe>>[1] = Wipe /\ DOMAIN <<Wipe>> = {1} /\ Wipe.op = "wipe"
    BY SingleFacts DEF Wipe
  <2> QED BY <2>1
<1>3. QueueOK(io', level0', levels')
  BY <1>2 DEF QueueOK
<1> QED BY <1>1, <1>3 DEF Reset

(* The other steps of the store do not start a compaction.                  *)
LEMMA OthersStartNone ==
  ASSUME StoreStep, ControlOK, ~Flush, ~CompactLevel0, ~Compact, ~Reset
  PROVE  pc' \notin {"compact", "compactLevel0", "dead"}
<1>1. CASE \/ \E k \in Keys, v \in PutValues : Put(k, v)
           \/ \E k \in DelKeys : Del(k)
           \/ \E chunk \in GcChunks : GcNothing(chunk) \/ GcStart(chunk)
  BY <1>1 DEF Put, Del, GcNothing, GcStart, MemPut
<1>2. CASE GcMove \/ GcSkip \/ GcReadFails \/ GcFlush \/ GcPunch
  BY <1>2 DEF GcMove, GcSkip, GcReadFails, GcFlush, GcPunch, MemPut
<1>3. CASE FlushNothing \/ Clean \/ Return
  BY <1>3 DEF FlushNothing, Clean, Return, ControlOK
<1> QED BY <1>1, <1>2, <1>3 DEF StoreStep

LEMMA QuietFirst ==
  ASSUME InStore, UNCHANGED <<level0, levels, timeId>>, io' = io
  PROVE  QueueOK(io', level0', levels') /\ ShelfInv'
<1>1. io = <<>> /\ disk' = disk /\ ShelfOK(ShelfOf(disk), level0, levels, Len(level0), timeId)
  BY StoreFacts
<1>2. QueueOK(io', level0', levels')
  BY <1>1, NoTables, QueueEmpty
<1>3. ~Due'
  BY <1>1, NothingQueuedNext DEF Due
<1>4. Filed' = Len(level0)
  BY <1>3 DEF Filed
<1>5. ShelfOK(ShelfOf(disk'), level0', levels', Filed', timeId')
  BY <1>1, <1>4
<1> QED BY <1>2, <1>3, <1>5 DEF ShelfInv

LEMMA StoreStepFirst ==
  ASSUME NarrowKeys, DInv, FirstLife, StoreStep
  PROVE  FirstLife'
<1>1. UNCHANGED <<disk, loaded, torn, restarts>>
  BY StoreStepCases
<1> SUFFICES ASSUME restarts = 0
             PROVE  /\ pc' # "dead" /\ loaded' = {} /\ TablesInv'
                    /\ QueueOK(io', level0', levels')
                    /\ pc' = "compact" => level0' = <<>>
                    /\ pc' = "compactLevel0" => Len(level0') > 2
                    /\ Wiping' => level0' = <<>> /\ levels' = <<>>
                    /\ ~Wiping' => ShelfInv'
  BY <1>1 DEF FirstLife
<1>2. InStore
  BY DEF InStore
<1>3. /\ [Next]_vars /\ TablesInv /\ Inv /\ loaded = {}
      /\ pc = "compact" => level0 = <<>>
      /\ pc = "compactLevel0" => Len(level0) > 2
  BY <1>2, StoreFacts
<1>4. TablesInv' /\ loaded' = {}
  BY <1>1, <1>3, TablesInvInductive
<1>5. ~Wiping' \/ Reset
  BY StoreStepCases, FlushFollows, Level0Follows, CompactFollows, NothingQueuedNext
<1>6. CASE Flush /\ io' = FlushFiles
  <2>1. ~Wiping'
    BY <1>6, FlushFollows
  <2> QED BY <1>2, <1>4, <1>6, <2>1, FlushFirst
<1>7. CASE CompactLevel0 /\ io' = Level0Files
  <2>1. ~Wiping'
    BY <1>7, Level0Follows
  <2> QED BY <1>2, <1>4, <1>7, <2>1, CompactLevel0First
<1>8. CASE Compact /\ io' = CompactFiles
  <2>1. ~Wiping'
    BY <1>8, CompactFollows
  <2> QED BY <1>2, <1>4, <1>8, <2>1, CompactFirst
<1>9. CASE Reset /\ io' = <<Wipe>>
  BY <1>2, <1>4, <1>9, ResetFirst
<1>10. CASE UNCHANGED <<level0, levels, timeId>> /\ io' = io /\ ~Flush /\ ~Reset
  <2>1. QueueOK(io', level0', levels') /\ ShelfInv'
    BY <1>2, <1>10, QuietFirst
  <2>2. ~Wiping'
    BY <1>5, <1>10
  <2>3. /\ pc' # "dead"
        /\ pc' = "compact" => level0' = <<>>
        /\ pc' = "compactLevel0" => Len(level0') > 2
    <3>1. CASE CompactLevel0 \/ Compact
      <4>1. pc' \in {"compact", "clean"}
        BY <3>1, CascadeGoesOn DEF CompactLevel0, Compact
      <4>2. level0' = <<>>
        BY <1>3, <3>1 DEF CompactLevel0, Compact
      <4> QED BY <4>1, <4>2
    <3>2. CASE ~(CompactLevel0 \/ Compact)
      <4>1. ControlOK
        BY <1>3, TypeParts DEF Inv
      <4> QED BY <1>10, <3>2, <4>1, OthersStartNone
    <3> QED BY <3>1, <3>2
  <2> QED BY <1>4, <2>1, <2>2, <2>3
<1> QED BY <1>6, <1>7, <1>8, <1>9, <1>10, StoreStepCases

------------------------------------------------------------------------------
(* The first life *)

LInv == DInv /\ restarts \in Nat /\ FirstLife

LEMMA LInvInductive ==
  ASSUME NarrowKeys
  PROVE  /\ DurableInit => LInv
         /\ LInv /\ [DurableNext]_allVars => LInv'
<1>1. ASSUME DurableInit PROVE LInv
  <2>1. DInv /\ restarts = 0
    BY <1>1, DInvInductive DEF DurableInit
  <2>2. TablesInv
    BY <1>1, TablesInvInductive DEF DurableInit
  <2>3. /\ io = <<>> /\ disk = <<>> /\ loaded = {} /\ level0 = <<>> /\ levels = <<>> /\ pc = "idle"
    BY <1>1 DEF DurableInit, Init
  <2>4. QueueOK(io, level0, levels)
    BY <2>3, NoTables, QueueEmpty
  <2>5. ~Wiping /\ ~Due
    BY <2>3, NothingQueued DEF Due
  <2>6. ShelfInv
    <3>1. ShelfOf(disk) = {}
      BY <2>3, NoFilesNoShelf
    <3> QED BY <2>5, <3>1, EmptyShelf DEF ShelfInv
  <2>7. FirstLife
    BY <2>2, <2>3, <2>4, <2>5, <2>6 DEF FirstLife
  <2> QED BY <2>1, <2>7 DEF LInv
<1>2. ASSUME LInv, [DurableNext]_allVars PROVE LInv'
  <2>1. DInv'
    BY <1>2, DInvInductive DEF LInv
  <2>2. CASE StoreStep
    <3>1. restarts' = restarts
      BY <2>2, StoreStepCases
    <3> QED BY <1>2, <2>1, <2>2, <3>1, StoreStepFirst DEF LInv
  <2>3. CASE FileStep
    <3>1. restarts' = restarts
      BY <2>3 DEF FileStep, Mkdir, WriteOne, RemoveOne, OperationDone, WipeOne, Idle
    <3> QED BY <1>2, <2>1, <2>3, <3>1, FileStepFirst DEF LInv
  <2>4. CASE Restart \/ RestartFails
    <3>1. restarts' = restarts + 1
      BY <2>4 DEF Restart, RestartFails, Killed
    <3>2. restarts' \in Nat /\ restarts' # 0
      <4> DEFINE a == restarts
                 b == restarts'
      <4>1. a \in Nat /\ b = a + 1
        BY <1>2, <3>1 DEF LInv
      <4> HIDE DEF a, b
      <4>2. b \in Nat /\ b # 0
        BY <4>1
      <4> QED BY <4>2 DEF b
    <3> QED BY <2>1, <3>2 DEF LInv, FirstLife
  <2>5. CASE UNCHANGED allVars
    <3>1. UNCHANGED <<level0, levels, timeId, disk, io, loaded, restarts, pc>> /\ [Next]_vars
      BY <2>5 DEF allVars, vars, files, tables, control
    <3>2. FirstLife'
      <4> SUFFICES ASSUME restarts = 0
                   PROVE  FirstLife'
        BY <3>1 DEF FirstLife
      <4>1. TablesInv'
        BY <1>2, <3>1, TablesInvInductive DEF LInv, FirstLife
      <4>2. (Due' <=> Due) /\ (Wiping' <=> Wiping)
        BY <3>1 DEF Due, ToWrite, Wiping
      <4>3. ShelfInv => ShelfInv'
        BY <3>1, <4>2, SameShelf
      <4>4. QueueOK(io, level0, levels) => QueueOK(io', level0', levels')
        BY <3>1
      <4> QED BY <1>2, <3>1, <4>1, <4>2, <4>3, <4>4 DEF LInv, FirstLife
    <3> QED BY <1>2, <2>1, <3>1, <3>2 DEF LInv
  <2> QED BY <1>2, <2>2, <2>3, <2>4, <2>5 DEF DurableNext
<1> QED BY <1>1, <1>2

(* No two files of a level hold the key under one stamp. *)
LEMMA NotTied ==
  ASSUME NEW k, ~Tied(k)'
  PROVE  Untied(disk', k)
<1> DEFINE E == disk'
<1>1. \A l \in DOMAIN E : \A t, u \in {f.table : f \in E[l]} :
        ~(t # u /\ k \in KeysOf(t) \cap KeysOf(u) /\ t.timeId = u.timeId)
  BY DEF Tied, TablesIn
<1> HIDE DEF E
<1>2. Untied(E, k)
  BY <1>1 DEF Untied, Holding, TablesAt
<1> QED BY <1>2 DEF E

(* Until the first kill, a kill between two file operations loses nothing   *)
(* that a kill before both would have kept: with each file a flush or a     *)
(* compaction writes or removes, the item a restart would find for a key    *)
(* stays as it is or becomes the one the store has now, unless two files of *)
(* a level hold the key under one stamp (SSTableHandler.cc, compactLevel0   *)
(* and compact: new files first, then removals).                            *)
THEOREM FirstLifeCatchesUp ==
  ASSUME NarrowKeys
  PROVE  DurableSpec => DiskCatchesUp
<1>1. DurableInit => LInv
  BY LInvInductive
<1>2. LInv /\ [DurableNext]_allVars => LInv'
  BY LInvInductive
<1> DEFINE Step == FileStepBeforeKills =>
             \A k \in Keys : ~Tied(k)' => OnDisk!Item(k)' \in {OnDisk!Item(k), Item(k)}
<1>3. LInv /\ [DurableNext]_allVars => [Step]_allVars
  <2> SUFFICES ASSUME LInv, FileStepBeforeKills, NEW k \in Keys, ~Tied(k)'
               PROVE  OnDisk!Item(k)' \in {OnDisk!Item(k), Item(k)}
    OBVIOUS
  <2>1. restarts' = 0 /\ io # <<>> /\ Todo.op # "wipe" /\ FileStep
    BY DEF FileStepBeforeKills
  <2>2. restarts = 0
    BY <2>1 DEF FileStep, Mkdir, WriteOne, RemoveOne, OperationDone, WipeOne, Idle
  <2>3. ~Wiping
    BY <2>1, FirstOp DEF LInv, DInv
  <2>4. InFirst
    BY <2>1, <2>2, <2>3 DEF LInv, InFirst
  <2>5. FoundIn(disk', k) \in {FoundIn(disk, k), Find(level0, levels, k)}
    BY <2>1, <2>4, NotTied, FileStepFinds
  <2>6. OnDisk!Item(k)' = FoundIn(disk', k)
    BY DiskItemsNext
  <2>7. OnDisk!Item(k) = FoundIn(disk, k)
    BY DiskItems
  <2>8. Item(k) = Find(level0, levels, k)
    BY ItemIsFind
  <2> QED BY <2>5, <2>6, <2>7, <2>8
<1> QED BY <1>1, <1>2, <1>3, PTL DEF DurableSpec, DiskCatchesUp
==============================================================================
