---------------------------- MODULE RadixTreeProofs ----------------------------
(***************************************************************************)
(* The plain radix tree is a set and leaves nothing behind, for every       *)
(* number of digits and every set of values, as long as no removal unlinks  *)
(* outside the root.                                                        *)
(***************************************************************************)
EXTENDS RadixTree, FiniteSetTheorems, SequenceTheorems, WellFoundedInduction, TLAPS

Digits == 0 .. 3
Found  == {v \in Values : RadixFind(v)}
Paths(S) == {Prefix(v, n) : v \in S, n \in 1 .. Depth}

------------------------------------------------------------------------------
(* Paths *)

LEMMA SmallestNat ==
  ASSUME NEW S \in SUBSET Nat, S # {}
  PROVE  \E m \in S : \A x \in S : m <= x
<1> DEFINE Below == {0 .. x : x \in S}
<1>1. Below \subseteq FiniteSubsetsOf(Nat)
  <2> SUFFICES ASSUME NEW x \in S
               PROVE  0 .. x \in FiniteSubsetsOf(Nat)
    OBVIOUS
  <2>1. x \in Int /\ 0 .. x \in SUBSET Nat
    OBVIOUS
  <2> QED BY <2>1, FS_Interval DEF FiniteSubsetsOf
<1>2. Below # {}
  OBVIOUS
<1>3. PICK B \in Below : \A C \in Below : <<C, B>> \notin StrictSubsetOrdering(Nat)
  <2> HIDE DEF Below
  <2> QED BY <1>1, <1>2, FS_StrictSubsetOrderingWellFounded, WFMin
<1>4. PICK m \in S : B = 0 .. m
  OBVIOUS
<1>5. \A x \in S : m <= x
  <2> SUFFICES ASSUME NEW x \in S, x < m
               PROVE  FALSE
    OBVIOUS
  <2>1. 0 .. x \in SUBSET Nat /\ B \in SUBSET Nat
    BY <1>4
  <2>2. 0 .. x \subseteq B /\ m \in B /\ m \notin 0 .. x
    BY <1>4
  <2>3. <<0 .. x, B>> \in StrictSubsetOrdering(Nat)
    BY <2>1, <2>2 DEF StrictSubsetOrdering
  <2> QED BY <1>3, <2>3
<1> QED BY <1>5

LEMMA PrefixFacts ==
  ASSUME NEW v \in [1 .. Depth -> Digits], NEW n \in 0 .. Depth
  PROVE  /\ Prefix(v, n) \in Seq(Digits) /\ Len(Prefix(v, n)) = n
         /\ \A d \in 1 .. n : Prefix(v, n)[d] = v[d]
<1>1. \A d \in 1 .. n : v[d] \in Digits
  BY TreeAssumption
<1>2. /\ SubSeq(v, 1, n) \in Seq(Digits)
      /\ Len(SubSeq(v, 1, n)) = IF 1 <= n THEN n - 1 + 1 ELSE 0
      /\ \A d \in 1 .. n - 1 + 1 : SubSeq(v, 1, n)[d] = v[1 + d - 1]
  BY <1>1, TreeAssumption, SubSeqProperties
<1>3. \A d \in 1 .. n : SubSeq(v, 1, n)[d] = v[d]
  BY <1>2, TreeAssumption
<1> QED BY <1>2, <1>3, TreeAssumption DEF Prefix

LEMMA WholePath ==
  ASSUME NEW v \in [1 .. Depth -> Digits]
  PROVE  Prefix(v, Depth) = v
<1>1. Depth \in Nat /\ Depth \in 0 .. Depth
  BY TreeAssumption
<1>2. v \in Seq(Digits) /\ Len(v) = Depth
  BY <1>1, SeqDef, LenProperties
<1>3. /\ Prefix(v, Depth) \in Seq(Digits) /\ Len(Prefix(v, Depth)) = Depth
      /\ \A d \in 1 .. Depth : Prefix(v, Depth)[d] = v[d]
  BY <1>1, PrefixFacts
<1> QED BY <1>2, <1>3, SeqEqual

(* Paths are equal when their digits are, and only then.                    *)
LEMMA PrefixEqual ==
  ASSUME NEW v \in [1 .. Depth -> Digits], NEW w \in [1 .. Depth -> Digits],
         NEW n \in 0 .. Depth, NEW o \in 0 .. Depth
  PROVE  Prefix(v, n) = Prefix(w, o) <=> n = o /\ \A d \in 1 .. n : v[d] = w[d]
<1>1. /\ Prefix(v, n) \in Seq(Digits) /\ Len(Prefix(v, n)) = n
      /\ \A d \in 1 .. n : Prefix(v, n)[d] = v[d]
      /\ Prefix(w, o) \in Seq(Digits) /\ Len(Prefix(w, o)) = o
      /\ \A d \in 1 .. o : Prefix(w, o)[d] = w[d]
  BY PrefixFacts
<1>2. ASSUME Prefix(v, n) = Prefix(w, o)
      PROVE  n = o /\ \A d \in 1 .. n : v[d] = w[d]
  <2>1. n = o
    BY <1>1, <1>2
  <2>2. ASSUME NEW d \in 1 .. n
        PROVE  v[d] = w[d]
    BY <1>1, <1>2, <2>1
  <2> QED BY <2>1, <2>2
<1>3. ASSUME n = o, \A d \in 1 .. n : v[d] = w[d]
      PROVE  Prefix(v, n) = Prefix(w, o)
  <2>1. /\ Len(Prefix(v, n)) = Len(Prefix(w, o))
        /\ \A d \in 1 .. Len(Prefix(v, n)) : Prefix(v, n)[d] = Prefix(w, o)[d]
    BY <1>1, <1>3
  <2> QED BY <1>1, <2>1, SeqEqual
<1> QED BY <1>2, <1>3

LEMMA EmptyPath ==
  ASSUME NEW v \in [1 .. Depth -> Digits], NEW n \in 0 .. Depth
  PROVE  Prefix(v, n) = <<>> <=> n = 0
<1>1. Prefix(v, n) \in Seq(Digits) /\ Len(Prefix(v, n)) = n
  BY PrefixFacts
<1> QED BY <1>1, EmptySeq

(* A path with one digit more: the child of a node of a path.               *)
LEMMA LongerPath ==
  ASSUME NEW v \in [1 .. Depth -> Digits], NEW n \in 0 .. Depth - 1, NEW o, o = n + 1
  PROVE  Append(Prefix(v, n), v[o]) = Prefix(v, o)
<1> DEFINE p == Prefix(v, n)
           q == Prefix(v, o)
           d == v[o]
<1>1. /\ n \in 0 .. Depth /\ o \in 0 .. Depth /\ o \in 1 .. Depth /\ n \in Nat
      /\ \A e \in 1 .. o : e \in 1 .. n \/ e = o
  BY TreeAssumption
<1>2. p \in Seq(Digits) /\ Len(p) = n /\ \A e \in 1 .. n : p[e] = v[e]
  BY <1>1, PrefixFacts
<1>3. q \in Seq(Digits) /\ Len(q) = o /\ \A e \in 1 .. o : q[e] = v[e]
  BY <1>1, PrefixFacts
<1>4. d \in Digits
  BY <1>1
<1> HIDE DEF p, q
<1>5. /\ Append(p, d) \in Seq(Digits) /\ Len(Append(p, d)) = Len(p) + 1
      /\ \A e \in 1 .. Len(p) : Append(p, d)[e] = p[e]
      /\ Append(p, d)[Len(p) + 1] = d
  BY <1>2, <1>4, AppendProperties
<1>6. /\ Len(Append(p, d)) = o /\ Append(p, d)[o] = v[o]
      /\ \A e \in 1 .. n : Append(p, d)[e] = v[e]
  BY <1>2, <1>5
<1>7. \A e \in 1 .. o : Append(p, d)[e] = q[e]
  BY <1>1, <1>3, <1>6
<1>8. Append(p, d) = q
  BY <1>3, <1>5, <1>6, <1>7, SeqEqual
<1> QED BY <1>8 DEF p, q

LEMMA AppendEqual ==
  ASSUME NEW p \in Seq(Digits), NEW q \in Seq(Digits), NEW d \in Digits, NEW e \in Digits,
         Append(p, d) = Append(q, e)
  PROVE  p = q /\ d = e
<1>1. /\ Len(Append(p, d)) = Len(p) + 1 /\ Append(p, d)[Len(p) + 1] = d
      /\ \A i \in 1 .. Len(p) : Append(p, d)[i] = p[i]
      /\ Len(Append(q, e)) = Len(q) + 1 /\ Append(q, e)[Len(q) + 1] = e
      /\ \A i \in 1 .. Len(q) : Append(q, e)[i] = q[i]
      /\ Len(p) \in Nat /\ Len(q) \in Nat
  BY AppendProperties, LenProperties
<1>2. Len(p) = Len(q) /\ d = e
  BY <1>1
<1>3. \A i \in 1 .. Len(p) : p[i] = q[i]
  BY <1>1, <1>2
<1> QED BY <1>2, <1>3, SeqEqual

(* The child of a node of the path of v lies on the path of w only where    *)
(* the two paths are still the same.                                        *)
LEMMA ChildPath ==
  ASSUME NEW v \in [1 .. Depth -> Digits], NEW w \in [1 .. Depth -> Digits],
         NEW n \in 0 .. Depth - 1, NEW o \in 0 .. Depth, NEW d \in Digits,
         Append(Prefix(v, n), d) = Prefix(w, o)
  PROVE  o = n + 1 /\ Prefix(w, n) = Prefix(v, n) /\ w[o] = d
<1> DEFINE l == n + 1
           p == Prefix(v, n)
           q == Prefix(w, n)
<1>1. /\ n \in 0 .. Depth /\ Depth \in Nat /\ l \in 1 .. Depth /\ n \in Nat
  BY TreeAssumption
<1>2. p \in Seq(Digits) /\ Len(p) = n /\ q \in Seq(Digits) /\ w[l] \in Digits
  BY <1>1, PrefixFacts
<1>3. Len(Prefix(w, o)) = o
  BY PrefixFacts
<1> HIDE DEF l
<1>4. Len(Append(p, d)) = Len(p) + 1
  <2> HIDE DEF p
  <2> QED BY <1>2, AppendProperties
<1>5. o = l
  BY <1>2, <1>3, <1>4 DEF l
<1>6. Append(q, w[l]) = Prefix(w, l)
  BY LongerPath DEF l
<1>7. Append(p, d) = Append(q, w[l])
  BY <1>5, <1>6
<1>8. p = q /\ d = w[l]
  <2> HIDE DEF p, q
  <2> QED BY <1>2, <1>7, AppendEqual
<1> QED BY <1>5, <1>8 DEF l

LEMMA OwnChild ==
  ASSUME NEW v \in [1 .. Depth -> Digits], NEW h, h \in 0 .. Depth - 1, NEW l, l = h + 1,
         NEW o, o \in 0 .. Depth, NEW d \in Digits, Append(Prefix(v, h), d) = Prefix(v, o)
  PROVE  o = l /\ v[l] = d
<1>1. o = h + 1 /\ v[o] = d
  BY ChildPath
<1> QED BY <1>1

------------------------------------------------------------------------------
(* The loop of remove *)

Start(N) == [left |-> N, done |-> FALSE]

(* The rounds are what their definition says: a function that satisfies the *)
(* recursion exists.                                                        *)
LEMMA RoundsFacts ==
  ASSUME NEW N, NEW v
  PROVE  /\ Rounds(N, v)[Depth - 2] = Start(N)
         /\ \A i \in -1 .. Depth - 3 : Rounds(N, v)[i] = Round(Rounds(N, v)[i + 1], v, i + 1)
<1> DEFINE Goes(g, from) ==
             g = [i \in from .. Depth - 2 |->
                    IF i = Depth - 2 THEN Start(N) ELSE Round(g[i + 1], v, i + 1)]
           Bad == {n \in 0 .. Depth - 1 : ~ \E g : Goes(g, Depth - 2 - n)}
<1>1. Depth \in Nat /\ Depth >= 2
  BY TreeAssumption
<1>2. Bad = {}
  <2> SUFFICES ASSUME Bad # {} PROVE FALSE
    OBVIOUS
  <2>1. Bad \in SUBSET Nat
    BY <1>1
  <2>2. PICK n \in Bad : \A m \in Bad : n <= m
    <3> HIDE DEF Bad
    <3> QED BY <2>1, SmallestNat
  <2>3. n \in 0 .. Depth - 1 /\ ~ \E g : Goes(g, Depth - 2 - n)
    OBVIOUS
  <2>4. CASE n = 0
    <3> DEFINE g == [i \in Depth - 2 .. Depth - 2 |-> Start(N)]
    <3>1. \A i \in Depth - 2 .. Depth - 2 : i = Depth - 2
      BY <1>1
    <3>2. Goes(g, Depth - 2)
      BY <3>1
    <3>3. Depth - 2 - n = Depth - 2
      BY <1>1, <2>4
    <3> QED BY <2>3, <3>2, <3>3
  <2>5. CASE n # 0
    <3> DEFINE from == Depth - 2 - n
    <3>1. /\ n - 1 \in 0 .. Depth - 1 /\ n - 1 < n /\ Depth - 2 - (n - 1) = from + 1
          /\ from \in Int /\ from < Depth - 2
      BY <1>1, <2>3, <2>5
    <3>2. n - 1 \notin Bad
      BY <2>2, <3>1
    <3>3. PICK g : Goes(g, from + 1)
      BY <3>1, <3>2
    <3> DEFINE h == [i \in from .. Depth - 2 |->
                       IF i = from THEN Round(g[i + 1], v, i + 1) ELSE g[i]]
    <3>4. g = [i \in from + 1 .. Depth - 2 |->
                 IF i = Depth - 2 THEN Start(N) ELSE Round(g[i + 1], v, i + 1)]
      BY <3>3
    <3> HIDE DEF from
    <3>5. \A i \in from .. Depth - 2 : i = from \/ i \in from + 1 .. Depth - 2
      BY <1>1, <3>1
    <3>6. \A i \in from .. Depth - 2 : i # Depth - 2 =>
            i + 1 \in from .. Depth - 2 /\ i + 1 # from
      BY <1>1, <3>1
    <3>7. \A i \in from .. Depth - 2 :
            h[i] = IF i = Depth - 2 THEN Start(N) ELSE Round(h[i + 1], v, i + 1)
      BY <1>1, <3>1, <3>4, <3>5, <3>6
    <3>8. Goes(h, from)
      BY <3>7
    <3> QED BY <2>3, <3>8 DEF from
  <2> QED BY <2>4, <2>5
<1>3. PICK g : Goes(g, -1)
  <2>1. Depth - 1 \in 0 .. Depth - 1 /\ Depth - 2 - (Depth - 1) = -1
    BY <1>1
  <2>2. Depth - 1 \notin Bad
    BY <1>2
  <2> QED BY <2>1, <2>2
<1>4. Goes(Rounds(N, v), -1)
  BY <1>3 DEF Rounds, Start
<1>5. /\ Depth - 2 \in -1 .. Depth - 2
      /\ \A i \in -1 .. Depth - 3 : i \in -1 .. Depth - 2 /\ i # Depth - 2
  BY <1>1
<1> DEFINE r == Rounds(N, v)
<1>6. r = [i \in -1 .. Depth - 2 |->
             IF i = Depth - 2 THEN Start(N) ELSE Round(r[i + 1], v, i + 1)]
  BY <1>4
<1> HIDE DEF r
<1>7. /\ r[Depth - 2] = Start(N)
      /\ \A i \in -1 .. Depth - 3 : r[i] = Round(r[i + 1], v, i + 1)
  BY <1>5, <1>6
<1> QED BY <1>7 DEF r

(* What a round leaves: the path of v is gone from length m on, nothing     *)
(* hung on the nodes gone but the next one, and the node before them, if    *)
(* the loop has looked at it, has a child.                                  *)
OnlyPath(N, v, j) == \A d \in Digits : Append(Prefix(v, j), d) \in N => d = v[j + 1]
HasChild(N, v, j) == \E d \in Digits : Append(Prefix(v, j), d) \in N
Gone(v, m)        == {Prefix(v, j) : j \in m .. Depth - 1}
Cut(N, v, i, at, m) ==
  /\ at.left = N \ Gone(v, m)
  /\ \A j \in m .. Depth - 1 : OnlyPath(N, v, j)
  /\ m > i + 2 => HasChild(at.left, v, m - 1)
  /\ at.done => m > i + 2

LEMMA ChildrenFacts ==
  ASSUME NEW L, NEW v, NEW i
  PROVE  /\ Emptied(L, v, i) <=> ~HasChild(L, v, i + 1)
         /\ Stops(L, v, i) => HasChild(L, v, i + 1)
BY DEF Emptied, Stops, HasChild, Children, Digits

LEMMA RoundCuts ==
  ASSUME NEW v \in [1 .. Depth -> Digits], NEW N,
         \A j \in 1 .. Depth - 1 : Prefix(v, j) \in N,
         NEW i \in -1 .. Depth - 3, NEW m \in i + 3 .. Depth,
         NEW at \in [left: SUBSET N, done: BOOLEAN], Cut(N, v, i + 1, at, m)
  PROVE  /\ Round(at, v, i + 1) \in [left: SUBSET N, done: BOOLEAN]
         /\ \E n \in i + 2 .. Depth : Cut(N, v, i, Round(at, v, i + 1), n)
<1> DEFINE after == Round(at, v, i + 1)
<1>1. /\ Depth \in Nat /\ Depth >= 2 /\ i \in Int /\ m \in Int
      /\ i + 1 + 2 = i + 3 /\ i + 1 + 1 = i + 2
  BY TreeAssumption
<1>2. /\ at.left = N \ Gone(v, m)
      /\ \A j \in m .. Depth - 1 : OnlyPath(N, v, j)
      /\ m > i + 3 => HasChild(at.left, v, m - 1)
      /\ at.done => m > i + 3
  BY <1>1 DEF Cut
<1>3. m \in i + 2 .. Depth /\ (m = i + 3 => m - 1 = i + 2) /\ m >= i + 3 /\ m > i + 2
  BY <1>1
<1> HIDE DEF after
<1>4. CASE at.done \/ Stops(at.left, v, i + 1)
  <2>1. after = [at EXCEPT !.done = TRUE]
    BY <1>4 DEF after, Round
  <2>2. after \in [left: SUBSET N, done: BOOLEAN] /\ after.left = at.left
    BY <2>1
  <2>3. HasChild(at.left, v, m - 1)
    <3>1. CASE m > i + 3
      BY <1>2, <3>1
    <3>2. CASE m = i + 3
      BY <1>1, <1>2, <1>3, <1>4, <3>2, ChildrenFacts
    <3> QED BY <1>1, <1>3, <3>1, <3>2
  <2>4. Cut(N, v, i, after, m)
    BY <1>1, <1>2, <1>3, <2>2, <2>3 DEF Cut
  <2> QED BY <1>3, <2>2, <2>4 DEF after
<1>5. CASE ~(at.done \/ Stops(at.left, v, i + 1)) /\ Emptied(at.left, v, i + 1)
  <2>1. after = [at EXCEPT !.left = @ \ {Prefix(v, i + 2)}]
    BY <1>1, <1>5 DEF after, Round
  <2>2. /\ after \in [left: SUBSET N, done: BOOLEAN]
        /\ after.left = at.left \ {Prefix(v, i + 2)} /\ after.done = at.done
    BY <2>1
  <2>3. \A d \in Digits : Append(Prefix(v, i + 2), d) \notin at.left
    BY <1>1, <1>5, ChildrenFacts DEF HasChild
  <2>4. i + 2 \in 0 .. Depth - 1 /\ i + 3 \in 1 .. Depth /\ i + 3 \in 0 .. Depth /\ i + 3 = i + 2 + 1
    BY <1>1
  <2> DEFINE h == i + 2
             l == i + 3
  <2>5. h \in 0 .. Depth - 1 /\ l \in 0 .. Depth /\ l = h + 1 /\ v \in [1 .. Depth -> Digits]
    BY <2>4
  <2>6. \A o \in 0 .. Depth : \A d \in Digits :
           Append(Prefix(v, i + 2), d) = Prefix(v, o) => o = i + 3 /\ v[i + 3] = d
    <3> HIDE DEF h, l
    <3>1. \A o \in 0 .. Depth : \A d \in Digits :
            Append(Prefix(v, h), d) = Prefix(v, o) => o = l /\ v[l] = d
      <4> SUFFICES ASSUME NEW o \in 0 .. Depth, NEW d \in Digits,
                          Append(Prefix(v, h), d) = Prefix(v, o)
                   PROVE  o = l /\ v[l] = d
        OBVIOUS
      <4> QED BY <2>5, OwnChild
    <3> QED BY <3>1 DEF h, l
  <2>7. v[i + 3] \in Digits
    BY <2>4
  <2>8. Append(Prefix(v, i + 2), v[i + 3]) = Prefix(v, i + 3)
    <3> HIDE DEF h, l
    <3>1. Append(Prefix(v, h), v[l]) = Prefix(v, l)
      BY <2>5, LongerPath
    <3> QED BY <3>1 DEF h, l
  <2>9. m = i + 3
    <3> SUFFICES ASSUME m > i + 3 PROVE FALSE
      BY <1>1, <1>3
    <3>1. i + 3 \in 1 .. Depth - 1
      BY <1>1, <2>4
    <3>2. Prefix(v, i + 3) \in N
      BY <3>1
    <3>3. Prefix(v, i + 3) \notin Gone(v, m)
      <4> SUFFICES ASSUME NEW j \in m .. Depth - 1, Prefix(v, i + 3) = Prefix(v, j)
                   PROVE  FALSE
        BY DEF Gone
      <4>1. j \in 0 .. Depth
        BY <1>1, <1>3, <2>4
      <4>2. j = i + 3
        BY <2>4, <4>1, PrefixEqual
      <4> QED BY <1>1, <4>2
    <3> QED BY <1>2, <2>3, <2>7, <2>8, <3>2, <3>3
  <2>10. Gone(v, i + 2) = Gone(v, m) \cup {Prefix(v, i + 2)}
    <3>1. \A j : j \in i + 2 .. Depth - 1 <=> j = i + 2 \/ j \in m .. Depth - 1
      BY <1>1, <2>4, <2>9
    <3> QED BY <3>1 DEF Gone
  <2>11. OnlyPath(N, v, i + 2)
    <3> SUFFICES ASSUME NEW d \in Digits, Append(Prefix(v, i + 2), d) \in N
                 PROVE  d = v[i + 3]
      BY <2>4 DEF OnlyPath
    <3>1. Append(Prefix(v, i + 2), d) \in Gone(v, m)
      BY <1>2, <2>3
    <3>2. PICK j \in m .. Depth - 1 : Append(Prefix(v, i + 2), d) = Prefix(v, j)
      BY <3>1 DEF Gone
    <3>3. j \in 0 .. Depth
      BY <1>1, <1>3, <2>4
    <3> QED BY <2>6, <3>2, <3>3
  <2>12. Cut(N, v, i, after, i + 2)
    <3>1. \A j \in i + 2 .. Depth - 1 : j = i + 2 \/ j \in m .. Depth - 1
      BY <1>1, <2>9
    <3>2. \A j \in i + 2 .. Depth - 1 : OnlyPath(N, v, j)
      BY <1>2, <2>11, <3>1
    <3>3. after.left = N \ Gone(v, i + 2)
      BY <1>2, <2>2, <2>10
    <3>4. ~after.done /\ ~(i + 2 > i + 2)
      BY <1>1, <1>5, <2>2
    <3> QED BY <3>2, <3>3, <3>4 DEF Cut
  <2> QED BY <1>1, <2>2, <2>4, <2>12 DEF after
<1>6. CASE ~(at.done \/ Stops(at.left, v, i + 1)) /\ ~Emptied(at.left, v, i + 1)
  <2>1. after = at
    BY <1>6 DEF after, Round
  <2>2. HasChild(at.left, v, m - 1)
    <3>1. CASE m > i + 3
      BY <1>2, <3>1
    <3>2. CASE m = i + 3
      BY <1>1, <1>3, <1>6, <3>2, ChildrenFacts
    <3> QED BY <1>1, <1>3, <3>1, <3>2
  <2>3. Cut(N, v, i, after, m)
    BY <1>1, <1>2, <1>3, <1>6, <2>1, <2>2 DEF Cut
  <2> QED BY <1>3, <2>1, <2>3 DEF after
<1> QED BY <1>4, <1>5, <1>6

(* What is left when the loop has ended.                                    *)
LEMMA CleanedFacts ==
  ASSUME NEW v \in [1 .. Depth -> Digits], NEW N, \A j \in 1 .. Depth - 1 : Prefix(v, j) \in N
  PROVE  \E m \in 1 .. Depth :
           /\ CleanedUp(N, v) = N \ Gone(v, m)
           /\ \A j \in m .. Depth - 1 : OnlyPath(N, v, j)
           /\ m > 1 => HasChild(CleanedUp(N, v), v, m - 1)
<1> DEFINE r     == Rounds(N, v)
           Ats   == [left: SUBSET N, done: BOOLEAN]
           Is(i) == r[i] \in Ats /\ \E m \in i + 2 .. Depth : Cut(N, v, i, r[i], m)
           Bad   == {n \in 0 .. Depth - 1 : ~Is(Depth - 2 - n)}
<1>1. Depth \in Nat /\ Depth >= 2
  BY TreeAssumption
<1>2. /\ r[Depth - 2] = Start(N)
      /\ \A i \in -1 .. Depth - 3 : r[i] = Round(r[i + 1], v, i + 1)
  BY RoundsFacts
<1> HIDE DEF r
<1>3. Is(Depth - 2)
  <2> DEFINE i == Depth - 2
  <2>1. i + 2 = Depth /\ Depth \in i + 2 .. Depth /\ ~(Depth > i + 2) /\ Depth .. Depth - 1 = {}
    BY <1>1
  <2>2. Gone(v, Depth) = {}
    BY <2>1 DEF Gone
  <2>3. Start(N) \in Ats /\ Start(N).left = N /\ ~Start(N).done
    BY DEF Start
  <2>4. Cut(N, v, i, Start(N), Depth)
    <3> HIDE DEF i
    <3> QED BY <2>1, <2>2, <2>3 DEF Cut
  <2> HIDE DEF i, Ats
  <2>5. \E m \in i + 2 .. Depth : Cut(N, v, i, Start(N), m)
    BY <2>1, <2>4
  <2> QED BY <1>2, <2>3, <2>5 DEF i
<1>4. \A i \in -1 .. Depth - 3 : Is(i + 1) => Is(i)
  <2> SUFFICES ASSUME NEW i \in -1 .. Depth - 3, Is(i + 1)
               PROVE  Is(i)
    OBVIOUS
  <2>1. i + 1 + 2 = i + 3
    OBVIOUS
  <2>2. PICK m \in i + 3 .. Depth : Cut(N, v, i + 1, r[i + 1], m)
    BY <2>1
  <2>3. r[i + 1] \in Ats
    OBVIOUS
  <2> DEFINE after == Round(r[i + 1], v, i + 1)
  <2>4. after \in Ats /\ \E n \in i + 2 .. Depth : Cut(N, v, i, after, n)
    BY <2>2, <2>3, RoundCuts
  <2>5. r[i] = after
    BY <1>2
  <2> QED BY <2>4, <2>5
<1>5. Bad = {}
  <2> SUFFICES ASSUME Bad # {} PROVE FALSE
    OBVIOUS
  <2>1. Bad \in SUBSET Nat
    BY <1>1
  <2>2. PICK n \in Bad : \A m \in Bad : n <= m
    <3> HIDE DEF Bad
    <3> QED BY <2>1, SmallestNat
  <2> HIDE DEF Is
  <2>3. n \in 0 .. Depth - 1 /\ ~Is(Depth - 2 - n)
    OBVIOUS
  <2>4. n # 0
    <3>1. n = 0 => Depth - 2 - n = Depth - 2
      BY <1>1
    <3> QED BY <1>3, <2>3, <3>1
  <2>5. /\ n - 1 \in 0 .. Depth - 1 /\ n - 1 < n /\ Depth - 2 - n \in -1 .. Depth - 3
        /\ Depth - 2 - (n - 1) = Depth - 2 - n + 1
    BY <1>1, <2>3, <2>4
  <2>6. Is(Depth - 2 - (n - 1))
    BY <2>2, <2>5
  <2> QED BY <1>4, <2>3, <2>5, <2>6
<1>6. Is(-1)
  <2> HIDE DEF Is
  <2>1. Depth - 1 \in 0 .. Depth - 1 /\ Depth - 2 - (Depth - 1) = -1
    BY <1>1
  <2>2. Is(Depth - 2 - (Depth - 1))
    BY <1>5, <2>1
  <2> QED BY <2>1, <2>2
<1>7. PICK m \in 1 .. Depth : Cut(N, v, -1, r[-1], m)
  BY <1>6
<1>8. CleanedUp(N, v) = r[-1].left
  BY DEF CleanedUp, r
<1> QED BY <1>7, <1>8 DEF Cut

------------------------------------------------------------------------------
(* The nodes of a set of values *)

Tree(S) == {<<>>} \cup Paths(S)

LEMMA ValuesFacts ==
  /\ Depth \in Nat /\ Depth >= 2 /\ Depth \in 1 .. Depth /\ 1 .. Depth \subseteq 0 .. Depth
  /\ \A v \in Values : v \in [1 .. Depth -> Digits] /\ Prefix(v, Depth) = v
<1>1. \A v \in Values : v \in [1 .. Depth -> Digits]
  BY TreeAssumption DEF Digits
<1>2. \A v \in Values : Prefix(v, Depth) = v
  BY <1>1, WholePath
<1> QED BY <1>1, <1>2, TreeAssumption

LEMMA PathInTree ==
  ASSUME NEW S \in SUBSET Values, NEW p \in Tree(S)
  PROVE  p = <<>> \/ \E w \in S, n \in 1 .. Depth : p = Prefix(w, n)
BY DEF Tree, Paths

LEMMA TreeHasPath ==
  ASSUME NEW S \in SUBSET Values, NEW w \in S, NEW n \in 1 .. Depth
  PROVE  Prefix(w, n) \in Tree(S)
BY DEF Tree, Paths

(* A value is found in the tree of a set only if it is one of the set.      *)
LEMMA TreeFinds ==
  ASSUME NEW S \in SUBSET Values, NEW v \in Values
  PROVE  v \in Tree(S) <=> v \in S
<1>1. /\ Depth \in Nat /\ Depth >= 2 /\ Depth \in 1 .. Depth /\ 1 .. Depth \subseteq 0 .. Depth
      /\ v \in [1 .. Depth -> Digits] /\ Prefix(v, Depth) = v
      /\ \A w \in S : w \in [1 .. Depth -> Digits] /\ Prefix(w, Depth) = w
  BY ValuesFacts
<1>2. v \in S => v \in Tree(S)
  BY <1>1, TreeHasPath
<1>3. ASSUME v \in Tree(S)
      PROVE  v \in S
  <2>1. v # <<>>
    BY <1>1, EmptyPath
  <2>2. PICK w \in S, n \in 1 .. Depth : v = Prefix(w, n)
    BY <1>3, <2>1, PathInTree
  <2>3. Depth = n
    <3> DEFINE o == Depth
    <3>1. Prefix(v, o) = Prefix(w, n) /\ o \in 0 .. Depth /\ n \in 0 .. Depth
      BY <1>1, <2>2
    <3>2. w \in [1 .. Depth -> Digits]
      BY <1>1
    <3> HIDE DEF o
    <3>3. o = n
      BY <1>1, <3>1, <3>2, PrefixEqual
    <3> QED BY <3>3 DEF o
  <2> QED BY <1>1, <2>2, <2>3
<1> QED BY <1>2, <1>3

LEMMA TreeGrows ==
  ASSUME NEW S \in SUBSET Values, NEW v \in Values
  PROVE  Tree(S \cup {v}) = Tree(S) \cup {Prefix(v, n) : n \in 1 .. Depth}
BY DEF Tree, Paths

LEMMA TreeOfNone ==
  ASSUME NEW S \in SUBSET Values
  PROVE  Tree(S) = {<<>>} <=> S = {}
<1>1. S = {} => Tree(S) = {<<>>}
  BY DEF Tree, Paths
<1>2. ASSUME NEW v \in S
      PROVE  Tree(S) # {<<>>}
  <2>1. v \in Values /\ Depth \in 0 .. Depth /\ Depth # 0 /\ v \in [1 .. Depth -> Digits]
    BY ValuesFacts
  <2>2. v # <<>>
    BY <2>1, EmptyPath, WholePath
  <2>3. v \in Tree(S)
    BY <2>1, TreeFinds
  <2> QED BY <2>2, <2>3
<1> QED BY <1>1, <1>2

(* The first digit two values differ in.                                    *)
LEMMA FirstDifference ==
  ASSUME NEW v \in [1 .. Depth -> Digits], NEW w \in [1 .. Depth -> Digits], v # w
  PROVE  \E e \in 1 .. Depth : v[e] # w[e] /\ \A d \in 1 .. e - 1 : v[d] = w[d]
<1> DEFINE Differ == {d \in 1 .. Depth : v[d] # w[d]}
<1>1. Differ \in SUBSET Nat /\ Differ # {}
  BY TreeAssumption
<1>2. PICK e \in Differ : \A d \in Differ : e <= d
  <2> HIDE DEF Differ
  <2> QED BY <1>1, SmallestNat
<1>3. \A d \in 1 .. e - 1 : d \in 1 .. Depth /\ ~(e <= d)
  BY <1>2, TreeAssumption
<1>4. \A d \in 1 .. e - 1 : v[d] = w[d]
  BY <1>2, <1>3
<1> QED BY <1>2, <1>4

(* The child of a node of the path of v, where it is a node of the tree,    *)
(* lies on the path of a value that agrees with v down to the node.         *)
LEMMA ChildInTree ==
  ASSUME NEW S \in SUBSET Values, NEW v \in [1 .. Depth -> Digits],
         NEW h \in 0 .. Depth - 1, NEW m, m = h + 1, NEW d \in Digits,
         Append(Prefix(v, h), d) \in Tree(S)
  PROVE  \E u \in S : /\ Prefix(u, h) = Prefix(v, h)
                       /\ Append(Prefix(v, h), d) = Prefix(u, m)
<1> DEFINE q == Prefix(v, h)
<1>1. h \in 0 .. Depth /\ 1 .. Depth \subseteq 0 .. Depth
  BY ValuesFacts
<1>2. q \in Seq(Digits)
  BY <1>1, PrefixFacts
<1>3. Append(q, d) # <<>>
  <2> HIDE DEF q
  <2> QED BY <1>2, AppendProperties
<1>4. PICK u \in S, k \in 1 .. Depth : Append(q, d) = Prefix(u, k)
  BY <1>3, PathInTree
<1>5. k \in 0 .. Depth /\ u \in [1 .. Depth -> Digits]
  BY <1>1, ValuesFacts
<1>6. k = h + 1 /\ Prefix(u, h) = Prefix(v, h)
  BY <1>4, <1>5, ChildPath
<1> QED BY <1>4, <1>6

(* Removing a value that is found leaves the tree of the others.            *)
LEMMA TreeShrinks ==
  ASSUME NEW S \in SUBSET Values, NEW v \in S
  PROVE  CleanedUp(Tree(S) \ {v}, v) = Tree(S \ {v})
<1> DEFINE N == Tree(S) \ {v}
           C == CleanedUp(N, v)
<1>1. /\ Depth \in Nat /\ Depth >= 2 /\ Depth \in 1 .. Depth /\ Depth \in 0 .. Depth
      /\ v \in Values /\ v \in [1 .. Depth -> Digits] /\ Prefix(v, Depth) = v
      /\ \A w \in S : w \in [1 .. Depth -> Digits] /\ Prefix(w, Depth) = w
      /\ S \ {v} \in SUBSET Values
  BY ValuesFacts
<1>2. \A w \in S : \A n \in 1 .. Depth : Prefix(w, n) = v <=> n = Depth /\ w = v
  <2> SUFFICES ASSUME NEW w \in S, NEW n \in 1 .. Depth, Prefix(w, n) = v
               PROVE  n = Depth /\ w = v
    BY <1>1
  <2> DEFINE o == Depth
  <2>1. Prefix(v, o) = Prefix(w, n) /\ o \in 0 .. Depth /\ n \in 0 .. Depth
    BY <1>1
  <2> HIDE DEF o
  <2>2. o = n
    BY <1>1, <2>1, PrefixEqual
  <2> QED BY <1>1, <2>2 DEF o
<1>3. \A j \in 1 .. Depth - 1 : Prefix(v, j) \in N
  <2> SUFFICES ASSUME NEW j \in 1 .. Depth - 1
               PROVE  Prefix(v, j) \in N
    OBVIOUS
  <2>1. j \in 1 .. Depth /\ j # Depth
    BY <1>1
  <2> QED BY <1>2, <2>1, TreeHasPath
<1> HIDE DEF N
<1>4. PICK m \in 1 .. Depth : /\ C = N \ Gone(v, m)
                              /\ \A j \in m .. Depth - 1 : OnlyPath(N, v, j)
                              /\ m > 1 => HasChild(C, v, m - 1)
  BY <1>1, <1>3, CleanedFacts
<1> HIDE DEF C
<1>5. ASSUME NEW p \in Tree(S \ {v})
      PROVE  p \in C
  <2>1. CASE p = <<>>
    <3>1. p \in Tree(S)
      BY <2>1 DEF Tree
    <3>2. p # v
      BY <1>1, <2>1, EmptyPath
    <3>3. ASSUME NEW j \in m .. Depth - 1
          PROVE  Prefix(v, j) # p
      <4>1. j \in 0 .. Depth /\ j # 0
        BY <1>1
      <4>2. Prefix(v, j) # <<>>
        BY <1>1, <4>1, EmptyPath
      <4> QED BY <2>1, <4>2
    <3> QED BY <1>4, <3>1, <3>2, <3>3 DEF N, Gone
  <2>2. CASE p # <<>>
    <3>1. PICK w \in S \ {v}, o \in 1 .. Depth : p = Prefix(w, o)
      BY <1>1, <2>2, PathInTree
    <3>2. p \in N
      BY <1>2, <3>1, TreeHasPath DEF N
    <3>3. ASSUME NEW j \in m .. Depth - 1, Prefix(v, j) = p
          PROVE  FALSE
      <4>1. j \in 0 .. Depth /\ o \in 0 .. Depth /\ j \in Nat
        BY <1>1
      <4>2. o = j /\ \A d \in 1 .. j : v[d] = w[d]
        <5>1. Prefix(v, j) = Prefix(w, o) /\ w \in [1 .. Depth -> Digits]
          BY <1>1, <3>1, <3>3
        <5>2. j = o /\ \A d \in 1 .. j : v[d] = w[d]
          BY <1>1, <4>1, <5>1, PrefixEqual
        <5> QED BY <5>2
      <4>3. PICK e \in 1 .. Depth : v[e] # w[e] /\ \A d \in 1 .. e - 1 : v[d] = w[d]
        BY <1>1, FirstDifference
      <4> DEFINE h == e - 1
      <4>4. ~(e <= j) /\ h \in 0 .. Depth - 1 /\ e = h + 1
        BY <1>1, <4>1, <4>2, <4>3
      <4>5. h \in m .. Depth - 1 /\ h \in 0 .. Depth
        BY <1>1, <4>1, <4>4
      <4>6. \A d \in 1 .. h : v[d] = w[d]
        BY <4>3
      <4> HIDE DEF h
      <4>7. Prefix(v, h) = Prefix(w, h)
        BY <1>1, <4>5, <4>6, PrefixEqual
      <4>8. Append(Prefix(w, h), w[e]) = Prefix(w, e)
        BY <1>1, <4>4, LongerPath
      <4>9. Prefix(w, e) \in N
        BY <1>2, TreeHasPath DEF N
      <4>10. w[e] \in Digits
        BY <1>1
      <4>11. w[e] = v[h + 1]
        BY <1>4, <4>5, <4>7, <4>8, <4>9, <4>10 DEF OnlyPath
      <4> QED BY <4>3, <4>4, <4>11
    <3> QED BY <1>4, <3>2, <3>3 DEF Gone
  <2> QED BY <2>1, <2>2
<1>6. ASSUME NEW p \in C
      PROVE  p \in Tree(S \ {v})
  <2>1. p \in Tree(S) /\ p # v /\ p \notin Gone(v, m)
    BY <1>4 DEF N
  <2>2. CASE p = <<>>
    BY <2>2 DEF Tree
  <2>3. CASE p # <<>>
    <3>1. PICK w \in S, o \in 1 .. Depth : p = Prefix(w, o)
      BY <2>1, <2>3, PathInTree
    <3>2. CASE w # v
      BY <1>1, <3>1, <3>2, TreeHasPath
    <3>3. CASE w = v
      <4>1. o # Depth /\ o \notin m .. Depth - 1
        BY <1>1, <2>1, <3>1, <3>3 DEF Gone
      <4> DEFINE h == m - 1
      <4>2. m > 1 /\ o <= h /\ h \in 0 .. Depth - 1 /\ m = h + 1 /\ m \in 0 .. Depth /\ o \in Nat
        BY <1>1, <4>1
      <4>3. HasChild(C, v, h)
        BY <1>4, <4>2
      <4> HIDE DEF h
      <4>4. PICK d \in Digits : Append(Prefix(v, h), d) \in C
        BY <4>3 DEF HasChild
      <4>5. Append(Prefix(v, h), d) \in Tree(S)
        BY <1>4, <4>4 DEF N
      <4>6. PICK u \in S : /\ Prefix(u, h) = Prefix(v, h)
                           /\ Append(Prefix(v, h), d) = Prefix(u, m)
        BY <1>1, <4>2, <4>5, ChildInTree
      <4>7. u # v
        <5> SUFFICES ASSUME u = v PROVE FALSE
          OBVIOUS
        <5>1. Prefix(v, m) \in C
          BY <4>4, <4>6
        <5>2. m # Depth
          BY <1>1, <1>4, <5>1 DEF N
        <5>3. m \in m .. Depth - 1
          BY <1>1, <5>2
        <5> QED BY <1>4, <5>1, <5>3 DEF Gone
      <4>8. Prefix(u, o) = Prefix(v, o)
        <5>1. h \in 0 .. Depth /\ o \in 0 .. Depth /\ h \in Nat
          BY <1>1, <4>2
        <5>2. \A e \in 1 .. h : u[e] = v[e]
          BY <1>1, <4>6, <5>1, PrefixEqual
        <5>3. \A e \in 1 .. o : u[e] = v[e]
          BY <4>2, <5>1, <5>2
        <5> QED BY <1>1, <5>1, <5>3, PrefixEqual
      <4> QED BY <1>1, <3>1, <3>3, <4>7, <4>8, TreeHasPath
    <3> QED BY <3>2, <3>3
  <2> QED BY <2>2, <2>3
<1> QED BY <1>5, <1>6 DEF C, N

------------------------------------------------------------------------------
(* The tree is the tree of the values found in it *)

Counted  == IsFiniteSet(nodes) /\ _size = Cardinality(nodes)
OfFound  == nodes = Tree(Found)
RadixInv == Counted /\ OfFound

LEMMA FoundFacts ==
  /\ Found \in SUBSET Values
  /\ \A v \in Values : v \in Found <=> v \in nodes
BY DEF Found, RadixFind

(* The height tells an empty tree.                                          *)
LEMMA InvTight ==
  RadixInv => RadixIsTight
<1> SUFFICES ASSUME RadixInv PROVE RadixIsTight
  OBVIOUS
<1>1. nodes = {<<>>} \cup {Prefix(v, n) : v \in {w \in Values : RadixFind(w)}, n \in 1 .. Depth}
  BY DEF RadixInv, OfFound, Tree, Paths, Found
<1>2. height = 1 <=> _size = 1
  BY ValuesFacts DEF height
<1>3. _size = 1 <=> \E x : nodes = {x}
  BY FS_Singleton DEF RadixInv, Counted
<1>4. <<>> \in nodes
  BY DEF RadixInv, OfFound, Tree
<1>5. (\E x : nodes = {x}) <=> nodes = {<<>>}
  BY <1>4
<1>6. nodes = {<<>>} <=> Found = {}
  BY FoundFacts, TreeOfNone DEF RadixInv, OfFound
<1>7. Found = {} <=> ~ \E v \in Values : RadixFind(v)
  BY DEF Found
<1>8. height = 1 <=> ~ \E v \in Values : RadixFind(v)
  BY <1>2, <1>3, <1>5, <1>6, <1>7
<1> QED BY <1>1, <1>8 DEF RadixIsTight, RadixInv, Counted

(* A step to the tree of another set of values.                             *)
LEMMA StepTo ==
  ASSUME NEW S \in SUBSET Values, nodes' = Tree(S)
  PROVE  Found' = S /\ OfFound'
<1>1. \A v \in Values : v \in nodes' <=> v \in S
  BY TreeFinds
<1>2. Found' = S
  BY <1>1 DEF Found, RadixFind
<1>3. OfFound' <=> nodes' = Tree(Found')
  BY DEF OfFound, Tree, Paths, Prefix
<1> QED BY <1>2, <1>3

LEMMA InitHolds ==
  RadixInit => RadixInv /\ Found = {}
<1> SUFFICES ASSUME RadixInit PROVE RadixInv /\ Found = {}
  OBVIOUS
<1>1. nodes = {<<>>} /\ _size = 1
  BY DEF RadixInit
<1>2. Counted
  BY <1>1, FS_Singleton DEF Counted
<1>3. nodes = Tree({})
  BY <1>1, TreeOfNone
<1>4. \A v \in Values : v \notin nodes
  BY <1>3, TreeFinds
<1>5. Found = {}
  BY <1>4, FoundFacts
<1> QED BY <1>2, <1>3, <1>5 DEF RadixInv, OfFound

LEMMA InsertStep ==
  ASSUME RadixInv, NEW v \in Values, RadixInsert(v)
  PROVE  RadixInv' /\ Found' = Found \cup {v}
<1> DEFINE P == {Prefix(v, n) : n \in 1 .. Depth}
<1>1. /\ nodes' = nodes \cup P
      /\ _size' = _size + Cardinality(nodes' \ nodes)
  BY DEF RadixInsert
<1>2. nodes' = Tree(Found \cup {v})
  BY <1>1, FoundFacts, TreeGrows DEF RadixInv, OfFound
<1>3. Found \cup {v} \in SUBSET Values
  BY FoundFacts
<1>4. Found' = Found \cup {v} /\ OfFound'
  BY <1>2, <1>3, StepTo
<1>5. IsFiniteSet(P)
  <2> DEFINE f == [n \in 1 .. Depth |-> Prefix(v, n)]
  <2>1. f \in Surjection(1 .. Depth, P)
    BY DEF Surjection
  <2>2. IsFiniteSet(1 .. Depth)
    BY ValuesFacts, FS_Interval
  <2> HIDE DEF f, P
  <2> QED BY <2>1, <2>2, FS_Surjection
<1> HIDE DEF P
<1> DEFINE new == nodes' \ nodes
           all == nodes'
<1>6. IsFiniteSet(all) /\ Cardinality(nodes) \in Nat
  BY <1>1, <1>5, FS_Union, FS_CardinalityType DEF RadixInv, Counted
<1>7. Cardinality(new) = Cardinality(all) - Cardinality(all \cap nodes)
  BY <1>6, FS_Difference
<1>8. all \cap nodes = nodes
  BY <1>1
<1>9. Cardinality(all) \in Nat
  BY <1>6, FS_CardinalityType
<1>10. _size' = Cardinality(nodes) + Cardinality(new)
  BY <1>1 DEF RadixInv, Counted
<1>11. _size' = Cardinality(all)
  <2> DEFINE a == Cardinality(nodes)
             b == Cardinality(all)
             c == Cardinality(new)
             s == _size'
  <2>1. a \in Nat /\ b \in Nat /\ c = b - a /\ s = a + c
    BY <1>6, <1>7, <1>8, <1>9, <1>10
  <2> HIDE DEF a, b, c, s
  <2>2. s = b
    BY <2>1
  <2> QED BY <2>2 DEF s, b
<1> QED BY <1>4, <1>6, <1>11 DEF RadixInv, Counted

(* AnyRemoval = FALSE: nothing is unlinked outside the root.                *)
LEMMA RemoveStep ==
  ASSUME RadixInv, AnyRemoval = FALSE, NEW v \in Values, RadixRemove(v)
  PROVE  RadixInv' /\ Found' = Found \ {v}
<1> DEFINE C == CleanedUp(nodes \ {v}, v)
<1>1. CASE RadixFind(v)
  <2>1. /\ nodes' = C
        /\ _size' = _size - Cardinality(nodes \ C)
    BY <1>1 DEF RadixRemove
  <2>2. v \in Found
    BY <1>1 DEF Found
  <2>3. C = Tree(Found \ {v})
    BY <2>2, FoundFacts, TreeShrinks DEF RadixInv, OfFound
  <2>4. Found \ {v} \in SUBSET Values
    BY FoundFacts
  <2>5. Found' = Found \ {v} /\ OfFound'
    BY <2>1, <2>3, <2>4, StepTo
  <2>6. C \subseteq nodes
    <3>1. Tree(Found \ {v}) \subseteq Tree(Found)
      BY DEF Tree, Paths
    <3> HIDE DEF C
    <3> QED BY <2>3, <3>1 DEF RadixInv, OfFound
  <2> HIDE DEF C
  <2>7. IsFiniteSet(C) /\ Cardinality(C) \in Nat /\ Cardinality(nodes) \in Nat
    BY <2>6, FS_Subset, FS_CardinalityType DEF RadixInv, Counted
  <2>8. Cardinality(nodes \ C) = Cardinality(nodes) - Cardinality(nodes \cap C)
    BY FS_Difference DEF RadixInv, Counted
  <2>9. nodes \cap C = C
    BY <2>6
  <2>10. _size' = Cardinality(nodes) - Cardinality(nodes \ C)
    BY <2>1 DEF RadixInv, Counted
  <2>11. _size' = Cardinality(C)
    <3> DEFINE a == Cardinality(nodes)
               b == Cardinality(C)
               c == Cardinality(nodes \ C)
               s == _size'
    <3>1. a \in Nat /\ b \in Nat /\ c = a - b /\ s = a - c
      BY <2>7, <2>8, <2>9, <2>10
    <3> HIDE DEF a, b, c, s
    <3>2. s = b
      BY <3>1
    <3> QED BY <3>2 DEF s, b
  <2>12. Counted'
    BY <2>1, <2>7, <2>11 DEF Counted
  <2> QED BY <2>5, <2>12 DEF RadixInv
<1>2. CASE ~RadixFind(v)
  <2>1. nodes' = nodes /\ _size' = _size
    BY <1>2 DEF RadixRemove, radixVars
  <2>2. v \notin Found
    BY <1>2 DEF Found
  <2>3. Found \in SUBSET Values /\ nodes' = Tree(Found)
    BY <2>1, FoundFacts DEF RadixInv, OfFound
  <2>4. Found' = Found /\ OfFound'
    BY <2>3, StepTo
  <2> QED BY <2>1, <2>2, <2>4 DEF RadixInv, Counted
<1> QED BY <1>1, <1>2

LEMMA StutterStep ==
  ASSUME RadixInv, UNCHANGED radixVars
  PROVE  RadixInv' /\ Found' = Found
<1>1. nodes' = nodes /\ _size' = _size
  BY DEF radixVars
<1>2. Found \in SUBSET Values /\ nodes' = Tree(Found)
  BY <1>1, FoundFacts DEF RadixInv, OfFound
<1>3. Found' = Found /\ OfFound'
  BY <1>2, StepTo
<1> QED BY <1>1, <1>3 DEF RadixInv, Counted

LEMMA InvAlways ==
  ASSUME AnyRemoval = FALSE
  PROVE  RadixSpec => []RadixInv
<1>1. RadixInit => RadixInv
  BY InitHolds
<1>2. RadixInv /\ [RadixNext]_radixVars => RadixInv'
  <2> SUFFICES ASSUME RadixInv, [RadixNext]_radixVars
               PROVE  RadixInv'
    OBVIOUS
  <2>1. CASE RadixNext
    <3>1. PICK v \in Values : RadixInsert(v) \/ RadixRemove(v)
      BY <2>1 DEF RadixNext
    <3> QED BY <3>1, InsertStep, RemoveStep
  <2>2. CASE UNCHANGED radixVars
    BY <2>2, StutterStep
  <2> QED BY <2>1, <2>2
<1> QED BY <1>1, <1>2, PTL DEF RadixSpec

(* As long as no removal unlinks outside the root, the counted size is the  *)
(* number of nodes, every node lies on the path of a value found in the     *)
(* tree, and the height follows from the size (RadixTree::insert, remove).  *)
THEOREM RadixTight ==
  ASSUME AnyRemoval = FALSE
  PROVE  RadixSpec => []RadixIsTight
BY InvAlways, InvTight, PTL

(* As long as no removal unlinks outside the root, the tree is a set of     *)
(* values: inserting adds the one value, removing takes the one value away. *)
THEOREM RadixImplementsSet ==
  ASSUME AnyRemoval = FALSE
  PROVE  RadixSpec => RadixIsSet
<1>1. RadixInit => RadixSet!Init
  BY InitHolds DEF RadixSet!Init, Found
<1>2. RadixInv /\ [RadixNext]_radixVars => [RadixSet!Next]_Found
  <2> SUFFICES ASSUME RadixInv, [RadixNext]_radixVars
               PROVE  [RadixSet!Next]_Found
    OBVIOUS
  <2>1. CASE RadixNext
    <3>1. PICK v \in Values : RadixInsert(v) \/ RadixRemove(v)
      BY <2>1 DEF RadixNext
    <3>2. Found' = Found \cup {v} \/ Found' = Found \ {v}
      BY <3>1, InsertStep, RemoveStep
    <3>3. RadixSet!Insert(v) \/ RadixSet!Remove(v)
      BY <3>2 DEF RadixSet!Insert, RadixSet!Remove, Found
    <3> QED BY <3>3 DEF RadixSet!Next
  <2>2. CASE UNCHANGED radixVars
    BY <2>2, StutterStep
  <2> QED BY <2>1, <2>2
<1>3. RadixInv /\ [RadixNext]_radixVars => [RadixSet!Next]_{v \in Values : RadixFind(v)}
  BY <1>2 DEF Found
<1> QED BY <1>1, <1>3, InvAlways, PTL DEF RadixSpec, RadixIsSet, RadixSet!Spec

==============================================================================
