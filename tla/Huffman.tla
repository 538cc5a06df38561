-------------------------------- MODULE Huffman --------------------------------
(***************************************************************************)
(* The Huffman coder (Huffman-tree/hftree.cpp and utils.h).  A character is *)
(* its code, a string a sequence of characters.  The tree is built one      *)
(* merge at a time, because the priority queue leaves the order of equal    *)
(* nodes open; the rest are functions of the text and the tree.             *)
(***************************************************************************)
EXTENDS Integers, Sequences, FiniteSets, FiniteSetsExt, SequencesExt

CONSTANT Texts     \* the texts compressed: sequences of characters, not empty

ASSUME HuffmanAssumption == \A t \in Texts : t \in Seq(Nat) /\ t # <<>>

VARIABLES
  text,        \* the text
  multi,       \* Option::MultiChar
  pq           \* the priority queue of the nodes still to merge

huffmanVars == <<text, multi, pq>>

Newline == 10
Blank   == 32
Digit(bit) == 48 + bit

(* The order of the keys of a std::map: std::string compares its characters *)
(* as unsigned bytes, whatever the sign of char.                            *)
Before(s, t) ==
  \E n \in 0 .. Len(s) :
    /\ n < Len(t) /\ SubSeq(s, 1, n) = SubSeq(t, 1, n)
    /\ n < Len(s) => s[n + 1] < t[n + 1]

------------------------------------------------------------------------------
(* The pairs that get a code of their own (executeMultiChar) *)

PairAt(s, i) == SubSeq(s, i, i + 1)
Double(s, i) == s[i] = s[i + 1]

(* isCounted after the pair at i: of the overlapping pairs of a run of one  *)
(* letter every second is skipped.                                          *)
isCounted(s) ==
  LET flag[i \in 0 .. Len(s) - 1] == i > 0 /\ Double(s, i) /\ ~flag[i - 1] IN flag

Counted(s, i) == ~(Double(s, i) /\ isCounted(s)[i - 1])

PairCount(s, p) ==
  Cardinality({i \in 1 .. Len(s) - 1 : PairAt(s, i) = p /\ Counted(s, i)})

(* The three most frequent pairs; of equally frequent ones the first. *)
executeMultiChar(s) ==
  LET pairs == {PairAt(s, i) : i \in 1 .. Len(s) - 1}
      Beats(p, q) == \/ PairCount(s, p) > PairCount(s, q)
                     \/ PairCount(s, p) = PairCount(s, q) /\ Before(p, q)
  IN  {p \in pairs : Cardinality({q \in pairs : Beats(q, p)}) < 3}

(* The text cut into the keys that are counted: from left to right, a pair  *)
(* where one of the three stands, else a character.                         *)
RECURSIVE Cut(_, _)
Cut(s, pairs) ==
  IF s = <<>> THEN <<>>
  ELSE LET n == IF Len(s) > 1 /\ PairAt(s, 1) \in pairs THEN 2 ELSE 1
       IN  <<SubSeq(s, 1, n)>> \o Cut(SubSeq(s, n + 1, Len(s)), pairs)

Keys == Cut(text, IF multi THEN executeMultiChar(text) ELSE {})
charCount(k) == Cardinality({i \in DOMAIN Keys : Keys[i] = k})

------------------------------------------------------------------------------
(* The tree (hfTree::hfTree) *)

LeafNode(k) == [count |-> charCount(k), order |-> k[1], key |-> k]
Parent(l, r) ==
  [count |-> l.count + r.count, order |-> Min({l.order, r.order}), left |-> l, right |-> r]
IsLeaf(node) == "key" \in DOMAIN node

(* Mutant: the order of the characters decides before the counts. *)
RanksByOrder(a, b) == a.order < b.order
Ranks(a, b)        == a.count < b.count \/ (a.count = b.count /\ a.order < b.order)
Tops(Q)            == {a \in Q : \A b \in Q : ~Ranks(b, a)}

HuffmanInit ==
  /\ text \in Texts /\ multi \in BOOLEAN
  /\ pq = {LeafNode(Keys[i]) : i \in DOMAIN Keys}

MergeNodes ==
  /\ Cardinality(pq) > 1
  /\ \E left \in Tops(pq) : \E right \in Tops(pq \ {left}) :
       pq' = (pq \ {left, right}) \cup {Parent(left, right)}
  /\ UNCHANGED <<text, multi>>

HuffmanSpec == HuffmanInit /\ [][MergeNodes]_huffmanVars

Built == Cardinality(pq) = 1
Root  == CHOOSE node \in pq : TRUE

------------------------------------------------------------------------------
(* The coding table (getTable), as the set of its entries *)

RECURSIVE getTable(_, _)
getTable(node, code) ==
  IF IsLeaf(node) THEN {[key |-> node.key, code |-> code]}
  ELSE getTable(node.left, Append(code, 0)) \cup getTable(node.right, Append(code, 1))

codingTable == getTable(Root, <<>>)

HasKey(table, k) == \E e \in table : e.key = k
CodeOf(table, k) == (CHOOSE e \in table : e.key = k).code

------------------------------------------------------------------------------
(* compress: the bits of the text in bytes, after their number *)

(* Mutant: a pair of equal letters is not looked up. *)
PairUnequal(table, s) == Len(s) > 1 /\ s[1] # s[2] /\ HasKey(table, PairAt(s, 1))
PairFirst(table, s)   == Len(s) > 1 /\ HasKey(table, PairAt(s, 1))

RECURSIVE Bits(_, _)
Bits(table, s) ==
  IF s = <<>> THEN <<>>
  ELSE IF PairFirst(table, s)
       THEN CodeOf(table, PairAt(s, 1)) \o Bits(table, SubSeq(s, 3, Len(s)))
       ELSE (IF HasKey(table, SubSeq(s, 1, 1)) THEN CodeOf(table, SubSeq(s, 1, 1)) ELSE <<>>)
            \o Bits(table, Tail(s))

compress(table, s) ==
  LET bits   == Bits(table, s)
      bit(i) == IF i <= Len(bits) THEN bits[i] ELSE 0      \* padded to a whole byte
  IN  [length |-> Len(bits),
       bytes  |-> [b \in 1 .. (Len(bits) + 7) \div 8 |->
                     MapThenSumSet(LAMBDA j : 2 ^ (8 - j) * bit(8 * (b - 1) + j), 1 .. 8)]]

------------------------------------------------------------------------------
(* The table written to a file and read again (codingTable2String,          *)
(* loadCodingTable)                                                         *)

DigitsOf(code) == [i \in DOMAIN code |-> Digit(code[i])]

RECURSIVE codingTable2String(_)
codingTable2String(table) ==
  IF table = {} THEN <<>>
  ELSE LET e == CHOOSE e \in table : \A f \in table \ {e} : Before(e.key, f.key)
       IN  e.key \o <<Blank>> \o DigitsOf(e.code) \o <<Newline>> \o codingTable2String(table \ {e})

(* getline: what it reads and what it leaves. *)
LineEnd(s)    == Min({i \in DOMAIN s : s[i] = Newline} \cup {Len(s) + 1})
getline(s)    == SubSeq(s, 1, LineEnd(s) - 1)
Remaining(s)  == SubSeq(s, LineEnd(s) + 1, Len(s))
(* Mutant: the key ends at the first blank. *)
FirstBlank(s) == IF Blank \in Range(s) THEN Min({i \in DOMAIN s : s[i] = Blank}) ELSE 0
LastBlank(s)  == Max({i \in DOMAIN s : s[i] = Blank} \cup {0})
NotBlank(c)   == c # Blank

Entered(table, k, v) == {e \in table : e.key # k} \cup {[key |-> k, code |-> v]}

KeyOf(line) ==
  IF LastBlank(line) = 0 THEN line
  ELSE IF LastBlank(line) = 1 THEN <<Blank>> ELSE SubSeq(line, 1, LastBlank(line) - 1)

RECURSIVE loadCodingTable(_, _)
loadCodingTable(s, table) ==
  IF s = <<>> THEN table
  ELSE LET line == getline(s)
           rest == Remaining(s)
           next == getline(rest)
           blanks == Cardinality({i \in DOMAIN next : next[i] = Blank})
       IN  CASE line = <<>> ->
                  loadCodingTable(Remaining(rest),
                    IF blanks \in {1, 2}
                    THEN Entered(table, <<Newline>>, SubSeq(next, blanks + 1, Len(next)))
                    ELSE table)
             [] line # <<>> /\ LastBlank(line) = Len(line) ->
                  loadCodingTable(Remaining(rest),
                    Entered(table, <<Blank, Newline>>, SelectSeq(next, NotBlank)))
             [] OTHER ->
                  loadCodingTable(rest,
                    Entered(table, KeyOf(line), SubSeq(line, LastBlank(line) + 1, Len(line))))

------------------------------------------------------------------------------
(* Properties *)

(* The code is the best there is: no code without ambiguity for the same    *)
(* counts makes the text shorter, however the queue orders equal nodes      *)
(* (hfTree::hfTree; the lengths of such codes are those that satisfy        *)
(* Kraft's inequality).                                                     *)
Optimal ==
  Built /\ Cardinality(codingTable) > 1 =>
    LET keys    == {e.key : e \in codingTable}
        longest == Cardinality(keys) - 1
        Length(lengths) == MapThenSumSet(LAMBDA k : charCount(k) * lengths[k], keys)
    IN  \A lengths \in [keys -> 1 .. longest] :
          MapThenSumSet(LAMBDA k : 2 ^ (longest - lengths[k]), keys) <= 2 ^ longest =>
            Len(Bits(codingTable, text)) <= Length(lengths)

Unpacked(file) ==
  [i \in 1 .. file.length |-> (file.bytes[(i + 7) \div 8] \div 2 ^ (7 - ((i - 1) % 8))) % 2]

(* Decoding by the table: at most one code fits. *)
RECURSIVE Decoded(_, _)
Decoded(table, bits) ==
  IF bits = <<>> THEN <<>>
  ELSE LET fits == {e \in table : IsPrefix(e.code, bits)}
           e    == CHOOSE e \in fits : TRUE
       IN  IF Cardinality(fits) # 1 THEN <<>>
           ELSE e.key \o Decoded(table, SubSeq(bits, Len(e.code) + 1, Len(bits)))

(* The compressed text can be read back: the pairs compress looks for are   *)
(* those the counting found, every key has a code, no code starts another   *)
(* and the padding is no part of the text.  A text of one key alone is the  *)
(* exception: its code is empty.                                            *)
TextRoundTrip ==
  Built /\ Cardinality(codingTable) > 1 =>
    Decoded(codingTable, Unpacked(compress(codingTable, text))) = text

(* A table comes back from its file as it was, with keys that are blanks or *)
(* a newline, as long as no pair but "blank newline" holds a newline.       *)
TableRoundTrip ==
  LET plain(k) == Len(k) = 1 \/ k = <<Blank, Newline>> \/ Newline \notin {k[1], k[2]}
  IN  Built /\ Cardinality(codingTable) > 1 /\ (\A e \in codingTable : plain(e.key)) =>
        loadCodingTable(codingTable2String(codingTable), {}) =
          {[key |-> e.key, code |-> DigitsOf(e.code)] : e \in codingTable}
==============================================================================
