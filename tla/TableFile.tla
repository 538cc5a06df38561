------------------------------- MODULE TableFile -------------------------------
(***************************************************************************)
(* A table that is written to its file and read back (SSTable::output and   *)
(* SSTableHandler::input): a sequence of numbers in which the Bloom filter  *)
(* is packed into signed bytes.                                             *)
(***************************************************************************)
EXTENDS TableSearch, FiniteSetsExt

(* Bit b of the filter is bit b % 8 of byte b \div 8; the byte is a char.   *)
AsChar(n)    == IF n >= 128 THEN n - 256 ELSE n
ByteBits(b)  == {j \in 0 .. 7 : b * 8 + j \in table.bloomFilter}
Bytes        == [b \in 1 .. (NumBits + 7) \div 8 |->
                   AsChar(MapThenSumSet(LAMBDA j : 2 ^ j, ByteBits(b - 1)))]

output ==
  <<table.timeId, table.pairNum, table.largestKey, table.smallestKey>>
  \o Bytes
  \o [n \in 1 .. 3 * table.pairNum |->
        LET x == table.item[(n + 2) \div 3]
        IN  CASE n % 3 = 1 -> x.key [] n % 3 = 2 -> x.off [] n % 3 = 0 -> x.vlen]

(* Mutant: the byte is taken for unsigned and cut off. *)
BitOfPositive(byte, j) == byte > 0 /\ (byte \div 2 ^ j) % 2 = 1
BitOf(byte, j)         == (byte \div 2 ^ j) % 2 = 1

input(file) ==
  LET items == 4 + (NumBits + 7) \div 8
  IN  [timeId      |-> file[1], pairNum |-> file[2],
       largestKey  |-> file[3], smallestKey |-> file[4],
       bloomFilter |-> {b \in 0 .. NumBits - 1 : BitOf(file[5 + b \div 8], b % 8)},
       item        |-> [m \in 1 .. file[2] |->
                          [key  |-> file[items + 3 * m - 2],
                           off  |-> file[items + 3 * m - 1],
                           vlen |-> file[items + 3 * m]]]]

Reload ==
  /\ phase = "idle" /\ table' = input(output)
  /\ UNCHANGED <<ask, phase, left, right, startIdx, found>>

FileNext == SearchNext \/ Reload

(* A table comes back from its file as it was: nothing of its items or of   *)
(* the packed filter is lost or moved.                                      *)
FileKeepsTable == [][table' = table]_searchVars
==============================================================================
