------------------------------ MODULE TreeValues -------------------------------
(***************************************************************************)
(* The values both radix trees are called with: they are not negative, and  *)
(* written as sequences of digits of two bits, the most significant first.  *)
(***************************************************************************)
EXTENDS Integers, Sequences

CONSTANTS
  Depth,       \* the number of digits: 16 in the code
  Values,      \* the values callers insert and remove
  AnyRemoval   \* bound: FALSE leaves out the removals the code gets wrong

ASSUME TreeAssumption ==
  /\ Depth \in Nat \ {0, 1}
  /\ Values \subseteq {v \in [1 .. Depth -> 0 .. 3] : v[1] <= 1}
  /\ AnyRemoval \in BOOLEAN
==============================================================================
