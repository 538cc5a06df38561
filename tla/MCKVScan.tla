------------------------------- MODULE MCKVScan -------------------------------
(***************************************************************************)
(* KVScan for TLC; values are interchangeable.                              *)
(***************************************************************************)
EXTENDS KVScan, TLC

Symmetry == Permutations(PutValues)
==============================================================================
