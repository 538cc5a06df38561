------------------------------ MODULE MCKVStore ------------------------------
(***************************************************************************)
(* KVStore for TLC.  Values are interchangeable, keys are not: their order  *)
(* decides how tables are cut.                                              *)
(***************************************************************************)
EXTENDS KVStore, TLC

Symmetry == Permutations(PutValues)
==============================================================================
