------------------------------ MODULE MCDurable ------------------------------
(***************************************************************************)
(* MkdirFails, and so Durable, for TLC; values are interchangeable.         *)
(***************************************************************************)
EXTENDS MkdirFails, TLC

Symmetry == Permutations(PutValues)
==============================================================================
