------------------------------ MODULE MCCallOnce ------------------------------
(***************************************************************************)
(* CallOnce for TLC.  No symmetry: a liveness property is checked.          *)
(***************************************************************************)
EXTENDS CallOnce
==============================================================================
