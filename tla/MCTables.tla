------------------------------- MODULE MCTables --------------------------------
(***************************************************************************)
(* The memory table's skip list and a table file for TLC.  They share no    *)
(* state, so a behaviour exercises one of them and leaves the other alone.  *)
(***************************************************************************)
EXTENDS SkipList, TableFile, SequencesExt

VARIABLE part

(* A table for every set of keys. *)
AscendingLists ==
  {SetToSortSeq({[key |-> k, off |-> 2 * k, vlen |-> k % 2] : k \in S},
                LAMBDA x, y : x.key < y.key) : S \in SUBSET Keys \ {{}}}
SmallHash == [k \in Keys |-> [j \in Seeds |-> k ^ (j + 1) + 5 + j]]

Init ==
  /\ part \in {"skip list", "table"}
  /\ ListInit /\ SearchInit
  /\ part = "skip list" => Len(table.item) = Cardinality(Keys)

Next ==
  /\ UNCHANGED part
  /\ \/ part = "skip list" /\ ListNext /\ UNCHANGED searchVars
     \/ part = "table" /\ FileNext /\ UNCHANGED listVars

Spec == Init /\ [][Next]_<<listVars, searchVars, part>>
             /\ WF_listVars(Serve) /\ WF_searchVars(Search)
==============================================================================
