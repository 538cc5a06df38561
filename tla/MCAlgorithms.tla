----------------------------- MODULE MCAlgorithms ------------------------------
(***************************************************************************)
(* The programs beside LSMKV for TLC: selection, the HNSW index, the        *)
(* Huffman coder, the two radix trees and the threads that initialise once. *)
(* They share no state; a behaviour exercises one of them and leaves the    *)
(* others alone.  No symmetry: liveness is checked.                         *)
(***************************************************************************)
EXTENDS Select, HNSW, Huffman, RadixTree, CompressedRadixTree, CallOnce

CONSTANT Programs       \* the programs exercised

VARIABLE program

SmallArrays == UNION {[0 .. n - 1 -> 0 .. 2] : n \in 1 .. 4} \cup [0 .. 4 -> 0 .. 1]
Points      == [n \in Labels |-> <<n, (n * n) % 3>>]
SomeQueries == {<<1, 0>>}
SmallTexts  == UNION {[1 .. n -> {Newline, Blank, 97}] : n \in 1 .. 5}
SomeValues  == {<<0,0,0,0>>, <<0,0,0,1>>, <<0,0,1,2>>, <<1,0,2,0>>, <<0,0,0,3>>}

OthersThan(mine) ==
  /\ mine # "select"     => UNCHANGED selectVars
  /\ mine # "hnsw"       => UNCHANGED hnswVars
  /\ mine # "huffman"    => UNCHANGED huffmanVars
  /\ mine # "radix"      => UNCHANGED radixVars
  /\ mine # "compressed" => UNCHANGED root
  /\ mine # "once"       => UNCHANGED onceVars

Init ==
  /\ program \in Programs
  /\ HnswInit /\ RadixInit /\ CompressedInit
  /\ \/ program = "select" /\ SelectInit
     \/ /\ program # "select"
        /\ linear = FALSE /\ given \in {a \in Arrays : DOMAIN a = {0} /\ a[0] = 0}
        /\ rank = 1 /\ nums = given /\ k = 1 /\ left = 0 /\ right = 0
        /\ i = 0 /\ j = 0 /\ phase = "done" /\ answer = 0
  /\ \/ program = "once" /\ OnceInit
     \/ /\ program # "once"
        /\ stage = [t \in Threads |-> "done"] /\ isInit = TRUE
        /\ holder = NoThread /\ owns = FALSE
        /\ cntAccu = 1 /\ cntNow = 0 /\ abort = "no"
  /\ \/ program = "huffman" /\ HuffmanInit
     \/ program # "huffman" /\ multi = FALSE /\ text = <<97>> /\ pq = {}

Next ==
  /\ UNCHANGED program
  /\ OthersThan(program)
  /\ \/ program = "select" /\ SelectNext
     \/ program = "hnsw" /\ HnswNext
     \/ program = "huffman" /\ MergeNodes
     \/ program = "radix" /\ RadixNext
     \/ program = "compressed" /\ CompressedNext
     \/ program = "once" /\ OnceNext

Spec ==
  /\ Init /\ [][Next]_<<program, selectVars, hnswVars, huffmanVars, radixVars, root, onceVars>>
  /\ WF_selectVars(program = "select" /\ SelectNext) /\ WF_hnswVars(Work)
  /\ \A t \in Threads : WF_onceVars(program = "once" /\ Step(t))
==============================================================================
