-------------------------------- MODULE KVMap --------------------------------
(***************************************************************************)
(* What LSMKV/kvstore_api.h promises to a caller: a map from keys to        *)
(* values, changed by put, del and reset and by nothing else.  A call takes *)
(* effect when it is made and the store is busy until the call returns;     *)
(* while it is busy (flushing, compacting, collecting garbage) no key may   *)
(* change its value.                                                        *)
(***************************************************************************)
CONSTANTS
  Keys,         \* the keys callers use
  PutValues,    \* the values callers put
  GcChunks,     \* the chunk sizes callers pass to gc
  Empty         \* the empty string, the value of a key that is not there

VARIABLES
  kv,           \* [Keys -> values]: what get returns
  call          \* the call being executed, or NoCall

vars == <<kv, call>>

PutCall(k, v) == [op |-> "put", key |-> k, val |-> v]
DelCall(k)    == [op |-> "del", key |-> k]
GcCall(c)     == [op |-> "gc", chunk |-> c]
ResetCall     == [op |-> "reset"]
NoCall        == [op |-> "none"]

Calls == {PutCall(k, v) : k \in Keys, v \in PutValues} \cup
         {DelCall(k) : k \in Keys} \cup
         {GcCall(c) : c \in GcChunks} \cup {ResetCall}

AllEmpty == [k \in Keys |-> Empty]

Init == kv = AllEmpty /\ call = NoCall

Put(k, v) == /\ call' = PutCall(k, v)
             /\ kv' = [kv EXCEPT ![k] = v]

(* The answer of del, whether the key was there, is kv[k] # Empty.          *)
Del(k) == /\ call' = DelCall(k)
          /\ kv' = [kv EXCEPT ![k] = Empty]

Gc(c) == call' = GcCall(c) /\ UNCHANGED kv

Reset == call' = ResetCall /\ kv' = AllEmpty

Invoke == /\ call = NoCall
          /\ \/ \E k \in Keys, v \in PutValues : Put(k, v)
             \/ \E k \in Keys : Del(k)
             \/ \E c \in GcChunks : Gc(c)
             \/ Reset

Return == call # NoCall /\ call' = NoCall /\ UNCHANGED kv

Next == Invoke \/ Return

Spec == Init /\ [][Next]_vars
==============================================================================
