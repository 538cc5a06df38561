------------------------------ MODULE OrderedMap -------------------------------
(***************************************************************************)
(* What the memory table promises its callers: a map from keys to values    *)
(* whose contents can be listed in ascending order of the keys.  A call is  *)
(* taken, and later answered in one step.                                   *)
(***************************************************************************)
EXTENDS Integers, Sequences, FiniteSets

CONSTANTS
  Keys,        \* the keys
  Values,      \* the values that can be put
  Empty        \* the empty string, which get returns for an absent key

VARIABLES
  contents,    \* the map
  count,       \* how many keys it holds, as size() tells the flush
  call,        \* the last call taken
  reply        \* its answer, or NoReply

mapVars == <<contents, count, call, reply>>

NoCall  == [op |-> "none"]
NoReply == [done |-> FALSE]
Reply(r) == [done |-> TRUE, result |-> r]

PutCall(k, v)  == [op |-> "put", key |-> k, val |-> v]
GetCall(k)     == [op |-> "get", key |-> k]
DelCall(k)     == [op |-> "del", key |-> k]
ScanCall(k, e) == [op |-> "scan", key |-> k, end |-> e]
ListCall       == [op |-> "list"]
CleanCall      == [op |-> "clean"]

Calls ==
  {PutCall(k, v) : k \in Keys, v \in Values} \cup {GetCall(k) : k \in Keys}
  \cup {DelCall(k) : k \in Keys} \cup {ScanCall(k, e) : k \in Keys, e \in Keys}
  \cup {ListCall, CleanCall}

(* s lists the keys in S, ascending, with their values. *)
IsListing(s, S) ==
  /\ \A a, b \in DOMAIN s : a < b => s[a][1] < s[b][1]
  /\ {s[a] : a \in DOMAIN s} = {<<k, contents[k]>> : k \in S}

------------------------------------------------------------------------------

Init ==
  /\ contents = [k \in {} |-> Empty] /\ count = 0
  /\ call = NoCall /\ reply = Reply(Empty)

Take == reply.done /\ call' \in Calls /\ reply' = NoReply /\ UNCHANGED <<contents, count>>

Put ==
  /\ call.op = "put"
  /\ contents' = [k \in DOMAIN contents \cup {call.key} |->
                    IF k = call.key THEN call.val ELSE contents[k]]
  /\ reply' = Reply(Empty)

Get ==
  /\ call.op = "get"
  /\ reply' = Reply(IF call.key \in DOMAIN contents THEN contents[call.key] ELSE Empty)
  /\ UNCHANGED contents

Del ==
  /\ call.op = "del"
  /\ contents' = [k \in DOMAIN contents \ {call.key} |-> contents[k]]
  /\ reply' = Reply(call.key \in DOMAIN contents)

Scan ==
  /\ call.op = "scan"
  /\ reply'.done
  /\ IsListing(reply'.result, {k \in DOMAIN contents : call.key <= k /\ k <= call.end})
  /\ UNCHANGED contents

List ==
  /\ call.op = "list"
  /\ reply'.done
  /\ IsListing(reply'.result, DOMAIN contents)
  /\ UNCHANGED contents

Clean ==
  /\ call.op = "clean" /\ contents' = [k \in {} |-> Empty] /\ reply' = Reply(Empty)

Answer ==
  /\ ~reply.done
  /\ Put \/ Get \/ Del \/ Scan \/ List \/ Clean
  /\ count' = Cardinality(DOMAIN contents')
  /\ UNCHANGED call

Next == Take \/ Answer

Spec == Init /\ [][Next]_mapVars
==============================================================================
