-------------------------------- MODULE TreeSet --------------------------------
(***************************************************************************)
(* What both radix trees promise through tree.hpp: a set of values.         *)
(***************************************************************************)
CONSTANT Values
VARIABLE members

Init == members = {}

Insert(v) == members' = members \cup {v}
Remove(v) == members' = members \ {v}

Next == \E v \in Values : Insert(v) \/ Remove(v)

Spec == Init /\ [][Next]_members
==============================================================================
