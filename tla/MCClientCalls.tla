--------------------------- MODULE MCClientCalls ---------------------------
(* Small instances of ClientCalls. *)
EXTENDS ClientCalls, TLC

CONSTANTS p, q

\* Every call goes to the same peer and resource.
Alike == [c \in Calls |-> p]
OneTarget == [c \in Calls |-> 1]

\* One call to peer p, the others to q.
First == CHOOSE c \in Calls : TRUE
Split == [c \in Calls |-> IF c = First THEN p ELSE q]
TwoTargets == [c \in Calls |-> IF c = First THEN 1 ELSE 2]

\* Calls that are alike may be exchanged; Message IDs and TX slots always.
Slots == Permutations(TxSlots) \cup Permutations(Mids)
SlotsAndCalls == Slots \cup Permutations(Calls)
=============================================================================
