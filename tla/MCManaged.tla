------------------------------ MODULE MCManaged ------------------------------
(* A small instance of Managed: two would-be owners of one device. *)
EXTENDS Managed, TLC

CONSTANTS o1, o2, s, r1, r2, x1, x2

TwoOwners == {[owner |-> o, peer |-> s, resources |-> s] : o \in {o1, o2}}
Alike == Permutations(Replicas) \cup Permutations(Exchanges) \cup Permutations({o1, o2})
=============================================================================
