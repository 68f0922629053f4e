---------------------------- MODULE MCObservers ----------------------------
(***************************************************************************)
(* Observers on a small instance: one client observes one resource twice,  *)
(* over its plain endpoint and over an association route.                  *)
(***************************************************************************)
EXTENDS Observers, TLC

CONSTANTS k1, k2, plain, route, peer, res

MCEndpointOf == [k \in Keys |-> IF k = k1 THEN plain ELSE route]
MCPhysical == [e \in {plain, route} |-> peer]
MCResourceOf == [k \in Keys |-> res]

\* The two relations are interchangeable, each together with its endpoint.
Swapped ==
    {f \in Permutations({k1, k2, plain, route}) :
        \A k \in Keys : f[k] \in Keys /\ f[MCEndpointOf[k]] = MCEndpointOf[f[k]]}

\* Observe numbers count up modulo SeqMod and are only ever compared with the one
\* heard last, so states that differ by a rotation of a relation's numbers behave
\* alike; they are told apart only by how far the row is ahead of the client.
Ahead(row) == [row EXCEPT !.seq = (@ + SeqMod - st.heard[row.key].seq) % SeqMod]
Relative ==
    [st EXCEPT !.table = [i \in Slots |-> IF @[i] = None THEN None ELSE Ahead(@[i])],
               !.heard = [k \in Keys |-> @[k].newer]]
=============================================================================
