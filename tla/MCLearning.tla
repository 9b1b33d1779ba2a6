----------------------------- MODULE MCLearning -----------------------------
(* Two clusters, the first with three events, and an event of no cluster.    *)
EXTENDS Learning, TLC

CONSTANTS a1, a2, a3, b1, b2, plain, a, b

MCClusterOf == [e \in {a1, a2, a3} |-> a] @@ [e \in {b1, b2} |-> b] @@ (plain :> NoCluster)

MCSymmetry == Permutations(Readers) \cup Permutations({a1, a2})
=============================================================================
