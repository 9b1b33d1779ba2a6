------------------------------ MODULE MCWorker ------------------------------
(* Two workers and an operator session over a memory and its revision. *)
EXTENDS Worker, TLC

CONSTANTS p1, p2, s1, w1, w2, c1, canonical

MCSourceOf == [p \in Proposals |-> canonical]
MCTargetOf == [p \in Proposals |-> IF p = p1 THEN NewMemory ELSE p1]
MCDraftOf == [p \in Proposals |-> c1]

WorkerSymmetry == Permutations(Workers)
=============================================================================
