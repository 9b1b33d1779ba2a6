------------------------- MODULE MCMemoryLifecycle -------------------------
(* A small instance: p1 creates a memory, p2 revises it, p3 revises it too. *)
EXTENDS MemoryLifecycle, TLC

CONSTANTS p1, p2, p3, s1, s2, c1, c2, canonical

MCSourceOf == [p \in Proposals |-> canonical]
MCTargetOf == [p \in Proposals |-> IF p = p1 THEN NewMemory ELSE p1]
MCDraftOf == [p \in Proposals |-> c1]

\* Sessions are interchangeable; no liveness property is checked here.
SessionSymmetry == Permutations(Sessions) \cup Permutations({p2, p3})
=============================================================================
