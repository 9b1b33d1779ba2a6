------------------------- MODULE MCFixtureWriteback -------------------------
(* Two processes and two proposals over one file. *)
EXTENDS FixtureWriteback, TLC

CONSTANTS p1, p2, q1, q2, new

MCBodyOf == [p \in Proposals |-> new]

FixtureSymmetry == Permutations(Procs) \cup Permutations(Proposals)
=============================================================================
