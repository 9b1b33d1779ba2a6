---------------------------- MODULE MCWriteback ----------------------------
(* One file that starts over its trigger, is trimmed, and may be edited to   *)
(* another content over the trigger, whose trim plan is blocked.             *)
EXTENDS Writeback, TLC

CONSTANTS full, trimmed, solid, u1, p1, p2

MCTrimOf == [c \in OverTrigger |-> IF c = full THEN trimmed ELSE c]
MCUndone == [u \in Undos |-> [before |-> full, tag |-> 0]]

ProcSymmetry == Permutations(Procs)
=============================================================================
