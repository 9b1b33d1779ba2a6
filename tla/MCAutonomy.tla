---------------------------- MODULE MCAutonomy ----------------------------
(* Three ticks that compete for one idempotency key: one files a record, one *)
(* needs approval, one is denied.  Operators file under the title that the   *)
(* ticks use too, since it is the same for all ticks unless one is given.    *)
EXTENDS Autonomy, TLC

CONSTANTS o1, a1, s1, s2, tRecord, tAsk, tDeny, k1, title

MCObjectiveOf == [a \in {a1} |-> o1]
MCKeyOf == [t \in Ticks |-> k1]
MCActionOf == [t \in Ticks |-> CASE t = tRecord -> "record"
                                 [] t = tAsk -> "approval_required"
                                 [] t = tDeny -> "denied"]
MCTickObjective == [t \in Ticks |-> o1]
MCTitleOf == [t \in Ticks |-> title]

SessionSymmetry == Permutations(Sessions)
=============================================================================
