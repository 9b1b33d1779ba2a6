----------------------------- MODULE MCProvider -----------------------------
(* Two profiles; the second owns a session that can be granted to the first  *)
(* and an export that can be imported.  Every source is readable, as no code *)
(* registers one that is not.                                                *)
EXTENDS Provider, TLC

CONSTANTS mine, theirs, c, d, ap, aq, guest, file, turns, bind, export,
          trimmed, said, next, note, session, project, fact

MCDerived == (mine :> ap) @@ (theirs :> aq)
MCOwner == (file :> mine) @@ (bind :> mine) @@ (turns :> theirs) @@ (export :> theirs)
MCBindingOf == (mine :> bind)
MCSourceOf == (trimmed :> file) @@ (said :> turns) @@ (next :> turns) @@ (note :> export)
MCSessionSource == (session :> turns)
MCProjectOf == (session :> project)
MCAuthor == (fact :> ap)
MCSupport == (fact :> <<trimmed, said>>)
MCSaves == {[db_path |-> "elsewhere"], [sync_turn_policy |-> "proposal_only"]}
Posture(policy, mode) == [sync_turn_policy |-> policy, writeback_mode |-> mode]
MCPostures == {Posture("propose_high_signal", "live_overflow_trim"), Posture("audit_only", "propose_only")}

MCSymmetry == Permutations({c, d})

MCScopeOf == (fact :> Wide)
=============================================================================
