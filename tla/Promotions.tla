---------------------------- MODULE Promotions ----------------------------
(***************************************************************************)
(* Improvement proposals, their offline experiments, and the promotion and *)
(* rollback of local memory-model versions (improvement_proposals.py and   *)
(* experiments.py).                                                        *)
(*                                                                         *)
(* A proposal asks for a candidate model in place of the one in effect     *)
(* when it was generated.  It is tried in an experiment, recommended or    *)
(* blocked, reviewed, and promoted.  A rollback does not reopen an old     *)
(* promotion: it adds one that restores the model before.                  *)
(*                                                                         *)
(* Every operation reads before its write transaction begins, and none     *)
(* reads again, so sessions act on what may have changed.                  *)
(***************************************************************************)
EXTENDS Naturals, Sequences

CONSTANTS
  Sessions,       \* database connections
  Proposals,      \* improvement proposals
  Candidates,     \* candidate model versions
  Base,           \* the baseline model version
  CandidateOf,    \* the candidate of each proposal
  Suites,         \* fixture suites of experiments
  Recommends,     \* for each proposal, the suites on which its candidate passes
                  \*   the safety gate and improves a metric it aims at
  NoSuite, Idle,
  MaxPromotions,  \* bound: rows of model_promotions
  PromotionTimes, \* bounds: the times that callers give to promotions
  RollbackTimes   \*   and to rollbacks

ASSUME PromotionsAssumption ==
  /\ Base \notin Candidates
  /\ CandidateOf \in [Proposals -> Candidates]
  /\ Recommends \in [Proposals -> SUBSET Suites]
  /\ NoSuite \notin Suites
  /\ MaxPromotions \in Nat
  /\ PromotionTimes \subseteq Nat /\ RollbackTimes \subseteq Nat

Models == Candidates \cup {Base}
Times == PromotionTimes \cup RollbackTimes

VARIABLES
  proposal,     \* improvement_proposals: status, baseline and the suite of the
                \*   attached experiment (the review decision is written with the
                \*   status, and says nothing more when it is read)
  experiments,  \* candidate_experiments that were completed
  promotions,   \* model_promotions, in commit order
  approvals,    \* (a history) the proposals that a reviewer has approved
  pc            \* what a session has read for its next write

vars == <<proposal, experiments, promotions, approvals, pc>>

ProposalStatuses == {"absent", "draft", "experiment_ready", "recommended", "rejected",
                     "approved", "promoted", "rolled_back", "blocked"}
Refusals == {"reject", "block"}    \* decisions other than approve

Proposal == [status : ProposalStatuses, baseline : Models,
             suite : Suites \cup {NoSuite}]
Experiment == [baseline : Models, candidate : Candidates, suite : Suites]

\* undoes is the row that a restoration undoes, 0 in a promotion.
Promotion == [proposal : Proposals, from : Models, to : Models, undoes : 0..MaxPromotions,
              at : Times, status : {"active_local", "rolled_back"}]

Work == [op : {"propose"}, baseline : Models]
   \cup [op : {"evaluate"}, proposal : Proposals, to : {"recommended", "blocked"}]
   \cup [op : {"approve"}, proposal : Proposals]
   \cup [op : {"promote"}, proposal : Proposals]
   \cup [op : {"supersede"}, proposal : Proposals, row : 0..MaxPromotions, from : Models]
   \cup [op : {"rollback"}, row : 1..MaxPromotions]

ASSUME IdleAssumption == Idle \notin Work

PromotionsTypeOK ==
  /\ proposal \in [Proposals -> Proposal]
  /\ experiments \subseteq Experiment
  /\ promotions \in Seq(Promotion)
  /\ Len(promotions) <= MaxPromotions
  /\ approvals \subseteq Proposals
  /\ pc \in [Sessions -> Work \cup {Idle}]

Init ==
  /\ proposal = [p \in Proposals |-> [status |-> "absent", baseline |-> Base,
                                      suite |-> NoSuite]]
  /\ experiments = {}
  /\ promotions = <<>>
  /\ approvals = {}
  /\ pc = [s \in Sessions |-> Idle]

Exists(p) == proposal[p].status # "absent"
At(s, op) == pc[s] # Idle /\ pc[s].op = op
Done(s) == pc' = [pc EXCEPT ![s] = Idle]

\* A read outside a transaction.
Read(s, work) ==
  /\ pc[s] = Idle
  /\ pc' = [pc EXCEPT ![s] = work]
  /\ UNCHANGED <<proposal, experiments, promotions, approvals>>

\* An exception or the death of the process before the write is committed.
Drop(s) ==
  /\ pc[s] # Idle
  /\ Done(s)
  /\ UNCHANGED <<proposal, experiments, promotions, approvals>>

SetStatus(p, status) == proposal' = [proposal EXCEPT ![p].status = status]

Active == {n \in DOMAIN promotions : promotions[n].status = "active_local"}

\* _active_promotion: the latest active row; ids, which are hashes, break ties.
IsCurrent(n) == n \in Active /\ \A m \in Active : promotions[m].at <= promotions[n].at

----------------------------------------------------------------------------
(* generate_improvement_proposals *)

ProposeRead(s) ==
  \/ Active = {} /\ Read(s, [op |-> "propose", baseline |-> Base])
  \/ \E n \in Active : IsCurrent(n) /\ Read(s, [op |-> "propose", baseline |-> promotions[n].to])

\* The id of a candidate is made of its baseline too: proposals that share a
\* candidate share the baseline.
ProposeWrite(s, p) ==
  /\ At(s, "propose")
  /\ ~ Exists(p)
  /\ \A q \in Proposals : Exists(q) /\ CandidateOf[q] = CandidateOf[p] =>
       proposal[q].baseline = pc[s].baseline
  /\ proposal' = [proposal EXCEPT ![p] = [status |-> "draft", baseline |-> pc[s].baseline,
                                          suite |-> NoSuite]]
  /\ Done(s)
  /\ UNCHANGED <<experiments, promotions, approvals>>

----------------------------------------------------------------------------
(* run_or_attach_proposal_experiment and evaluate_promotion_recommendation *)

\* run_candidate_experiment: the baseline of an experiment must be of kind
\* baseline, which a candidate does not become when it is promoted.
Comparable(m) == m = Base

\* The proposals whose experiment compares m with c on a suite.
Attached(m, c, suite) ==
  {p \in Proposals : CandidateOf[p] = c /\ proposal[p].baseline = m /\ proposal[p].suite = suite}

\* The row may replace (INSERT OR REPLACE) one of the same second, whose deletion
\* sets the experiment_id of the proposals it was attached to to NULL.
RunExperiment(m, c, suite) ==
  /\ Comparable(m)
  /\ \E p \in Proposals : Exists(p) /\ CandidateOf[p] = c
  /\ experiments' = experiments \cup {[baseline |-> m, candidate |-> c, suite |-> suite]}
  /\ \E detached \in SUBSET Attached(m, c, suite) :
       proposal' = [p \in Proposals |->
         IF p \in detached THEN [proposal[p] EXCEPT !.suite = NoSuite] ELSE proposal[p]]
  /\ UNCHANGED <<promotions, approvals, pc>>

\* The condition on the status is part of the UPDATE.
Attach(p, e) ==
  /\ e.baseline = proposal[p].baseline
  /\ e.candidate = CandidateOf[p]
  /\ proposal[p].status \in {"draft", "experiment_ready", "blocked"}
  /\ proposal' = [proposal EXCEPT ![p] = [@ EXCEPT !.status = "experiment_ready",
                                                   !.suite = e.suite]]
  /\ UNCHANGED <<experiments, promotions, approvals, pc>>

EvaluateRead(s, p) ==
  /\ Exists(p)
  /\ Read(s, [op |-> "evaluate", proposal |-> p,
              to |-> IF proposal[p].suite \in Recommends[p] THEN "recommended" ELSE "blocked"])

EvaluateWrite(s) ==
  /\ At(s, "evaluate")
  /\ SetStatus(pc[s].proposal, pc[s].to)
  /\ Done(s)
  /\ UNCHANGED <<experiments, promotions, approvals>>

----------------------------------------------------------------------------
(* review_improvement_proposal *)

\* Mutant: any proposal may be approved.
ApprovableAny(p) == Exists(p)
Approvable(p) == proposal[p].status = "recommended"

ApproveRead(s, p) == Approvable(p) /\ Read(s, [op |-> "approve", proposal |-> p])

ApproveWrite(s) ==
  /\ At(s, "approve")
  /\ SetStatus(pc[s].proposal, "approved")
  /\ approvals' = approvals \cup {pc[s].proposal}
  /\ Done(s)
  /\ UNCHANGED <<experiments, promotions>>

\* Mutant: the decision is stored as the status.
DecisionAsStatus(d) == d
StatusOf(d) == IF d = "reject" THEN "rejected" ELSE "blocked"

\* The other decisions use nothing of what is read but that the proposal exists.
Refuse(p, d) ==
  /\ Exists(p)
  /\ SetStatus(p, StatusOf(d))
  /\ UNCHANGED <<experiments, promotions, approvals, pc>>

----------------------------------------------------------------------------
(* promote_memory_model_version *)

RoomForPromotion == Len(promotions) < MaxPromotions    \* bound

\* The UPDATE of a row to rolled_back, and the row that is then inserted.
Closed(n) == IF n = 0 THEN promotions ELSE [promotions EXCEPT ![n].status = "rolled_back"]
Supersede(n, r) == promotions' = Append(Closed(n), r)

PromoteRead(s, p) ==
  /\ proposal[p].status = "approved"
  /\ Read(s, [op |-> "promote", proposal |-> p])

\* The second read, of the promotion in effect.
PromoteCurrent(s) ==
  LET Turn(n, from) ==
        pc' = [pc EXCEPT ![s] = [op |-> "supersede", proposal |-> pc[s].proposal,
                                 row |-> n, from |-> from]]
  IN /\ At(s, "promote")
     /\ \/ Active = {} /\ Turn(0, proposal[pc[s].proposal].baseline)
        \/ \E n \in Active : IsCurrent(n) /\ Turn(n, promotions[n].to)
     /\ UNCHANGED <<proposal, experiments, promotions, approvals>>

Promoted(w, at) ==
  [proposal |-> w.proposal, from |-> w.from, to |-> CandidateOf[w.proposal], undoes |-> 0,
   at |-> at, status |-> "active_local"]

\* A promotion's id is made of the proposal, both models and the time.
PromotionIdTaken(r) ==
  \E n \in DOMAIN promotions :
    promotions[n].proposal = r.proposal /\ promotions[n].from = r.from
    /\ promotions[n].undoes = 0 /\ promotions[n].at = r.at

PromoteWrite(s, at) ==
  /\ At(s, "supersede")
  /\ RoomForPromotion
  /\ ~ PromotionIdTaken(Promoted(pc[s], at))
  /\ Supersede(pc[s].row, Promoted(pc[s], at))
  /\ SetStatus(pc[s].proposal, "promoted")
  /\ Done(s)
  /\ UNCHANGED <<experiments, approvals>>

----------------------------------------------------------------------------
(* rollback_memory_model_promotion *)

RollbackRead(s, n) ==
  /\ n \in Active
  /\ Read(s, [op |-> "rollback", row |-> n])

\* Mutant: the row restored is the one that was active.
RestoredSame(n, at) ==
  [promotions[n] EXCEPT !.undoes = n, !.at = at, !.status = "active_local"]

Restored(n, at) ==
  [proposal |-> promotions[n].proposal, from |-> promotions[n].to, to |-> promotions[n].from,
   undoes |-> n, at |-> at, status |-> "active_local"]

\* A restoration's id is made of the row it undoes and the time.
RestorationIdTaken(n, at) ==
  \E m \in DOMAIN promotions : promotions[m].undoes = n /\ promotions[m].at = at

\* Mutant: the promotion that was in effect before is opened again.
RollbackReopens(s, at) ==
  LET n == pc[s].row
      before == {m \in 1..(n - 1) : promotions[m].to = promotions[n].from}
  IN /\ At(s, "rollback")
     /\ promotions' = [m \in DOMAIN promotions |->
          CASE m = n      -> [promotions[m] EXCEPT !.status = "rolled_back"]
            [] m \in before -> [promotions[m] EXCEPT !.status = "active_local"]
            [] OTHER      -> promotions[m]]
     /\ SetStatus(promotions[n].proposal, "rolled_back")
     /\ Done(s)
     /\ UNCHANGED <<experiments, approvals>>

RollbackWrite(s, at) ==
  LET n == pc[s].row
  IN /\ At(s, "rollback")
     /\ RoomForPromotion
     /\ ~ RestorationIdTaken(n, at)
     /\ Supersede(n, Restored(n, at))
     /\ SetStatus(promotions[n].proposal, "rolled_back")
     /\ Done(s)
     /\ UNCHANGED <<experiments, approvals>>

----------------------------------------------------------------------------

Next ==
  \/ \E m \in Models, c \in Candidates, suite \in Suites : RunExperiment(m, c, suite)
  \/ \E p \in Proposals, e \in experiments : Attach(p, e)
  \/ \E p \in Proposals, d \in Refusals : Refuse(p, d)
  \/ \E s \in Sessions :
       \/ ProposeRead(s) \/ EvaluateWrite(s) \/ ApproveWrite(s) \/ PromoteCurrent(s) \/ Drop(s)
       \/ \E p \in Proposals :
            ProposeWrite(s, p) \/ EvaluateRead(s, p) \/ ApproveRead(s, p) \/ PromoteRead(s, p)
       \/ \E at \in PromotionTimes : PromoteWrite(s, at)
       \/ \E at \in RollbackTimes : RollbackWrite(s, at)
       \/ \E n \in DOMAIN promotions : RollbackRead(s, n)

Spec == Init /\ [][Next]_vars

----------------------------------------------------------------------------
(* Properties *)

\* The experiment that speaks for a proposal.
Supported(p) ==
  \E suite \in Recommends[p] :
    [baseline |-> Base, candidate |-> CandidateOf[p], suite |-> suite] \in experiments

\* However stale the reads of evaluations, reviews and promotions are, a
\* candidate takes effect only for a proposal that a reviewer has approved and
\* whose candidate has passed an experiment against the baseline; never for one
\* that was generated while a candidate was in effect.
PromotedOnEvidence ==
  \A n \in DOMAIN promotions : promotions[n].undoes = 0 =>
    LET p == promotions[n].proposal
    IN p \in approvals /\ Supported(p) /\ proposal[p].baseline = Base

\* What a promotion or a restoration replaces is the baseline, or was put in
\* effect by an earlier row that is closed, however many sessions promote and
\* roll back at once; what a rollback restores is what the promotion it undoes
\* had replaced, and that promotion is closed.
PromotionsFormChains ==
  \A n \in DOMAIN promotions :
    LET r == promotions[n]
    IN /\ r.from = Base \/ \E m \in 1..(n - 1) :
            promotions[m].to = r.from /\ promotions[m].status = "rolled_back"
       /\ r.undoes # 0 =>
            /\ r.undoes < n
            /\ promotions[r.undoes].status = "rolled_back"
            /\ r.to = promotions[r.undoes].from

\* A promotion is never removed or reopened, and of what it says only that it
\* is active changes.
PromotionsAreKept ==
  [][/\ Len(promotions') >= Len(promotions)
     /\ \A n \in DOMAIN promotions :
          promotions'[n] \in {promotions[n], [promotions[n] EXCEPT !.status = "rolled_back"]}
    ]_promotions
=============================================================================
