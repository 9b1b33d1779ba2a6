------------------------- MODULE PromotionsProofs -------------------------
(* Proofs of the promotion properties, for any number of sessions, proposals, *)
(* suites and promotions.                                                     *)
EXTENDS Promotions, SequenceTheorems, TLAPS

Rows == 1..Len(promotions)

\* What never ceases to speak for a proposal.
Backed(p) == Exists(p) /\ proposal[p].baseline = Base /\ Supported(p)

\* Statuses and attached experiments are borne out by experiments and reviews.
StatusFounded ==
  /\ \A e \in experiments : e.baseline = Base
  /\ \A p \in Proposals :
       /\ proposal[p].suite # NoSuite =>
            /\ Exists(p) /\ proposal[p].baseline = Base
            /\ [baseline |-> Base, candidate |-> CandidateOf[p],
                suite |-> proposal[p].suite] \in experiments
       /\ proposal[p].status \in {"recommended", "approved"} => Backed(p)
       /\ proposal[p].status = "approved" => p \in approvals

\* So is what a session has read, whatever has been written since.
Founded(w) ==
  /\ w.op = "evaluate" => Exists(w.proposal) /\ (w.to = "recommended" => Backed(w.proposal))
  /\ w.op = "approve" => Backed(w.proposal)
  /\ w.op \in {"promote", "supersede"} => w.proposal \in approvals /\ Backed(w.proposal)
  /\ w.op = "supersede" =>
       /\ w.row \in 0..Len(promotions)
       /\ w.from = IF w.row = 0 THEN Base ELSE promotions[w.row].to
  /\ w.op = "rollback" => w.row \in Rows

WorkFounded == \A s \in Sessions, w \in Work : pc[s] = w => Founded(w)

\* PromotedOnEvidence, of proposals that are there: one that is generated later
\* has a baseline of its own.
PromotionsFounded ==
  \A n \in Rows, p \in Proposals :
    promotions[n].undoes = 0 /\ promotions[n].proposal = p => p \in approvals /\ Backed(p)

PromotionInv ==
  /\ PromotionsTypeOK
  /\ StatusFounded
  /\ WorkFounded
  /\ PromotionsFounded
  /\ PromotionsFormChains

\* The initial state: nothing is proposed, tried or promoted.
LEMMA InitPromotionInv == Init => PromotionInv
<1> SUFFICES ASSUME Init PROVE PromotionInv
  OBVIOUS
<1> USE PromotionsAssumption DEF Init
<1>1. PromotionsTypeOK
  BY DEF PromotionsTypeOK, Proposal, ProposalStatuses, Models
<1>2. StatusFounded /\ WorkFounded
  BY IdleAssumption DEF StatusFounded, WorkFounded
<1>3. PromotionsFounded /\ PromotionsFormChains
  BY DEF PromotionsFounded, PromotionsFormChains, Rows
<1>4. QED
  BY <1>1, <1>2, <1>3 DEF PromotionInv

----------------------------------------------------------------------------
(* The table of promotions *)

Close(row) == [row EXCEPT !.status = "rolled_back"]

\* Closing a row leaves it one.
LEMMA CloseRow ==
  ASSUME NEW row \in Promotion
  PROVE  /\ Close(row) \in Promotion
         /\ Close(row).proposal = row.proposal /\ Close(row).from = row.from
         /\ Close(row).to = row.to /\ Close(row).undoes = row.undoes
         /\ Close(row).at = row.at /\ Close(row).status = "rolled_back"
BY DEF Close, Promotion

\* A row is closed and another added; the others stay.
LEMMA SupersedeRows ==
  ASSUME PromotionsTypeOK, RoomForPromotion, NEW n \in 0..Len(promotions),
         NEW r \in Promotion, Supersede(n, r)
  PROVE  /\ promotions' \in Seq(Promotion)
         /\ Len(promotions') = Len(promotions) + 1
         /\ Len(promotions') <= MaxPromotions
         /\ promotions'[Len(promotions) + 1] = r
         /\ \A m \in Rows :
              promotions'[m] = IF m = n THEN Close(promotions[m]) ELSE promotions[m]
<1>1. promotions \in Seq(Promotion) /\ Len(promotions) \in Nat
  BY DEF PromotionsTypeOK
<1>2. /\ Closed(n) \in Seq(Promotion)
      /\ Len(Closed(n)) = Len(promotions)
      /\ \A m \in Rows : Closed(n)[m] =
           IF m = n THEN Close(promotions[m]) ELSE promotions[m]
  <2>1. CASE n = 0
    BY <1>1, <2>1 DEF Closed, Rows
  <2>2. CASE n \in Rows
    <3>1. Close(promotions[n]) \in Promotion /\ n # 0
      BY <1>1, <2>2, ElementOfSeq, CloseRow DEF Rows
    <3>2. Closed(n) = [promotions EXCEPT ![n] = Close(promotions[n])]
      BY <3>1 DEF Closed, Close
    <3>3. QED
      BY <1>1, <2>2, <3>1, <3>2, ExceptSeq DEF Rows
  <2>3. QED
    BY <1>1, <2>1, <2>2 DEF Rows
<1>3. /\ promotions' \in Seq(Promotion)
      /\ Len(promotions') = Len(promotions) + 1
      /\ promotions'[Len(promotions) + 1] = r
      /\ \A m \in Rows : promotions'[m] = Closed(n)[m]
  BY <1>1, <1>2, AppendProperties DEF Supersede, Rows
<1>4. Len(promotions') <= MaxPromotions
  BY <1>1, <1>3, PromotionsAssumption DEF RoomForPromotion
<1>5. QED
  BY <1>2, <1>3, <1>4

----------------------------------------------------------------------------
(* What every step keeps *)

\* Proposals keep their baseline; experiments and approvals are not withdrawn.
SupportKept ==
  /\ experiments \subseteq experiments'
  /\ approvals \subseteq approvals'
  /\ \A p \in Proposals :
       Exists(p) => Exists(p)' /\ proposal'[p].baseline = proposal[p].baseline

\* Rows of promotions are kept, closed perhaps.
RowsKept ==
  /\ Len(promotions) <= Len(promotions')
  /\ \A n \in Rows : promotions'[n] \in {promotions[n], Close(promotions[n])}

\* What speaks for a proposal goes on speaking for it.
LEMMA BackedKept ==
  ASSUME SupportKept, NEW p \in Proposals, Backed(p)
  PROVE  Backed(p)'
BY DEF SupportKept, Backed, Supported, Exists

\* A row that is kept says the same, but for its status.
LEMMA RowKept ==
  ASSUME PromotionsTypeOK, RowsKept, NEW n \in Rows
  PROVE  /\ n \in Rows'
         /\ promotions[n] \in Promotion
         /\ promotions'[n].proposal = promotions[n].proposal
         /\ promotions'[n].from = promotions[n].from
         /\ promotions'[n].to = promotions[n].to
         /\ promotions'[n].undoes = promotions[n].undoes
         /\ promotions[n].status = "rolled_back" => promotions'[n].status = "rolled_back"
<1>1. promotions[n] \in Promotion
  BY ElementOfSeq DEF PromotionsTypeOK, Rows
<1>2. n \in Rows'
  <2>1. Len(promotions) \in Nat /\ Len(promotions') >= Len(promotions)
    BY DEF PromotionsTypeOK, RowsKept
  <2>2. QED
    BY <2>1 DEF Rows, RowsKept
<1>3. promotions'[n] = promotions[n] \/ promotions'[n] = Close(promotions[n])
  BY DEF RowsKept
<1>4. QED
  BY <1>1, <1>2, <1>3, CloseRow

\* What a session has read stays founded.
LEMMA FoundedKept ==
  ASSUME PromotionsTypeOK, SupportKept, RowsKept, NEW w \in Work, Founded(w)
  PROVE  Founded(w)'
<1>0. Len(promotions) \in Nat
  BY DEF PromotionsTypeOK
<1>1. CASE w \in [op : {"propose"}, baseline : Models]
  BY <1>1 DEF Founded
<1>2. CASE w.op \in {"evaluate", "approve", "promote"} /\ w.proposal \in Proposals
  BY <1>2, BackedKept DEF Founded, SupportKept
<1>3. CASE /\ w.op = "supersede" /\ w.proposal \in Proposals
           /\ w.row \in 0..MaxPromotions
  <2>1. w.proposal \in approvals' /\ Backed(w.proposal)'
    BY <1>3, BackedKept DEF Founded, SupportKept
  <2>2. w.row = 0 \/ w.row \in Rows
    BY <1>0, <1>3 DEF Founded, Rows
  <2>3. CASE w.row = 0
    <3>1. w.from = Base /\ 0 \in 0..Len(promotions')
      BY <1>0, <1>3, <2>3 DEF Founded, RowsKept
    <3>2. QED
      BY <1>3, <2>1, <2>3, <3>1 DEF Founded
  <2>4. CASE w.row \in Rows
    <3>1. w.row # 0 /\ w.row \in 1..Len(promotions') /\ promotions'[w.row].to = promotions[w.row].to
      BY <2>4, <1>0, RowKept DEF Rows
    <3>2. w.row \in 0..Len(promotions')
      BY <3>1
    <3>3. w.from = promotions[w.row].to
      BY <1>3, <3>1 DEF Founded
    <3>4. QED
      BY <1>3, <2>1, <3>1, <3>2, <3>3 DEF Founded
  <2>5. QED
    BY <2>2, <2>3, <2>4
<1>4. CASE w.op = "rollback"
  BY <1>4, RowKept DEF Founded
<1>5. QED
  BY <1>1, <1>2, <1>3, <1>4 DEF Work

\* Sessions that are not at their write keep what they have read.
LEMMA WorkKept ==
  ASSUME PromotionInv, SupportKept, RowsKept, NEW s \in Sessions, NEW w,
         pc' = [pc EXCEPT ![s] = w], w # Idle => w \in Work /\ Founded(w)'
  PROVE  WorkFounded' /\ pc' \in [Sessions -> Work \cup {Idle}]
<1>1. pc \in [Sessions -> Work \cup {Idle}] /\ PromotionsTypeOK
  BY DEF PromotionInv, PromotionsTypeOK
<1>2. ASSUME NEW t \in Sessions, NEW v \in Work, pc'[t] = v
      PROVE  Founded(v)'
  <2>1. CASE t = s
    <3>1. v = w /\ w # Idle
      BY <1>1, <1>2, <2>1, IdleAssumption
    <3>2. QED
      BY <3>1
  <2>2. CASE t # s
    <3>1. pc[t] = v
      BY <1>1, <1>2, <2>2
    <3>2. Founded(v)
      BY <3>1 DEF PromotionInv, WorkFounded
    <3>3. QED
      BY <1>1, <3>2, FoundedKept
  <2>3. QED
    BY <2>1, <2>2
<1>3. WorkFounded' /\ pc' \in [Sessions -> Work \cup {Idle}]
  BY <1>1, <1>2 DEF WorkFounded
<1>4. QED
  BY <1>3

\* A step that adds no promotion leaves those there are founded.
LEMMA SameRows ==
  ASSUME PromotionInv, SupportKept, promotions' = promotions
  PROVE  RowsKept /\ PromotionsFounded' /\ PromotionsFormChains'
<1>1. PromotionsTypeOK
  BY DEF PromotionInv
<1>2. RowsKept
  BY <1>1 DEF RowsKept, PromotionsTypeOK
<1>3. \A n \in Rows : promotions[n] \in Promotion
  BY <1>1, ElementOfSeq DEF PromotionsTypeOK, Rows
<1>4. \A n \in Rows : promotions[n].proposal \in Proposals
  BY <1>3 DEF Promotion
<1>5. PromotionsFounded'
  BY <1>4, BackedKept DEF PromotionInv, PromotionsFounded, SupportKept, Rows
<1>6. PromotionsFormChains'
  BY DEF PromotionInv, PromotionsFormChains
<1>7. QED
  BY <1>2, <1>5, <1>6

\* A status is written that is borne out by experiments and reviews.
LEMMA StatusWritten ==
  ASSUME PromotionInv, NEW p \in Proposals, NEW status \in ProposalStatuses \ {"absent"},
         SetStatus(p, status), experiments' = experiments, approvals \subseteq approvals',
         status \in {"recommended", "approved"} => Backed(p),
         status = "approved" => p \in approvals'
  PROVE  SupportKept /\ StatusFounded' /\ proposal' \in [Proposals -> Proposal]
<1>1. proposal \in [Proposals -> Proposal] /\ StatusFounded
  BY DEF PromotionInv, PromotionsTypeOK
<1>2. /\ proposal' = [proposal EXCEPT ![p].status = status]
      /\ proposal' \in [Proposals -> Proposal]
  BY <1>1 DEF SetStatus, Proposal
<1>3. \A q \in Proposals :
        /\ proposal'[q].baseline = proposal[q].baseline
        /\ proposal'[q].suite = proposal[q].suite
        /\ proposal'[q].status = IF q = p THEN status ELSE proposal[q].status
  BY <1>1, <1>2 DEF Proposal
<1>4. SupportKept
  BY <1>3 DEF SupportKept, Exists
<1>5. StatusFounded'
  <2>1. \A e \in experiments' : e.baseline = Base
    BY <1>1 DEF StatusFounded
  <2>2. ASSUME NEW q \in Proposals, proposal'[q].suite # NoSuite
        PROVE  /\ Exists(q)' /\ proposal'[q].baseline = Base
               /\ [baseline |-> Base, candidate |-> CandidateOf[q],
                   suite |-> proposal'[q].suite] \in experiments'
    BY <1>1, <1>3, <2>2 DEF StatusFounded, Exists
  <2>3. ASSUME NEW q \in Proposals, proposal'[q].status \in {"recommended", "approved"}
        PROVE  Backed(q)'
    <3>1. Backed(q)
      BY <1>1, <1>3, <2>3 DEF StatusFounded
    <3>2. QED
      BY <1>4, <3>1, BackedKept
  <2>4. ASSUME NEW q \in Proposals, proposal'[q].status = "approved"
        PROVE  q \in approvals'
    BY <1>1, <1>3, <2>4 DEF StatusFounded
  <2>5. QED
    BY <2>1, <2>2, <2>3, <2>4 DEF StatusFounded
<1>6. QED
  BY <1>2, <1>4, <1>5

----------------------------------------------------------------------------
(* The steps that add no promotion *)

\* A step that leaves the rows alone is proved by its statuses, its types and the
\* work of one session.
LEMMA StepWithoutRows ==
  ASSUME PromotionInv, SupportKept, StatusFounded', WorkFounded',
         pc' \in [Sessions -> Work \cup {Idle}], proposal' \in [Proposals -> Proposal],
         experiments' \subseteq Experiment, approvals' \subseteq Proposals,
         promotions' = promotions
  PROVE  PromotionInv'
<1>1. PromotionsTypeOK'
  BY DEF PromotionInv, PromotionsTypeOK
<1>2. PromotionsFounded' /\ PromotionsFormChains'
  BY SameRows
<1>3. QED
  BY <1>1, <1>2 DEF PromotionInv

\* A read, or the end of work, leaves the tables alone.
LEMMA TablesUnchanged ==
  ASSUME PromotionInv, UNCHANGED <<proposal, experiments, promotions, approvals>>,
         NEW s \in Sessions, NEW w, pc' = [pc EXCEPT ![s] = w],
         w # Idle => w \in Work /\ Founded(w)
  PROVE  PromotionInv'
<1>1. PromotionsTypeOK /\ StatusFounded
  BY DEF PromotionInv
<1>2. SupportKept
  BY DEF SupportKept, Exists
<1>3. RowsKept
  BY <1>1, <1>2, SameRows
<1>4. w # Idle => w \in Work /\ Founded(w)'
  BY <1>1, <1>2, <1>3, FoundedKept
<1>5. WorkFounded' /\ pc' \in [Sessions -> Work \cup {Idle}]
  BY <1>2, <1>3, <1>4, WorkKept
<1>6. StatusFounded'
  BY <1>1 DEF StatusFounded, Backed, Supported, Exists
<1>7. QED
  BY <1>1, <1>2, <1>5, <1>6, StepWithoutRows DEF PromotionsTypeOK

\* The reads take what the tables bear out.
LEMMA ReadStep ==
  ASSUME PromotionInv, NEW s \in Sessions,
         \/ ProposeRead(s)
         \/ \E p \in Proposals :
              EvaluateRead(s, p) \/ PromoteRead(s, p) \/ ApproveRead(s, p)
         \/ \E n \in Rows : RollbackRead(s, n)
  PROVE  PromotionInv'
<1> USE PromotionsAssumption
<1>1. PromotionsTypeOK /\ StatusFounded
  BY DEF PromotionInv
<1>2. Len(promotions) \in Nat /\ Len(promotions) <= MaxPromotions
      /\ \A k \in Rows : promotions[k] \in Promotion
  BY <1>1, ElementOfSeq DEF PromotionsTypeOK, Rows
<1>3. ASSUME NEW w \in Work, Founded(w), Read(s, w)
      PROVE  PromotionInv'
  BY <1>3, TablesUnchanged DEF Read
<1>4. CASE ProposeRead(s)
  <2>1. PICK m \in Models : Read(s, [op |-> "propose", baseline |-> m])
    <3>1. CASE Read(s, [op |-> "propose", baseline |-> Base])
      BY <3>1 DEF Models
    <3>2. CASE \E k \in Active : Read(s, [op |-> "propose", baseline |-> promotions[k].to])
      <4>1. \A k \in Active : promotions[k].to \in Models
        BY <1>2 DEF Active, Rows, Promotion
      <4>2. QED
        BY <3>2, <4>1
    <3>3. QED
      BY <1>4, <3>1, <3>2 DEF ProposeRead
  <2> DEFINE w == [op |-> "propose", baseline |-> m]
  <2>2. w \in Work /\ Founded(w)
    BY DEF Work, Founded
  <2>3. QED
    BY <1>3, <2>1, <2>2
<1>5. ASSUME NEW p \in Proposals, EvaluateRead(s, p)
      PROVE  PromotionInv'
  <2> DEFINE to == IF proposal[p].suite \in Recommends[p] THEN "recommended" ELSE "blocked"
             w == [op |-> "evaluate", proposal |-> p, to |-> to]
  <2>1. Exists(p) /\ Read(s, w)
    BY <1>5 DEF EvaluateRead
  <2>2. to = "recommended" => Backed(p)
    <3>1. proposal[p].suite \in Recommends[p] => proposal[p].suite # NoSuite
      OBVIOUS
    <3>2. QED
      BY <1>1, <2>1, <3>1 DEF StatusFounded, Backed, Supported
  <2>3. w \in Work
    BY DEF Work
  <2>4. Founded(w)
    BY <2>1, <2>2 DEF Founded
  <2>5. QED
    BY <1>3, <2>1, <2>3, <2>4
<1>6. ASSUME NEW p \in Proposals, PromoteRead(s, p)
      PROVE  PromotionInv'
  <2> DEFINE w == [op |-> "promote", proposal |-> p]
  <2>1. proposal[p].status = "approved" /\ Read(s, w)
    BY <1>6 DEF PromoteRead
  <2>2. w \in Work
    BY DEF Work
  <2>3. Founded(w)
    BY <1>1, <2>1 DEF Founded, StatusFounded
  <2>4. QED
    BY <1>3, <2>1, <2>2, <2>3
<1>7. ASSUME NEW p \in Proposals, ApproveRead(s, p)
      PROVE  PromotionInv'
  <2> DEFINE w == [op |-> "approve", proposal |-> p]
  <2>1. proposal[p].status = "recommended" /\ Read(s, w)
    BY <1>7 DEF ApproveRead, Approvable
  <2>2. w \in Work
    BY DEF Work
  <2>3. Founded(w)
    BY <1>1, <2>1 DEF Founded, StatusFounded
  <2>4. QED
    BY <1>3, <2>1, <2>2, <2>3
<1>8. ASSUME NEW n \in Rows, RollbackRead(s, n)
      PROVE  PromotionInv'
  <2> DEFINE w == [op |-> "rollback", row |-> n]
  <2>1. n \in 1..MaxPromotions
    BY <1>2 DEF Rows
  <2>2. w \in Work /\ Founded(w) /\ Read(s, w)
    BY <1>8, <2>1 DEF Work, Founded, RollbackRead
  <2>3. QED
    BY <1>3, <2>2
<1>9. QED
  BY <1>4, <1>5, <1>6, <1>7, <1>8

\* The second read of a promotion replaces the row that is then in effect, or
\* the baseline its proposal has.
LEMMA PromoteCurrentStep ==
  ASSUME PromotionInv, NEW s \in Sessions, PromoteCurrent(s)
  PROVE  PromotionInv'
<1> USE PromotionsAssumption
<1>1. PromotionsTypeOK /\ pc \in [Sessions -> Work \cup {Idle}]
  BY DEF PromotionInv, PromotionsTypeOK
<1>2. Len(promotions) \in Nat /\ Len(promotions) <= MaxPromotions
      /\ \A k \in Rows : promotions[k] \in Promotion
  BY <1>1, ElementOfSeq DEF PromotionsTypeOK, Rows
<1>3. PICK v \in Work : pc[s] = v /\ v.op = "promote"
  BY <1>1 DEF PromoteCurrent, At
<1>4. v.proposal \in Proposals
  BY <1>3 DEF Work
<1>5. v.proposal \in approvals /\ Backed(v.proposal)
  BY <1>3 DEF PromotionInv, WorkFounded, Founded
<1> DEFINE W(n, from) == [op |-> "supersede", proposal |-> v.proposal, row |-> n, from |-> from]
<1>6. ASSUME NEW n \in 0..Len(promotions), NEW from \in Models,
             from = IF n = 0 THEN Base ELSE promotions[n].to,
             pc' = [pc EXCEPT ![s] = W(n, from)]
      PROVE  PromotionInv'
  <2>1. n \in 0..MaxPromotions
    BY <1>2
  <2>2. W(n, from) \in Work
    BY <1>4, <2>1 DEF Work
  <2>3. Founded(W(n, from))
    BY <1>5, <1>6 DEF Founded
  <2>4. QED
    BY <1>6, <2>2, <2>3, TablesUnchanged DEF PromoteCurrent
<1>7. CASE pc' = [pc EXCEPT ![s] = W(0, proposal[v.proposal].baseline)]
  <2>1. proposal[v.proposal].baseline = Base /\ Base \in Models /\ 0 \in 0..Len(promotions)
    BY <1>2, <1>5 DEF Backed, Models
  <2>2. pc' = [pc EXCEPT ![s] = W(0, Base)]
    BY <1>7, <2>1
  <2> HIDE DEF W
  <2>3. QED
    BY <1>6, <2>1, <2>2
<1>8. CASE \E n \in Active : pc' = [pc EXCEPT ![s] = W(n, promotions[n].to)]
  <2>1. PICK n \in Active : pc' = [pc EXCEPT ![s] = W(n, promotions[n].to)]
    BY <1>8
  <2>2. n \in Rows /\ n \in 0..Len(promotions) /\ n # 0
    BY <1>2 DEF Active, Rows
  <2>3. promotions[n].to \in Models
    BY <1>2, <2>2 DEF Promotion
  <2>4. QED
    BY <1>6, <2>1, <2>2, <2>3
<1>9. QED
  BY <1>3, <1>7, <1>8 DEF PromoteCurrent

\* A proposal that is generated was not there, and nothing speaks for it yet.
LEMMA ProposeWriteStep ==
  ASSUME PromotionInv, NEW s \in Sessions, NEW p \in Proposals, ProposeWrite(s, p)
  PROVE  PromotionInv'
<1> USE PromotionsAssumption
<1>1. PromotionsTypeOK /\ StatusFounded /\ pc \in [Sessions -> Work \cup {Idle}]
  BY DEF PromotionInv, PromotionsTypeOK
<1>2. PICK m \in Models :
        proposal' = [proposal EXCEPT ![p] = [status |-> "draft", baseline |-> m,
                                             suite |-> NoSuite]]
  <2>1. PICK v \in Work : pc[s] = v /\ v.op = "propose"
    BY <1>1 DEF ProposeWrite, At
  <2>2. v.baseline \in Models
    BY <2>1 DEF Work
  <2>3. QED
    BY <2>1, <2>2 DEF ProposeWrite
<1>3. proposal' \in [Proposals -> Proposal]
      /\ \A q \in Proposals : q # p => proposal'[q] = proposal[q]
      /\ proposal'[p].status = "draft" /\ proposal'[p].suite = NoSuite
  BY <1>1, <1>2 DEF PromotionsTypeOK, Proposal, ProposalStatuses
<1>4. SupportKept
  BY <1>3 DEF SupportKept, ProposeWrite, Exists
<1>5. StatusFounded'
  BY <1>1, <1>3, <1>4, BackedKept DEF StatusFounded, ProposeWrite, Exists
<1>6. WorkFounded' /\ pc' \in [Sessions -> Work \cup {Idle}]
  <2>1. RowsKept
    BY <1>4, SameRows DEF ProposeWrite
  <2>2. QED
    BY <1>4, <2>1, WorkKept DEF ProposeWrite, Done
<1>7. QED
  BY <1>1, <1>3, <1>4, <1>5, <1>6, StepWithoutRows DEF ProposeWrite, PromotionsTypeOK

\* Experiments, their attachment and refusals, which leave the work of sessions alone.
LEMMA ExperimentStep ==
  ASSUME PromotionInv,
         \/ \E m \in Models, c \in Candidates, suite \in Suites : RunExperiment(m, c, suite)
         \/ \E p \in Proposals, e \in experiments : Attach(p, e)
         \/ \E p \in Proposals, d \in Refusals : Refuse(p, d)
  PROVE  PromotionInv'
<1> USE PromotionsAssumption
<1>1. PromotionsTypeOK /\ StatusFounded /\ pc \in [Sessions -> Work \cup {Idle}]
  BY DEF PromotionInv, PromotionsTypeOK
<1>2. ASSUME SupportKept, StatusFounded', pc' = pc, proposal' \in [Proposals -> Proposal],
             experiments' \subseteq Experiment, approvals' = approvals,
             promotions' = promotions
      PROVE  PromotionInv'
  <2>1. RowsKept
    BY <1>2, SameRows
  <2>2. WorkFounded'
    <3>1. ASSUME NEW t \in Sessions, NEW w \in Work, pc'[t] = w
          PROVE  Founded(w)'
      BY <1>1, <1>2, <2>1, <3>1, FoundedKept DEF PromotionInv, WorkFounded
    <3>2. QED
      BY <3>1 DEF WorkFounded
  <2>3. QED
    BY <1>1, <1>2, <2>2, StepWithoutRows DEF PromotionsTypeOK
<1>3. ASSUME NEW m \in Models, NEW c \in Candidates, NEW suite \in Suites,
             RunExperiment(m, c, suite)
      PROVE  PromotionInv'
  <2> DEFINE e == [baseline |-> m, candidate |-> c, suite |-> suite]
  <2>1. experiments' = experiments \cup {e} /\ m = Base
    BY <1>3 DEF RunExperiment, Comparable
  <2>2. experiments' \subseteq Experiment
    BY <1>1, <2>1 DEF Experiment, PromotionsTypeOK, Models
  <2>3. PICK detached \in SUBSET Proposals :
          proposal' = [p \in Proposals |->
            IF p \in detached THEN [proposal[p] EXCEPT !.suite = NoSuite] ELSE proposal[p]]
    BY <1>3 DEF RunExperiment, Attached
  <2>4. \A p \in Proposals : /\ proposal'[p].status = proposal[p].status
                             /\ proposal'[p].baseline = proposal[p].baseline
                             /\ proposal'[p].suite \in {proposal[p].suite, NoSuite}
                             /\ proposal'[p] \in Proposal
    BY <1>1, <2>3 DEF PromotionsTypeOK, Proposal
  <2>5. proposal' \in [Proposals -> Proposal]
    BY <2>3, <2>4
  <2>6. SupportKept
    BY <1>3, <2>1, <2>4 DEF SupportKept, RunExperiment, Exists
  <2>7. StatusFounded'
    <3>1. \A x \in experiments' : x.baseline = Base
      BY <1>1, <2>1 DEF StatusFounded
    <3>2. ASSUME NEW q \in Proposals, proposal'[q].suite # NoSuite
          PROVE  /\ Exists(q)' /\ proposal'[q].baseline = Base
                 /\ [baseline |-> Base, candidate |-> CandidateOf[q],
                     suite |-> proposal'[q].suite] \in experiments'
      BY <1>1, <2>1, <2>4, <3>2 DEF StatusFounded, Exists
    <3>3. ASSUME NEW q \in Proposals, proposal'[q].status \in {"recommended", "approved"}
          PROVE  Backed(q)' /\ (proposal'[q].status = "approved" => q \in approvals')
      BY <1>1, <1>3, <2>4, <2>6, <3>3, BackedKept DEF StatusFounded, RunExperiment
    <3>4. QED
      BY <3>1, <3>2, <3>3 DEF StatusFounded
  <2>8. QED
    BY <1>2, <1>3, <2>2, <2>5, <2>6, <2>7 DEF RunExperiment
<1>4. ASSUME NEW p \in Proposals, NEW e \in experiments, Attach(p, e)
      PROVE  PromotionInv'
  <2>1. e \in Experiment /\ e.suite \in Suites /\ e.suite # NoSuite
        /\ e = [baseline |-> e.baseline, candidate |-> e.candidate, suite |-> e.suite]
    BY <1>1 DEF PromotionsTypeOK, Experiment
  <2>2. e.baseline = Base /\ proposal[p].baseline = Base /\ e.candidate = CandidateOf[p]
    BY <1>1, <1>4 DEF Attach, StatusFounded
  <2>3. proposal' = [proposal EXCEPT ![p] = [@ EXCEPT !.status = "experiment_ready",
                                                      !.suite = e.suite]]
    BY <1>4 DEF Attach
  <2>4. /\ proposal' \in [Proposals -> Proposal]
        /\ \A q \in Proposals : q # p => proposal'[q] = proposal[q]
        /\ proposal'[p].status = "experiment_ready" /\ proposal'[p].suite = e.suite
        /\ proposal'[p].baseline = proposal[p].baseline
    BY <1>1, <2>1, <2>3 DEF PromotionsTypeOK, Proposal, ProposalStatuses
  <2>5. SupportKept
    BY <1>4, <2>4 DEF SupportKept, Attach, Exists
  <2>6. StatusFounded'
    <3>1. ASSUME NEW q \in Proposals, proposal'[q].suite # NoSuite
          PROVE  /\ Exists(q)' /\ proposal'[q].baseline = Base
                 /\ [baseline |-> Base, candidate |-> CandidateOf[q],
                     suite |-> proposal'[q].suite] \in experiments
      BY <1>1, <2>1, <2>2, <2>4, <3>1 DEF StatusFounded, Exists
    <3>2. ASSUME NEW q \in Proposals, proposal'[q].status \in {"recommended", "approved"}
          PROVE  Backed(q)' /\ (proposal'[q].status = "approved" => q \in approvals)
      BY <1>1, <2>4, <2>5, <3>2, BackedKept DEF StatusFounded
    <3>3. QED
      BY <1>1, <1>4, <3>1, <3>2 DEF StatusFounded, Attach
  <2>7. QED
    BY <1>1, <1>2, <1>4, <2>4, <2>5, <2>6 DEF Attach, PromotionsTypeOK
<1>5. ASSUME NEW p \in Proposals, NEW d \in Refusals, Refuse(p, d)
      PROVE  PromotionInv'
  <2>1. StatusOf(d) \in {"rejected", "blocked"}
    BY DEF StatusOf
  <2>2. SupportKept /\ StatusFounded' /\ proposal' \in [Proposals -> Proposal]
    BY <1>5, <2>1, StatusWritten DEF Refuse, ProposalStatuses
  <2>3. QED
    BY <1>1, <1>2, <1>5, <2>2 DEF Refuse, PromotionsTypeOK
<1>6. QED
  BY <1>3, <1>4, <1>5

\* Evaluations and approvals write what their reads have borne out.
LEMMA StatusStep ==
  ASSUME PromotionInv, NEW s \in Sessions, EvaluateWrite(s) \/ ApproveWrite(s)
  PROVE  PromotionInv'
<1>1. PromotionsTypeOK /\ pc \in [Sessions -> Work \cup {Idle}]
  BY DEF PromotionInv, PromotionsTypeOK
<1>2. ASSUME SupportKept, StatusFounded', proposal' \in [Proposals -> Proposal],
             UNCHANGED <<experiments, promotions>>, approvals' \subseteq Proposals, Done(s)
      PROVE  PromotionInv'
  <2>1. RowsKept
    BY <1>2, SameRows
  <2>2. WorkFounded' /\ pc' \in [Sessions -> Work \cup {Idle}]
    BY <1>2, <2>1, WorkKept DEF Done
  <2>3. QED
    BY <1>1, <1>2, <2>2, StepWithoutRows DEF PromotionsTypeOK
<1>3. CASE EvaluateWrite(s)
  <2>1. PICK v \in Work : pc[s] = v /\ v.op = "evaluate"
    BY <1>1, <1>3 DEF EvaluateWrite, At
  <2>2. v.proposal \in Proposals /\ v.to \in {"recommended", "blocked"}
    BY <2>1 DEF Work
  <2>3. v.to = "recommended" => Backed(v.proposal)
    BY <2>1 DEF PromotionInv, WorkFounded, Founded
  <2>4. SetStatus(v.proposal, v.to) /\ UNCHANGED <<experiments, promotions, approvals>> /\ Done(s)
    BY <1>3, <2>1 DEF EvaluateWrite
  <2>5. SupportKept /\ StatusFounded' /\ proposal' \in [Proposals -> Proposal]
    BY <2>2, <2>3, <2>4, StatusWritten DEF ProposalStatuses
  <2>6. QED
    BY <1>1, <1>2, <2>4, <2>5 DEF PromotionsTypeOK
<1>4. CASE ApproveWrite(s)
  <2>1. PICK v \in Work : pc[s] = v /\ v.op = "approve"
    BY <1>1, <1>4 DEF ApproveWrite, At
  <2>2. v.proposal \in Proposals
    BY <2>1 DEF Work
  <2>3. Backed(v.proposal)
    BY <2>1 DEF PromotionInv, WorkFounded, Founded
  <2>4. /\ SetStatus(v.proposal, "approved") /\ approvals' = approvals \cup {v.proposal}
        /\ UNCHANGED <<experiments, promotions>> /\ Done(s)
    BY <1>4, <2>1 DEF ApproveWrite
  <2>5. approvals \subseteq approvals' /\ approvals' \subseteq Proposals
    BY <1>1, <2>2, <2>4 DEF PromotionsTypeOK
  <2>6. SupportKept /\ StatusFounded' /\ proposal' \in [Proposals -> Proposal]
    BY <2>2, <2>3, <2>4, <2>5, StatusWritten DEF ProposalStatuses
  <2>7. QED
    BY <1>2, <2>4, <2>5, <2>6
<1>5. QED
  BY <1>3, <1>4

----------------------------------------------------------------------------
(* The steps that add a promotion *)

\* A row is added that replaces the one it closes, or the baseline when it closes
\* none, and that is a promotion of a proposal that is spoken for or undoes
\* the row it closes.
LEMMA SupersedeStep ==
  ASSUME PromotionInv, RoomForPromotion, NEW n \in 0..Len(promotions), NEW r \in Promotion,
         Supersede(n, r),
         r.from = IF n = 0 THEN Base ELSE promotions[n].to,
         r.undoes = 0 => r.proposal \in approvals /\ Backed(r.proposal),
         r.undoes # 0 => n \in Rows /\ r.undoes = n /\ r.to = promotions[n].from,
         NEW p \in Proposals, NEW status \in {"promoted", "rolled_back"}, SetStatus(p, status),
         UNCHANGED <<experiments, approvals>>,
         NEW s \in Sessions, Done(s)
  PROVE  PromotionInv' /\ RowsKept
<1> DEFINE new == Len(promotions) + 1
<1>1. PromotionsTypeOK /\ Len(promotions) \in Nat
  BY DEF PromotionInv, PromotionsTypeOK
<1>2. /\ promotions' \in Seq(Promotion)
      /\ Len(promotions') = new /\ Len(promotions') <= MaxPromotions
      /\ promotions'[new] = r
      /\ \A m \in Rows : promotions'[m] = IF m = n THEN Close(promotions[m]) ELSE promotions[m]
  BY <1>1, SupersedeRows
<1>3. RowsKept
  BY <1>1, <1>2 DEF RowsKept
<1>4. SupportKept /\ StatusFounded' /\ proposal' \in [Proposals -> Proposal]
  BY StatusWritten DEF ProposalStatuses
<1>5. Rows' = Rows \cup {new} /\ new \notin Rows
  BY <1>1, <1>2 DEF Rows
<1>6. PromotionsFounded'
  <2>1. ASSUME NEW m \in Rows', NEW q \in Proposals,
               promotions'[m].undoes = 0, promotions'[m].proposal = q
        PROVE  q \in approvals /\ Backed(q)
    <3>1. CASE m = new
      BY <1>2, <2>1, <3>1
    <3>2. CASE m \in Rows
      <4>1. promotions[m].proposal = q /\ promotions[m].undoes = 0
        BY <1>1, <1>3, <2>1, <3>2, RowKept
      <4>2. QED
        BY <3>2, <4>1 DEF PromotionInv, PromotionsFounded
    <3>3. QED
      BY <1>5, <3>1, <3>2
  <2>2. QED
    BY <1>4, <2>1, BackedKept DEF PromotionsFounded
<1>7. PromotionsFormChains'
  <2> DEFINE Chain(k, row) ==
        /\ row.from = Base \/ \E m \in 1..(k - 1) :
             promotions'[m].to = row.from /\ promotions'[m].status = "rolled_back"
        /\ row.undoes # 0 =>
             /\ row.undoes < k
             /\ promotions'[row.undoes].status = "rolled_back"
             /\ row.to = promotions'[row.undoes].from
  <2>0. DOMAIN promotions = Rows /\ DOMAIN promotions' = Rows'
    BY <1>1, <1>2 DEF Rows, PromotionsTypeOK
  <2>1. n \in Rows => /\ promotions'[n].status = "rolled_back"
                      /\ promotions'[n].to = promotions[n].to
                      /\ promotions'[n].from = promotions[n].from
    BY <1>1, <1>2, CloseRow, <1>3, RowKept
  <2>2. Chain(new, r)
    <3>1. n = 0 \/ (n \in Rows /\ n \in 1..(new - 1) /\ n < new)
      BY <1>1 DEF Rows
    <3>2. QED
      BY <2>1, <3>1
  <2>3. ASSUME NEW k \in Rows
        PROVE  Chain(k, promotions'[k])
    <3>1. /\ promotions'[k].from = promotions[k].from /\ promotions'[k].to = promotions[k].to
          /\ promotions'[k].undoes = promotions[k].undoes
          /\ promotions[k].undoes \in Nat
      BY <1>1, <1>3, RowKept DEF Promotion
    <3>2. \/ promotions[k].from = Base
          \/ \E m \in 1..(k - 1) :
               promotions[m].to = promotions[k].from /\ promotions[m].status = "rolled_back"
      BY <2>0 DEF PromotionInv, PromotionsFormChains
    <3>3. promotions'[k].from = Base \/ \E m \in 1..(k - 1) :
            promotions'[m].to = promotions'[k].from /\ promotions'[m].status = "rolled_back"
      <4>1. \A m \in 1..(k - 1) : m \in Rows
        BY <1>1 DEF Rows
      <4>2. QED
        BY <1>1, <1>3, <3>1, <3>2, <4>1, RowKept
    <3>4. ASSUME promotions'[k].undoes # 0
          PROVE  /\ promotions'[k].undoes < k
                 /\ promotions'[promotions'[k].undoes].status = "rolled_back"
                 /\ promotions'[k].to = promotions'[promotions'[k].undoes].from
      <4> DEFINE u == promotions[k].undoes
      <4>1. /\ u < k /\ promotions[u].status = "rolled_back"
            /\ promotions[k].to = promotions[u].from
        BY <2>0, <3>1, <3>4 DEF PromotionInv, PromotionsFormChains
      <4>2. u \in Rows
        BY <1>1, <3>1, <3>4, <4>1 DEF Rows
      <4>3. promotions'[u].status = "rolled_back" /\ promotions'[u].from = promotions[u].from
        BY <1>1, <1>3, <4>1, <4>2, RowKept
      <4>4. QED
        BY <3>1, <4>1, <4>3
    <3>5. QED
      BY <3>3, <3>4
  <2>4. \A k \in DOMAIN promotions' : Chain(k, promotions'[k])
    BY <1>2, <1>5, <2>0, <2>2, <2>3
  <2>5. QED
    BY <2>4 DEF PromotionsFormChains
<1>8. WorkFounded' /\ pc' \in [Sessions -> Work \cup {Idle}]
  BY <1>3, <1>4, WorkKept DEF Done
<1>9. PromotionsTypeOK'
  BY <1>1, <1>2, <1>4, <1>8 DEF PromotionsTypeOK
<1>10. QED
  BY <1>3, <1>4, <1>6, <1>7, <1>8, <1>9 DEF PromotionInv

\* A promotion replaces what its session has read to be in effect.
LEMMA PromoteWriteStep ==
  ASSUME PromotionInv, NEW s \in Sessions, NEW at \in Times, PromoteWrite(s, at)
  PROVE  PromotionInv' /\ RowsKept
<1> USE PromotionsAssumption
<1>1. PromotionsTypeOK /\ Len(promotions) \in Nat
      /\ pc \in [Sessions -> Work \cup {Idle}]
      /\ \A k \in Rows : promotions[k] \in Promotion
  BY ElementOfSeq DEF PromotionInv, PromotionsTypeOK, Rows
<1>2. PICK v \in Work : pc[s] = v /\ v.op = "supersede"
  BY <1>1 DEF PromoteWrite, At
<1>3. v.proposal \in Proposals /\ v.from \in Models
  BY <1>2 DEF Work
<1>4. /\ v.proposal \in approvals /\ Backed(v.proposal)
      /\ v.row \in 0..Len(promotions)
      /\ v.from = IF v.row = 0 THEN Base ELSE promotions[v.row].to
  BY <1>2 DEF PromotionInv, WorkFounded, Founded
<1>5. /\ Promoted(v, at) \in Promotion
      /\ Promoted(v, at).from = v.from /\ Promoted(v, at).undoes = 0
      /\ Promoted(v, at).proposal = v.proposal
  <2>1. CandidateOf[v.proposal] \in Models /\ 0 \in 0..MaxPromotions
    BY <1>3 DEF Models
  <2>2. QED
    BY <1>3, <2>1 DEF Promoted, Promotion
<1>6. /\ RoomForPromotion /\ Supersede(v.row, Promoted(v, at))
      /\ SetStatus(v.proposal, "promoted") /\ Done(s)
      /\ UNCHANGED <<experiments, approvals>>
  BY <1>2 DEF PromoteWrite
<1>7. QED
  BY <1>3, <1>4, <1>5, <1>6, SupersedeStep

\* A restoration undoes the promotion that its session has read.
LEMMA RollbackWriteStep ==
  ASSUME PromotionInv, NEW s \in Sessions, NEW at \in Times, RollbackWrite(s, at)
  PROVE  PromotionInv' /\ RowsKept
<1> USE PromotionsAssumption
<1>1. PromotionsTypeOK /\ Len(promotions) \in Nat /\ Len(promotions) <= MaxPromotions
      /\ pc \in [Sessions -> Work \cup {Idle}]
      /\ \A k \in Rows : promotions[k] \in Promotion
  BY ElementOfSeq DEF PromotionInv, PromotionsTypeOK, Rows
<1>2. PICK v \in Work : pc[s] = v /\ v.op = "rollback"
  BY <1>1 DEF RollbackWrite, At
<1>3. v.row \in Rows
  BY <1>2 DEF PromotionInv, WorkFounded, Founded
<1> DEFINE n == v.row
<1>4. /\ n # 0 /\ n \in 0..Len(promotions) /\ n \in 0..MaxPromotions
      /\ promotions[n].proposal \in Proposals
      /\ promotions[n].from \in Models /\ promotions[n].to \in Models
  BY <1>1, <1>3 DEF Rows, Promotion
<1>5. /\ Restored(n, at) \in Promotion
      /\ Restored(n, at).from = promotions[n].to /\ Restored(n, at).to = promotions[n].from
      /\ Restored(n, at).undoes = n
  BY <1>4 DEF Restored, Promotion
<1>6. /\ RoomForPromotion /\ Supersede(n, Restored(n, at))
      /\ SetStatus(promotions[n].proposal, "rolled_back") /\ Done(s)
      /\ UNCHANGED <<experiments, approvals>>
  BY <1>2 DEF RollbackWrite
<1>7. PICK p \in Proposals : p = promotions[n].proposal
  BY <1>4
<1>8. SetStatus(p, "rolled_back")
  BY <1>6, <1>7
<1>9. QED
  BY <1>3, <1>4, <1>5, <1>6, <1>8, SupersedeStep

----------------------------------------------------------------------------
(* The theorems *)

LEMMA NextPromotionInv == PromotionInv /\ [Next]_vars => PromotionInv'
<1> SUFFICES ASSUME PromotionInv, [Next]_vars PROVE PromotionInv'
  OBVIOUS
<1>0. Rows = DOMAIN promotions
  BY DEF PromotionInv, PromotionsTypeOK, Rows
<1>1. ASSUME \/ \E m \in Models, c \in Candidates, suite \in Suites : RunExperiment(m, c, suite)
             \/ \E p \in Proposals, e \in experiments : Attach(p, e)
             \/ \E p \in Proposals, d \in Refusals : Refuse(p, d)
      PROVE  PromotionInv'
  BY <1>1, ExperimentStep
<1>2. ASSUME NEW s \in Sessions,
             \/ ProposeRead(s)
             \/ \E p \in Proposals :
                  EvaluateRead(s, p) \/ PromoteRead(s, p) \/ ApproveRead(s, p)
             \/ \E n \in Rows : RollbackRead(s, n)
      PROVE  PromotionInv'
  BY <1>2, ReadStep
<1>3. ASSUME NEW s \in Sessions, Drop(s)
      PROVE  PromotionInv'
  BY <1>3, TablesUnchanged DEF Drop, Done
<1>4. ASSUME NEW s \in Sessions,
             \/ EvaluateWrite(s) \/ ApproveWrite(s) \/ PromoteCurrent(s)
             \/ \E p \in Proposals : ProposeWrite(s, p)
             \/ \E at \in Times : PromoteWrite(s, at) \/ RollbackWrite(s, at)
      PROVE  PromotionInv'
  BY <1>4, StatusStep, PromoteCurrentStep, ProposeWriteStep, PromoteWriteStep,
     RollbackWriteStep
<1>5. CASE UNCHANGED vars
  <2>1. PromotionsTypeOK' /\ StatusFounded' /\ PromotionsFounded' /\ PromotionsFormChains'
    BY <1>5 DEF PromotionInv, PromotionsTypeOK, StatusFounded, PromotionsFounded,
         PromotionsFormChains, Backed, Supported, Exists, Rows, vars
  <2>2. WorkFounded'
    BY <1>5 DEF PromotionInv, WorkFounded, Founded, Backed, Supported, Exists, Rows, vars
  <2>3. QED
    BY <2>1, <2>2 DEF PromotionInv
<1>6. QED
  BY <1>0, <1>1, <1>2, <1>3, <1>4, <1>5 DEF Next, Times

\* In every reachable state the tables have their types, what sessions have read
\* remains borne out, and the rows of promotions are founded and form chains.
THEOREM PromotionInvariant == Spec => []PromotionInv
BY InitPromotionInv, NextPromotionInv, PTL DEF Spec

\* The types of the promotion tables, for any number of sessions and proposals.
THEOREM PromotionTypes == Spec => []PromotionsTypeOK
<1>1. PromotionInv => PromotionsTypeOK
  BY DEF PromotionInv
<1>2. QED
  BY <1>1, PromotionInvariant, PTL

\* A candidate takes effect only for a proposal that a reviewer has approved and
\* whose candidate has passed an experiment against the baseline.
THEOREM EvidenceOfPromotions == Spec => []PromotedOnEvidence
<1>1. PromotionInv => PromotedOnEvidence
  <2> SUFFICES ASSUME PromotionInv PROVE PromotedOnEvidence
    OBVIOUS
  <2>1. DOMAIN promotions = Rows /\ \A n \in Rows : promotions[n] \in Promotion
    BY ElementOfSeq DEF PromotionInv, PromotionsTypeOK, Rows
  <2>2. \A n \in Rows : promotions[n].proposal \in Proposals
    BY <2>1 DEF Promotion
  <2>3. QED
    BY <2>1, <2>2 DEF PromotionInv, PromotionsFounded, PromotedOnEvidence, Backed
<1>2. QED
  BY <1>1, PromotionInvariant, PTL

\* What a row of promotions replaces was put in effect by a row that is closed,
\* and what a rollback restores is what the promotion it undoes had replaced.
THEOREM ChainsOfPromotions == Spec => []PromotionsFormChains
<1>1. PromotionInv => PromotionsFormChains
  BY DEF PromotionInv
<1>2. QED
  BY <1>1, PromotionInvariant, PTL

\* No step removes a promotion or opens it again, or changes what it says.
THEOREM KeptPromotions == Spec => PromotionsAreKept
<1> DEFINE Kept ==
      /\ Len(promotions') >= Len(promotions)
      /\ \A n \in DOMAIN promotions :
           promotions'[n] \in {promotions[n], [promotions[n] EXCEPT !.status = "rolled_back"]}
<1>1. PromotionInv /\ [Next]_vars => [Kept]_promotions
  <2> SUFFICES ASSUME PromotionInv, [Next]_vars PROVE [Kept]_promotions
    OBVIOUS
  <2>1. PromotionsTypeOK /\ Len(promotions) \in Nat /\ DOMAIN promotions = Rows
    BY DEF PromotionInv, PromotionsTypeOK, Rows
  <2>2. ASSUME RowsKept PROVE Kept
    BY <2>1, <2>2 DEF RowsKept, Close
  <2>3. ASSUME NEW s \in Sessions, NEW at \in Times, PromoteWrite(s, at) \/ RollbackWrite(s, at)
        PROVE  RowsKept
    BY <2>3, PromoteWriteStep, RollbackWriteStep
  <2>4. ASSUME promotions' # promotions
        PROVE  \E s \in Sessions, at \in Times : PromoteWrite(s, at) \/ RollbackWrite(s, at)
    BY <2>4 DEF Next, Times, vars, RunExperiment, Attach, Refuse, ProposeRead, EvaluateWrite,
       ApproveWrite, PromoteCurrent, Drop, ProposeWrite, EvaluateRead, PromoteRead,
       ApproveRead, RollbackRead, Read
  <2>5. QED
    BY <2>2, <2>3, <2>4
<1>2. QED
  BY <1>1, PromotionInvariant, PTL DEF Spec, PromotionsAreKept
=============================================================================
