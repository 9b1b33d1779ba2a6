------------------------------- MODULE Worker -------------------------------
(***************************************************************************)
(* The bounded promotion worker (worker.py) over the memory store: jobs    *)
(* that write approved proposals, claims with a lease, attempts and        *)
(* receipts, all rows of the same database.  Any number of worker          *)
(* processes may be invoked at once; each handles at most a batch of jobs. *)
(*                                                                         *)
(* A job's id is derived from its proposal, so jobs are named by proposals.*)
(* Jobs are taken in the order of their creation; those created in one     *)
(* second, which the code orders by their ids, keep that order here too.   *)
(* A lease is live until the clock passes it: the model lets the clock     *)
(* pass it at any step.  A claim is identified by its job and attempt.     *)
(***************************************************************************)
EXTENDS MemoryLifecycle

CONSTANTS
  Workers,       \* run_bounded_worker invocations
  NoClaim, NoJob,
  BatchLimit,    \* claims one invocation makes at most
  MaxAttempts,   \* bound: claims of one job
  MaxStops,      \* bound: stop requests
  Timely         \* TRUE: a lease outlives the work of a worker that is alive

ASSUME WorkerAssumption ==
  /\ NoJob \notin Proposals
  /\ BatchLimit \in Nat /\ MaxAttempts \in Nat /\ MaxStops \in Nat
  /\ Timely \in BOOLEAN

ClaimRow == [worker : Workers, attempt : 1..MaxAttempts, live : BOOLEAN]

ASSUME NoClaimAssumption == NoClaim \notin ClaimRow

VARIABLES
  job,        \* jobs: status
  queue,      \* the jobs in the order in which they were created
  claim,      \* worker_claims: at most one per job
  receipts,   \* worker_receipts
  work,       \* where each invocation stands
  stop,       \* worker_control.stop_requested
  stops       \* stop requests so far

workerVars == <<job, queue, claim, receipts, work, stop, stops>>
allVars == <<vars, workerVars>>

Verdicts == {"succeeded", "failed"}
Phases == {"idle", "claiming", "promoting", "failing"}

WorkerTypeOK ==
  /\ TypeOK
  /\ job \in [Proposals -> {"none", "queued", "running"} \cup Verdicts]
  /\ queue \in Seq(Proposals)
  /\ claim \in [Proposals -> ClaimRow \cup {NoClaim}]
  /\ receipts \subseteq [job : Proposals, attempt : 1..MaxAttempts, worker : Workers,
                         status : Verdicts]
  /\ work \in [Workers -> [phase : Phases, job : Proposals \cup {NoJob},
                           attempt : 0..MaxAttempts, left : 0..BatchLimit]]
  /\ stop \in BOOLEAN
  /\ stops \in 0..MaxStops

Idle == [phase |-> "idle", job |-> NoJob, attempt |-> 0, left |-> 0]

WorkerInit ==
  /\ Init
  /\ job = [j \in Proposals |-> "none"]
  /\ queue = <<>>
  /\ claim = [j \in Proposals |-> NoClaim]
  /\ receipts = {}
  /\ work = [w \in Workers |-> Idle]
  /\ stop = FALSE
  /\ stops = 0

----------------------------------------------------------------------------

\* INSERT OR IGNORE: a job that exists is left as it is, whatever its status.
Enqueue(p) ==
  /\ writer = NoSession
  /\ proposal[p].status # "none"
  /\ job[p] = "none"
  /\ job' = [job EXCEPT ![p] = "queued"]
  /\ queue' = Append(queue, p)
  /\ UNCHANGED <<vars, claim, receipts, work, stop, stops>>

RequestStop ==
  /\ writer = NoSession
  /\ stops < MaxStops    \* bound
  /\ stop' = TRUE
  /\ stops' = stops + 1
  /\ UNCHANGED <<vars, job, queue, claim, receipts, work>>

\* The CLI's worker command clears an earlier stop request and runs one batch.
Start(w) ==
  /\ writer = NoSession
  /\ work[w].phase = "idle"
  /\ work' = [work EXCEPT ![w] = [Idle EXCEPT !.phase = "claiming", !.left = BatchLimit]]
  /\ stop' = FALSE
  /\ UNCHANGED <<vars, job, queue, claim, receipts, stops>>

\* Mutant: a running job is never taken over.
ClaimableOnce(j) == job[j] = "queued"

\* Queued, or running under a lease that has expired.
Claimable(j) == job[j] = "queued" \/ (job[j] = "running" /\ ~ claim[j].live)

Oldest(i) ==
  /\ i \in DOMAIN queue
  /\ Claimable(queue[i])
  /\ \A k \in DOMAIN queue : k < i => ~ Claimable(queue[k])

\* The attempts that a claim or a receipt of j names, and 0.
Attempts(j) == {0} \cup {r.attempt : r \in {r \in receipts : r.job = j}}
                   \cup {claim[k].attempt : k \in {k \in {j} : claim[k] # NoClaim}}

\* Mutant: the highest attempt instead of the one after it.
LastAttempt(j) == CHOOSE a \in Attempts(j) : \A b \in Attempts(j) : b <= a

NextAttempt(j) == 1 + CHOOSE a \in Attempts(j) : \A b \in Attempts(j) : b <= a

Claim(w) ==
  /\ writer = NoSession
  /\ work[w].phase = "claiming" /\ work[w].left > 0 /\ ~ stop
  /\ \E i \in DOMAIN queue :
       LET j == queue[i]
           a == NextAttempt(j)
       IN /\ Oldest(i)
          /\ a <= MaxAttempts    \* bound
          /\ claim' = [claim EXCEPT ![j] = [worker |-> w, attempt |-> a, live |-> TRUE]]
          /\ job' = [job EXCEPT ![j] = "running"]
          /\ work' = [work EXCEPT ![w] = [phase |-> "promoting", job |-> j, attempt |-> a,
                                          left |-> @.left - 1]]
  /\ UNCHANGED <<vars, queue, receipts, stop, stops>>

\* The batch is used up, a stop is requested or nothing is claimable.
Finish(w) ==
  /\ writer = NoSession
  /\ work[w].phase = "claiming"
  /\ work[w].left = 0 \/ stop \/ \A i \in DOMAIN queue : ~ Claimable(queue[i])
  /\ work' = [work EXCEPT ![w] = Idle]
  /\ UNCHANGED <<vars, job, queue, claim, receipts, stop, stops>>

----------------------------------------------------------------------------
(* Processing of the claimed job, in one transaction with its receipt *)

\* Mutant: no check that the claim is still held.
OwnsUnfenced(w) == work[w].job # NoJob

\* _owns_live_attempt
Owns(w) ==
  LET c == claim[work[w].job]
  IN c # NoClaim /\ c.worker = w /\ c.attempt = work[w].attempt /\ c.live

NextIteration(w) == [work EXCEPT ![w] = [@ EXCEPT !.phase = "claiming", !.job = NoJob,
                                                   !.attempt = 0]]

\* Mutant: the claim is not deleted.
SettleKeepingClaim(w, verdict) ==
  LET j == work[w].job
  IN /\ receipts' = receipts \cup
          {[job |-> j, attempt |-> work[w].attempt, worker |-> w, status |-> verdict]}
     /\ job' = [job EXCEPT ![j] = verdict]
     /\ work' = NextIteration(w)
     /\ UNCHANGED <<queue, claim, stop, stops>>

\* The receipt, the job's verdict and the end of the claim.
Settle(w, verdict) ==
  LET j == work[w].job
  IN /\ receipts' = receipts \cup
          {[job |-> j, attempt |-> work[w].attempt, worker |-> w, status |-> verdict]}
     /\ job' = [job EXCEPT ![j] = verdict]
     /\ claim' = [claim EXCEPT ![j] = NoClaim]
     /\ work' = NextIteration(w)
     /\ UNCHANGED <<queue, stop, stops>>

Promoting(w) == writer = NoSession /\ work[w].phase = "promoting"

Promote(w) ==
  /\ Promoting(w)
  /\ Owns(w)
  /\ StoreVersion(work[w].job) /\ UNCHANGED <<pc, now>>
  /\ Settle(w, "succeeded")

\* The proposal was written already, by an operator or an earlier attempt.
PromoteExisting(w) ==
  /\ Promoting(w)
  /\ Owns(w)
  /\ proposal[work[w].job].status = "written"
  /\ Settle(w, "succeeded")
  /\ UNCHANGED vars

\* write_memory raises: everything is rolled back, and the failure is recorded
\* in a second transaction.
PromoteRaises(w) ==
  LET p == work[w].job
  IN /\ Promoting(w)
     /\ Owns(w)
     /\ proposal[p].status # "written"
     /\ ~ Writable(p) \/ VersionTaken(p)
     /\ work' = [work EXCEPT ![w].phase = "failing"]
     /\ UNCHANGED <<vars, job, queue, claim, receipts, stop, stops>>

RecordFailure(w) ==
  /\ writer = NoSession
  /\ work[w].phase = "failing"
  /\ Owns(w)
  /\ Settle(w, "failed")
  /\ UNCHANGED vars

\* The lease has been lost before a transaction committed: no trace is left.
Discard(w) ==
  /\ writer = NoSession
  /\ work[w].phase \in {"promoting", "failing"}
  /\ ~ Owns(w)
  /\ work' = NextIteration(w)
  /\ UNCHANGED <<vars, job, queue, claim, receipts, stop, stops>>

----------------------------------------------------------------------------

\* The clock passes the lease of job j.
HeldAlive(j) == \E w \in Workers : work[w].job = j /\ Owns(w)
Expire(j) ==
  /\ claim[j] # NoClaim
  /\ claim[j].live
  /\ Timely => ~ HeldAlive(j)
  /\ claim' = [claim EXCEPT ![j].live = FALSE]
  /\ UNCHANGED <<vars, job, queue, receipts, work, stop, stops>>

\* The worker process dies; its claim stays until the lease has expired.  A
\* death between two jobs leaves nothing behind and is left out.
WorkerCrash(w) ==
  /\ work[w].phase \in {"promoting", "failing"}
  /\ work[w].attempt < MaxAttempts    \* bound: no crash in the last attempt
  /\ work' = [work EXCEPT ![w] = Idle]
  /\ UNCHANGED <<vars, job, queue, claim, receipts, stop, stops>>

WorkerStep(w) ==
  \/ Claim(w) \/ Finish(w) \/ Promote(w) \/ PromoteExisting(w)
  \/ PromoteRaises(w) \/ RecordFailure(w) \/ Discard(w)

WorkerNext ==
  \/ Next /\ UNCHANGED workerVars
  \/ \E p \in Proposals : Enqueue(p) \/ Expire(p)
  \/ RequestStop
  \/ \E w \in Workers : Start(w) \/ WorkerStep(w) \/ WorkerCrash(w)

WorkerSpec == WorkerInit /\ [][WorkerNext]_allVars

\* The host invokes a worker again and again, and the clock reaches every
\* lease.  SQLite's busy handler polls for the write lock, which sessions take
\* and give back: a worker is granted it in the end (strong fairness).
WorkerFairness ==
  /\ \A w \in Workers : SF_allVars(Start(w) \/ WorkerStep(w))
  /\ \A p \in Proposals : WF_allVars(Expire(p))
  /\ \A s \in Sessions : WF_allVars(HostRollsBack(s) /\ UNCHANGED workerVars)

FairWorkerSpec == WorkerSpec /\ WorkerFairness

----------------------------------------------------------------------------
(* Properties *)

\* Job, claim and receipt rows agree: a job has a claim exactly while it is
\* running, and exactly one receipt, with its verdict, once it is settled.
OneVerdictPerJob ==
  \A j \in Proposals :
    LET own == {r \in receipts : r.job = j}
    IN /\ (job[j] = "running") <=> (claim[j] # NoClaim)
       /\ IF job[j] \in Verdicts THEN \E r \in own : own = {r} /\ r.status = job[j]
          ELSE own = {}

\* A queued job is settled when workers are invoked again and again and leases
\* outlive the work, whatever crashes and stop requests occur.
QueuedJobsSettle ==
  \A j \in Proposals : job[j] = "queued" ~> job[j] \in Verdicts

\* Seen from outside, leases, attempts, stalls and crashes make no difference:
\* every step of the worker and the store is a step of the ledger or none.  So a
\* verdict is final, whoever stalled before recording another one, and
\* "succeeded" comes with the memory in one transaction.
Ledger == INSTANCE PromotionLedger WITH
  Jobs <- Proposals,
  verdict <- [j \in Proposals |-> IF job[j] = "running" THEN "queued" ELSE job[j]],
  written <- {p \in Proposals : proposal[p].status = "written"}

ImplementsLedger == Ledger!Spec
=============================================================================
