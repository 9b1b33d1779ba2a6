--------------------------- MODULE PromotionLedger ---------------------------
(***************************************************************************)
(* What the promotion worker promises to those who enqueue proposals, with *)
(* nothing of leases, attempts, stalls and crashes: a job gets at most one *)
(* verdict; "succeeded" comes together with the memory of its proposal, or *)
(* finds it written; what is written stays written.                        *)
(***************************************************************************)
CONSTANTS Jobs

VARIABLES
  verdict,   \* of every job: none, queued, succeeded or failed
  written    \* the proposals whose memory has been written

ledger == <<verdict, written>>

Init ==
  /\ verdict = [j \in Jobs |-> "none"]
  /\ written = {}

Enqueue(j) ==
  /\ verdict[j] = "none"
  /\ verdict' = [verdict EXCEPT ![j] = "queued"]
  /\ UNCHANGED written

Succeed(j) ==
  /\ verdict[j] = "queued"
  /\ verdict' = [verdict EXCEPT ![j] = "succeeded"]
  /\ written' = written \cup {j}

Fail(j) ==
  /\ verdict[j] = "queued"
  /\ verdict' = [verdict EXCEPT ![j] = "failed"]
  /\ UNCHANGED written

\* An operator writes the memory without the worker.
WriteElsewhere(j) ==
  /\ j \notin written
  /\ written' = written \cup {j}
  /\ UNCHANGED verdict

Next == \E j \in Jobs : Enqueue(j) \/ Succeed(j) \/ Fail(j) \/ WriteElsewhere(j)

Spec == Init /\ [][Next]_ledger
=============================================================================
