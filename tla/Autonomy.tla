----------------------------- MODULE Autonomy -----------------------------
(***************************************************************************)
(* Bounded autonomy ticks (autonomy.py) beside the council (council.py) in *)
(* which an allowed tick files its record.                                 *)
(*                                                                         *)
(* plan_tick and run_tick begin with ensure_council_runtime, which         *)
(* commits, and pause, resume and kill with a SELECT: each reads the tick  *)
(* before its write transaction begins.  create_record, called in the      *)
(* middle of a run, commits twice, first what the run has written so far   *)
(* and then the record, so a run is three transactions.                    *)
(*                                                                         *)
(* A tick's id is derived from its idempotency key, objective and action.  *)
(***************************************************************************)
EXTENDS Council

CONSTANTS
  Ticks,          \* tick ids
  KeyOf,          \* the idempotency key of each tick
  ActionOf,       \* the class of its action
  TickObjective,  \* the objective it works for
  TitleOf,        \* the title of the record it files
  NoTask

\* How _classify sorts an action: allowed and filed as a record, allowed but
\* with no runner, in need of approval, denied (or unknown).
Actions == {"record", "recall", "approval_required", "denied"}

ASSUME AutonomyAssumption ==
  /\ ActionOf \in [Ticks -> Actions]
  /\ TickObjective \in [Ticks -> Objectives]
  /\ TitleOf \in [Ticks -> Labels]

VARIABLES
  tick,     \* autonomy_ticks: its status, its job's status, whether it has a
            \*   receipt, the seconds in which a run decided against it, and
            \*   (a history) those in which a run filed its record
  task      \* what a session does next to a tick it has read

autonomyVars == <<tick, task>>
vars == <<councilVars, autonomyVars>>

TickStatuses == {"none", "planned", "running", "succeeded", "failed", "cancelled", "paused"}
JobStatuses == {"none", "queued", "running", "succeeded", "failed", "cancelled", "blocked"}
Jobs == {"plan", "start", "record", "finish", "ask", "deny", "block",
         "pause", "resume", "kill"}
Task == [op : Jobs, tick : Ticks]

ASSUME NoTaskAssumption == NoTask \notin Task

AutonomyTypeOK ==
  /\ status \in [Items -> Statuses \cup {"absent", "open"}]
  /\ pc \in [Sessions -> Update \cup {NoUpdate}]
  /\ now \in Seconds
  /\ tick \in [Ticks -> [status : TickStatuses, job : JobStatuses,
                         receipt : BOOLEAN, decided : SUBSET Seconds,
                         filed : SUBSET Seconds]]
  /\ task \in [Sessions -> Task \cup {NoTask}]

Init ==
  /\ CouncilInit
  /\ tick = [t \in Ticks |-> [status |-> "none", job |-> "none",
                              receipt |-> FALSE, decided |-> {}, filed |-> {}]]
  /\ task = [s \in Sessions |-> NoTask]

Free(s) == task[s] = NoTask /\ pc[s] = NoUpdate
At(s, op) == task[s] # NoTask /\ task[s].op = op
Turn(s, op, t) == task' = [task EXCEPT ![s] = [op |-> op, tick |-> t]]
Done(s) == task' = [task EXCEPT ![s] = NoTask]

\* A read takes a task up and changes nothing else.
TakeUp(s, op, t) == Free(s) /\ Turn(s, op, t) /\ UNCHANGED <<tick, councilVars>>

\* An UPDATE of a tick, of its job, and of its receipt_audit_id.
SetTick(t, st, job, receipt) ==
  tick' = [tick EXCEPT ![t] = [@ EXCEPT !.status = st, !.job = job, !.receipt = receipt]]

----------------------------------------------------------------------------
(* plan_tick *)

\* Mutant: no unique index on the idempotency key.
KeyUnindexed(t) == tick[t].status = "none"

KeyFree(t) == \A u \in Ticks : KeyOf[u] = KeyOf[t] => tick[u].status = "none"

PlanRead(s, t) ==
  /\ Exists(TickObjective[t])
  /\ \A u \in Ticks : KeyOf[u] = KeyOf[t] => tick[u].status = "none"
  /\ TakeUp(s, "plan", t)

PlanWrite(s) ==
  LET t == task[s].tick
  IN /\ At(s, "plan")
     /\ KeyFree(t)
     /\ SetTick(t, "planned", "queued", FALSE)
     /\ Done(s)
     /\ UNCHANGED councilVars

\* Another session has planned the key: ux_autonomy_idempotency is violated.
PlanCollides(s) ==
  /\ At(s, "plan")
  /\ ~ KeyFree(task[s].tick)
  /\ Done(s)
  /\ UNCHANGED <<tick, councilVars>>

----------------------------------------------------------------------------
(* run_tick *)

\* Mutant: what needs approval is carried out.
ApprovalForgotten(t) == IF ActionOf[t] = "denied" THEN "deny" ELSE "start"

FirstStep(t) ==
  CASE ActionOf[t] = "record"            -> "start"
    [] ActionOf[t] = "approval_required" -> "ask"
    [] ActionOf[t] \in {"recall", "denied"} -> "deny"

\* A paused or cancelled tick gets a receipt that says so; one that succeeded
\* or failed is answered without a write.
RunRead(s, t) ==
  \/ tick[t].status \in {"planned", "running"} /\ TakeUp(s, FirstStep(t), t)
  \/ tick[t].status \in {"paused", "cancelled"} /\ TakeUp(s, "block", t)

\* Both rows become running; create_record's ensure_council_runtime commits.
RunStart(s) ==
  LET t == task[s].tick
  IN /\ At(s, "start")
     /\ SetTick(t, "running", "running", tick[t].receipt)
     /\ Turn(s, "record", t)
     /\ UNCHANGED councilVars

\* Mutant: the run finishes before its record is committed.
RecordLost(s) ==
  /\ At(s, "record")
  /\ Turn(s, "finish", task[s].tick)
  /\ UNCHANGED <<tick, councilVars>>

RunRecord(s) ==
  LET t == task[s].tick
  IN /\ At(s, "record")
     /\ CreateRecord(TickObjective[t], TitleOf[t])
     /\ tick' = [tick EXCEPT ![t].filed = @ \cup {now}]
     /\ Turn(s, "finish", t)

\* The objective has a record of that title in this second.  The tick has been
\* committed as running and stays so.
RunRecordCollides(s) ==
  LET t == task[s].tick
  IN /\ At(s, "record")
     /\ EntryIdTaken(Entry("record", TickObjective[t], NoAssignment, {}, TitleOf[t]))
     /\ Done(s)
     /\ UNCHANGED <<tick, councilVars>>

RunFinish(s) ==
  /\ At(s, "finish")
  /\ SetTick(task[s].tick, "succeeded", "succeeded", TRUE)
  /\ Done(s)
  /\ UNCHANGED councilVars

\* Mutant: the tick is given the status of its job.
DecideAsJob(s, op, job) ==
  LET t == task[s].tick
  IN /\ At(s, op)
     /\ now \notin tick[t].decided
     /\ tick' = [tick EXCEPT ![t] = [@ EXCEPT !.status = job, !.job = job,
                                      !.receipt = TRUE,
                                      !.decided = tick[t].decided \cup {now}]]
     /\ Done(s)
     /\ UNCHANGED councilVars

\* _approval_required_tick and _fail_tick.  The policy decision's id is made
\* of the request and the second.
Decide(s, op, job) ==
  LET t == task[s].tick
  IN /\ At(s, op)
     /\ now \notin tick[t].decided
     /\ tick' = [tick EXCEPT ![t] = [@ EXCEPT !.status = "failed", !.job = job,
                                      !.receipt = TRUE,
                                      !.decided = tick[t].decided \cup {now}]]
     /\ Done(s)
     /\ UNCHANGED councilVars
RunAsk(s) == Decide(s, "ask", "blocked")
RunDeny(s) == Decide(s, "deny", "failed")

DecisionCollides(s) ==
  /\ At(s, "ask") \/ At(s, "deny")
  /\ now \in tick[task[s].tick].decided
  /\ Done(s)
  /\ UNCHANGED <<tick, councilVars>>

RunBlock(s) ==
  /\ At(s, "block")
  /\ tick' = [tick EXCEPT ![task[s].tick].receipt = TRUE]
  /\ Done(s)
  /\ UNCHANGED councilVars

----------------------------------------------------------------------------
(* pause_tick, resume_tick and kill_tick *)

Control(s, t) ==
  \/ tick[t].status \in {"planned", "running", "paused"} /\ TakeUp(s, "pause", t)
  \/ tick[t].status = "paused" /\ TakeUp(s, "resume", t)
  \/ tick[t].status \notin {"none", "succeeded"} /\ TakeUp(s, "kill", t)

SetStatus(s, op, st) ==
  /\ At(s, op)
  /\ tick' = [tick EXCEPT ![task[s].tick].status = st]
  /\ Done(s)
  /\ UNCHANGED councilVars
PauseWrite(s) == SetStatus(s, "pause", "paused")
ResumeWrite(s) == SetStatus(s, "resume", "planned")

KillWrite(s) ==
  /\ At(s, "kill")
  /\ tick' = [tick EXCEPT ![task[s].tick] = [@ EXCEPT !.status = "cancelled", !.job = "cancelled"]]
  /\ Done(s)
  /\ UNCHANGED councilVars

\* The process of a session dies between two of its transactions.
Crash(s) ==
  /\ task[s] # NoTask
  /\ Done(s)
  /\ UNCHANGED <<tick, councilVars>>

----------------------------------------------------------------------------

TickStep(s) ==
  \/ \E t \in Ticks : PlanRead(s, t) \/ RunRead(s, t) \/ Control(s, t)
  \/ PlanWrite(s) \/ PlanCollides(s)
  \/ RunStart(s) \/ RunRecord(s) \/ RunRecordCollides(s) \/ RunFinish(s)
  \/ RunAsk(s) \/ RunDeny(s) \/ DecisionCollides(s) \/ RunBlock(s)
  \/ PauseWrite(s) \/ ResumeWrite(s) \/ KillWrite(s)
  \/ Crash(s)

\* A session does one thing at a time.
CouncilStep ==
  /\ CouncilNext
  /\ \A s \in Sessions : pc'[s] # pc[s] => task[s] = NoTask
  /\ UNCHANGED autonomyVars

Next == CouncilStep \/ \E s \in Sessions : TickStep(s)

Spec == Init /\ [][Next]_vars

----------------------------------------------------------------------------
(* Properties *)

\* However many sessions plan the same idempotency key at once, with whatever
\* actions, one tick of it comes into being.
OneTickPerKey ==
  \A t, u \in Ticks :
    KeyOf[t] = KeyOf[u] /\ tick[t].status # "none" /\ tick[u].status # "none" => t = u

\* The record that a run of t filed at second n.
RecordAt(t, n) ==
  [kind |-> "record", objective |-> TickObjective[t], assignment |-> NoAssignment,
   cites |-> {}, label |-> TitleOf[t], at |-> n]

\* Crashes, collisions and stale reads in any order leave no tick whose status
\* its job contradicts, none that is finished without a receipt, and none
\* that claims a success whose council record does not exist.
OutcomeIsOnRecord ==
  \A t \in Ticks :
    /\ tick[t].status = "running" => tick[t].job = "running"
    /\ tick[t].status = "cancelled" => tick[t].job = "cancelled"
    /\ tick[t].status = "failed" => tick[t].job \in {"failed", "blocked"} /\ tick[t].receipt
    /\ tick[t].status = "succeeded" =>
         /\ tick[t].job = "succeeded"
         /\ tick[t].receipt
         /\ \E n \in tick[t].filed : RecordAt(t, n) \in entries

\* An action that needs approval, is denied or is unknown has no effect in the
\* council, through pauses, resumes and repeated runs.
OnlyAllowedActionsAct ==
  \A t \in Ticks : tick[t].filed # {} => ActionOf[t] = "record"
=============================================================================
