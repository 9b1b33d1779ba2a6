-------------------------- MODULE AutonomyProofs --------------------------
(* Proofs of the tick and council properties of Autonomy, for any sessions, *)
(* ticks, keys, objectives and entries.                                     *)
EXTENDS Autonomy, SequenceTheorems, TLAPS

Recorded(t) == \E n \in tick[t].filed : RecordAt(t, n) \in entries

\* What a session has read of a tick still holds in part when it writes: the
\* tick exists, a run that got past the classification is of an allowed
\* action, and one that is about to finish has its record.
TasksFounded ==
  \A s \in Sessions : task[s] # NoTask =>
    /\ task[s].op # "plan" => tick[task[s].tick].status # "none"
    /\ task[s].op \in {"start", "record", "finish"} => ActionOf[task[s].tick] = "record"
    /\ task[s].op = "finish" => Recorded(task[s].tick)

TickInv ==
  /\ AutonomyTypeOK
  /\ TasksFounded
  /\ OneTickPerKey
  /\ OutcomeIsOnRecord
  /\ OnlyAllowedActionsAct

\* The initial state: there is no tick and no task.
LEMMA InitTickInv == Init => TickInv
<1> SUFFICES ASSUME Init PROVE TickInv
  OBVIOUS
<1> USE AutonomyAssumption, CouncilAssumption DEF Init, CouncilInit
<1>1. AutonomyTypeOK
  BY DEF AutonomyTypeOK, TickStatuses, JobStatuses, Seconds
<1>2. TasksFounded /\ OneTickPerKey /\ OutcomeIsOnRecord /\ OnlyAllowedActionsAct
  BY DEF TasksFounded, OneTickPerKey, OutcomeIsOnRecord, OnlyAllowedActionsAct
<1>3. QED
  BY <1>1, <1>2 DEF TickInv

----------------------------------------------------------------------------
(* Steps of the council *)

\* The id under which a tick's record is looked for does not depend on the
\* clock.
LEMMA RecordAtFixed ==
  ASSUME NEW t \in Ticks, NEW n \in Seconds
  PROVE  RecordAt(t, n)' = RecordAt(t, n)
BY DEF RecordAt

\* A council operation keeps the types, and an entry once filed stays.
LEMMA CouncilStepEffect ==
  ASSUME AutonomyTypeOK, CouncilNext
  PROVE  /\ entries \subseteq entries'
         /\ status' \in [Items -> Statuses \cup {"absent", "open"}]
         /\ pc' \in [Sessions -> Update \cup {NoUpdate}]
         /\ now' \in Seconds
<1> USE CouncilAssumption DEF AutonomyTypeOK
<1>1. ASSUME NEW i \in Items, NEW st \in Statuses \cup {"open"}, Create(i, st)
      PROVE  /\ entries \subseteq entries'
             /\ status' \in [Items -> Statuses \cup {"absent", "open"}]
             /\ UNCHANGED <<pc, now>>
  BY <1>1 DEF Create
<1>2. ASSUME NEW s \in Sessions, NEW i \in Items, NEW to \in Statuses, UpdateRead(s, i, to)
      PROVE  /\ UNCHANGED <<entries, status, now>>
             /\ pc' \in [Sessions -> Update \cup {NoUpdate}]
  BY <1>2 DEF UpdateRead, Update, Exists
<1>3. ASSUME NEW s \in Sessions, UpdateWrite(s) \/ UpdateCollides(s) \/ Drop(s)
      PROVE  /\ entries \subseteq entries'
             /\ status' \in [Items -> Statuses \cup {"absent", "open"}]
             /\ pc' \in [Sessions -> Update \cup {NoUpdate}]
             /\ UNCHANGED now
  BY <1>3 DEF UpdateWrite, UpdateCollides, Drop, Update
<1>4. ASSUME NEW o \in Objectives, NEW label \in Labels, File(o, label)
      PROVE  entries \subseteq entries' /\ UNCHANGED <<status, pc, now>>
  BY <1>4 DEF File, CreateRecord, AttachEvidence, RecordReview, CreateHandoff, Insert
<1>5. CASE Tick
  BY <1>5 DEF Tick, Seconds
<1>6. QED
  BY <1>1, <1>2, <1>3, <1>4, <1>5 DEF CouncilNext

LEMMA CouncilStepTickInv ==
  ASSUME TickInv, CouncilStep
  PROVE  TickInv'
<1> USE DEF TickInv, CouncilStep, autonomyVars
<1>1. /\ entries \subseteq entries' /\ UNCHANGED <<tick, task>>
      /\ AutonomyTypeOK'
  BY CouncilStepEffect DEF AutonomyTypeOK
<1>2. ASSUME NEW t \in Ticks, Recorded(t) PROVE Recorded(t)'
  BY <1>1, <1>2, RecordAtFixed DEF Recorded, AutonomyTypeOK
<1>3. TasksFounded'
  BY <1>1, <1>2 DEF TasksFounded, AutonomyTypeOK, Task
<1>4. OneTickPerKey' /\ OnlyAllowedActionsAct'
  BY <1>1 DEF OneTickPerKey, OnlyAllowedActionsAct
<1>5. OutcomeIsOnRecord'
  BY <1>1, <1>2 DEF OutcomeIsOnRecord, Recorded
<1>6. QED
  BY <1>1, <1>3, <1>4, <1>5

----------------------------------------------------------------------------
(* Steps of a session on a tick *)

TickRow == [status : TickStatuses, job : JobStatuses, receipt : BOOLEAN,
            decided : SUBSET Seconds, filed : SUBSET Seconds]

\* What OutcomeIsOnRecord says of one tick whose row becomes r.
Settled(t, r) ==
  /\ r.status = "running" => r.job = "running"
  /\ r.status = "cancelled" => r.job = "cancelled"
  /\ r.status = "failed" => r.job \in {"failed", "blocked"} /\ r.receipt
  /\ r.status = "succeeded" => /\ r.job = "succeeded"
                               /\ r.receipt
                               /\ \E n \in r.filed : RecordAt(t, n) \in entries

\* A session takes a task up, or goes to the next part of its run.
LEMMA TurnKeepsInv ==
  ASSUME TickInv, NEW s \in Sessions, NEW t \in Ticks, NEW op \in Jobs,
         Turn(s, op, t), UNCHANGED <<tick, councilVars>>,
         op # "plan" => tick[t].status # "none",
         op \in {"start", "record", "finish"} => ActionOf[t] = "record",
         op = "finish" => Recorded(t)
  PROVE  TickInv'
<1> USE DEF TickInv, councilVars
<1>1. AutonomyTypeOK'
  BY DEF AutonomyTypeOK, Turn, Task
<1>2. ASSUME NEW u \in Ticks PROVE Recorded(u)' = Recorded(u)
  BY RecordAtFixed DEF Recorded, AutonomyTypeOK
<1>3. TasksFounded'
  BY <1>2 DEF TasksFounded, Turn, AutonomyTypeOK, Task
<1>4. OneTickPerKey' /\ OnlyAllowedActionsAct' /\ OutcomeIsOnRecord'
  BY <1>2 DEF OneTickPerKey, OnlyAllowedActionsAct, OutcomeIsOnRecord, Recorded
<1>5. QED
  BY <1>1, <1>3, <1>4

\* A session gives its task up.
LEMMA DoneKeepsInv ==
  ASSUME TickInv, NEW s \in Sessions, Done(s), UNCHANGED <<tick, councilVars>>
  PROVE  TickInv'
<1> USE DEF TickInv, councilVars
<1>1. AutonomyTypeOK'
  BY DEF AutonomyTypeOK, Done
<1>2. ASSUME NEW u \in Ticks PROVE Recorded(u)' = Recorded(u)
  BY RecordAtFixed DEF Recorded, AutonomyTypeOK
<1>3. TasksFounded'
  BY <1>2, NoTaskAssumption DEF TasksFounded, Done, AutonomyTypeOK, Task
<1>4. OneTickPerKey' /\ OnlyAllowedActionsAct' /\ OutcomeIsOnRecord'
  BY <1>2 DEF OneTickPerKey, OnlyAllowedActionsAct, OutcomeIsOnRecord, Recorded
<1>5. QED
  BY <1>1, <1>3, <1>4

\* An UPDATE of an existing tick that ends a task, starts a run or settles it.
LEMMA RowKeepsInv ==
  ASSUME TickInv, NEW s \in Sessions, NEW t \in Ticks, NEW r \in TickRow,
         tick' = [tick EXCEPT ![t] = r],
         Done(s) \/ (Turn(s, "record", t) /\ ActionOf[t] = "record"),
         UNCHANGED councilVars,
         tick[t].status # "none", r.status # "none",
         r.filed = tick[t].filed, Settled(t, r)
  PROVE  TickInv'
<1> USE DEF TickInv, councilVars
<1>1. AutonomyTypeOK'
  BY DEF AutonomyTypeOK, TickRow, Done, Turn, Task, Jobs
<1>2. ASSUME NEW u \in Ticks
      PROVE  /\ tick'[u].filed = tick[u].filed
             /\ tick[u].status # "none" => tick'[u].status # "none"
             /\ tick'[u].status # "none" => tick[u].status # "none"
             /\ Recorded(u)' = Recorded(u)
  BY RecordAtFixed DEF Recorded, AutonomyTypeOK
<1>3. TasksFounded'
  BY <1>2, NoTaskAssumption DEF TasksFounded, Done, Turn, AutonomyTypeOK, Task
<1>4. OneTickPerKey' /\ OnlyAllowedActionsAct'
  BY <1>2 DEF OneTickPerKey, OnlyAllowedActionsAct
<1>5. OutcomeIsOnRecord'
  <2> SUFFICES ASSUME NEW u \in Ticks PROVE Settled(u, tick[u])'
    BY DEF OutcomeIsOnRecord, Settled
  <2>1. CASE u = t
    BY <2>1, RecordAtFixed DEF Settled, AutonomyTypeOK, TickRow
  <2>2. CASE u # t
    BY <2>2, RecordAtFixed DEF Settled, OutcomeIsOnRecord, AutonomyTypeOK
  <2>3. QED
    BY <2>1, <2>2
<1>6. QED
  BY <1>1, <1>3, <1>4, <1>5

LEMMA PlanKeepsInv ==
  ASSUME TickInv, NEW s \in Sessions, PlanWrite(s)
  PROVE  TickInv'
<1> USE DEF TickInv, councilVars
<1> DEFINE t == task[s].tick
<1>1. /\ t \in Ticks /\ KeyFree(t)
      /\ tick' = [tick EXCEPT ![t] = [@ EXCEPT !.status = "planned", !.job = "queued",
                                              !.receipt = FALSE]]
      /\ task' = [task EXCEPT ![s] = NoTask]
      /\ UNCHANGED councilVars
  BY DEF PlanWrite, At, SetTick, Done, AutonomyTypeOK, Task
<1>2. AutonomyTypeOK'
  <2>1. tick[t] \in TickRow
    BY <1>1 DEF AutonomyTypeOK, TickRow
  <2>2. [tick[t] EXCEPT !.status = "planned", !.job = "queued", !.receipt = FALSE] \in TickRow
    BY <2>1 DEF TickRow, TickStatuses, JobStatuses
  <2>3. QED
    BY <1>1, <2>2 DEF AutonomyTypeOK, TickRow
<1>3. ASSUME NEW u \in Ticks
      PROVE  /\ tick'[u].filed = tick[u].filed
             /\ tick[u].status # "none" => tick'[u] = tick[u]
             /\ u # t => tick'[u] = tick[u]
             /\ tick'[t].status = "planned"
             /\ Recorded(u)' = Recorded(u)
  BY <1>1, RecordAtFixed DEF Recorded, AutonomyTypeOK, KeyFree
<1>4. TasksFounded'
  BY <1>1, <1>3, NoTaskAssumption DEF TasksFounded, AutonomyTypeOK, Task
<1>5. OneTickPerKey' /\ OnlyAllowedActionsAct'
  BY <1>1, <1>3 DEF OneTickPerKey, OnlyAllowedActionsAct, KeyFree
<1>6. OutcomeIsOnRecord'
  BY <1>1, <1>3 DEF OutcomeIsOnRecord, Recorded
<1>7. QED
  BY <1>2, <1>4, <1>5, <1>6

LEMMA RecordKeepsInv ==
  ASSUME TickInv, NEW s \in Sessions, RunRecord(s)
  PROVE  TickInv'
<1> USE DEF TickInv
<1> DEFINE t == task[s].tick
<1>1. /\ t \in Ticks /\ ActionOf[t] = "record" /\ tick[t].status # "none"
      /\ tick' = [tick EXCEPT ![t].filed = @ \cup {now}]
      /\ task' = [task EXCEPT ![s] = [op |-> "finish", tick |-> t]]
      /\ entries' = entries \cup {RecordAt(t, now)}
      /\ UNCHANGED <<status, pc, now>>
  <2>1. /\ t \in Ticks /\ ActionOf[t] = "record" /\ tick[t].status # "none"
    BY DEF RunRecord, At, AutonomyTypeOK, Task, TasksFounded
  <2>2. /\ tick' = [tick EXCEPT ![t].filed = @ \cup {now}]
        /\ task' = [task EXCEPT ![s] = [op |-> "finish", tick |-> t]]
        /\ CreateRecord(TickObjective[t], TitleOf[t])
    BY DEF RunRecord, Turn
  <2>3. /\ entries' = entries \cup {RecordAt(t, now)}
        /\ UNCHANGED <<status, pc, now>>
    BY <2>2 DEF CreateRecord, Insert, RecordAt, Entry
  <2>4. QED
    BY <2>1, <2>2, <2>3
<1>2. AutonomyTypeOK'
  BY <1>1 DEF AutonomyTypeOK, Task, Jobs
<1>3. ASSUME NEW u \in Ticks
      PROVE  /\ tick'[u].status = tick[u].status /\ tick'[u].job = tick[u].job
             /\ tick'[u].receipt = tick[u].receipt
             /\ tick[u].filed \subseteq tick'[u].filed
             /\ u # t => tick'[u].filed = tick[u].filed
             /\ Recorded(u) => Recorded(u)'
  BY <1>1, RecordAtFixed DEF Recorded, AutonomyTypeOK
<1>4. Recorded(t)'
  <2>1. now \in Seconds /\ now \in tick'[t].filed /\ RecordAt(t, now) \in entries'
    BY <1>1 DEF AutonomyTypeOK
  <2>2. RecordAt(t, now)' = RecordAt(t, now)
    BY <1>1 DEF RecordAt
  <2>3. QED
    BY <1>1, <2>1, <2>2 DEF Recorded
<1>5. TasksFounded'
  BY <1>1, <1>3, <1>4 DEF TasksFounded, AutonomyTypeOK, Task
<1>6. OneTickPerKey' /\ OnlyAllowedActionsAct'
  BY <1>1, <1>3 DEF OneTickPerKey, OnlyAllowedActionsAct
<1>7. OutcomeIsOnRecord'
  BY <1>3 DEF OutcomeIsOnRecord, Recorded
<1>8. QED
  BY <1>2, <1>5, <1>6, <1>7

\* Every part of an operation on a tick, of any session.
LEMMA TickStepTickInv ==
  ASSUME TickInv, NEW s \in Sessions, TickStep(s)
  PROVE  TickInv'
<1>1. ASSUME NEW t \in Ticks, PlanRead(s, t) \/ RunRead(s, t) \/ Control(s, t)
      PROVE  TickInv'
  <2>1. ASSUME NEW op \in Jobs, TakeUp(s, op, t),
               op # "plan" => tick[t].status # "none",
               op = "start" => ActionOf[t] = "record",
               op \notin {"record", "finish"}
        PROVE  TickInv'
    BY <2>1, TurnKeepsInv DEF TakeUp
  <2>2. CASE PlanRead(s, t)
    BY <2>1, <2>2 DEF PlanRead, Jobs
  <2>3. CASE RunRead(s, t)
    <3>1. /\ FirstStep(t) \in Jobs \ {"plan", "record", "finish"}
          /\ FirstStep(t) = "start" => ActionOf[t] = "record"
      BY AutonomyAssumption DEF FirstStep, Actions, Jobs
    <3>2. QED
      BY <2>1, <2>3, <3>1 DEF RunRead, Jobs
  <2>4. CASE Control(s, t)
    BY <2>1, <2>4 DEF Control, Jobs
  <2>5. QED
    BY <1>1, <2>2, <2>3, <2>4
<1>2. CASE PlanWrite(s)
  BY <1>2, PlanKeepsInv
<1>3. CASE RunRecord(s)
  BY <1>3, RecordKeepsInv
<1>4. CASE PlanCollides(s) \/ RunRecordCollides(s) \/ DecisionCollides(s) \/ Crash(s)
  BY <1>4, DoneKeepsInv DEF PlanCollides, RunRecordCollides, DecisionCollides, Crash
<1>5. ASSUME RunStart(s) \/ RunFinish(s) \/ RunAsk(s) \/ RunDeny(s) \/ RunBlock(s)
             \/ PauseWrite(s) \/ ResumeWrite(s) \/ KillWrite(s)
      PROVE  TickInv'
  <2> DEFINE t == task[s].tick
             row == tick[t]
  <2>1. /\ t \in Ticks /\ row \in TickRow /\ now \in Seconds
        /\ tick \in [Ticks -> TickRow]
        /\ Settled(t, row)
    BY <1>5 DEF TickInv, AutonomyTypeOK, TickRow, Task, At, RunStart, RunFinish, RunAsk, RunDeny,
       Decide, RunBlock, PauseWrite, ResumeWrite, SetStatus, KillWrite, OutcomeIsOnRecord, Settled
  <2>2. row.status # "none"
    BY <1>5, <2>1 DEF TickInv, TasksFounded, At, RunStart, RunFinish, RunAsk, RunDeny,
       Decide, RunBlock, PauseWrite, ResumeWrite, SetStatus, KillWrite
  <2>3. ASSUME NEW r \in TickRow, tick' = [tick EXCEPT ![t] = r], UNCHANGED councilVars,
               Done(s) \/ (Turn(s, "record", t) /\ ActionOf[t] = "record"),
               r.status # "none", r.filed = row.filed, Settled(t, r)
        PROVE  TickInv'
    BY <2>1, <2>2, <2>3, RowKeepsInv
  <2>4. CASE RunStart(s)
    <3>1. ActionOf[t] = "record"
      BY <2>4 DEF TickInv, TasksFounded, RunStart, At
    <3>2. [row EXCEPT !.status = "running", !.job = "running", !.receipt = row.receipt] \in TickRow
      BY <2>1 DEF TickRow, TickStatuses, JobStatuses
    <3>3. QED
      BY <2>1, <2>3, <2>4, <3>1, <3>2 DEF RunStart, SetTick, Settled, TickRow
  <2>5. CASE RunFinish(s)
    <3> DEFINE r == [row EXCEPT !.status = "succeeded", !.job = "succeeded", !.receipt = TRUE]
    <3>0. Recorded(t)
      BY <2>5 DEF TickInv, TasksFounded, RunFinish, At
    <3>1. r \in TickRow /\ r.status # "none" /\ r.filed = row.filed
      BY <2>1, <2>2 DEF TickRow, TickStatuses, JobStatuses
    <3>2. Settled(t, r)
      BY <2>1, <3>0 DEF Settled, TickRow, Recorded
    <3>3. tick' = [tick EXCEPT ![t] = r] /\ Done(s) /\ UNCHANGED councilVars
      BY <2>5 DEF RunFinish, SetTick
    <3>4. QED
      BY <2>3, <3>1, <3>2, <3>3
  <2>6. ASSUME NEW op \in Jobs, NEW job \in {"failed", "blocked"}, Decide(s, op, job)
        PROVE  TickInv'
    <3> DEFINE r == [row EXCEPT !.status = "failed", !.job = job, !.receipt = TRUE,
                                !.decided = row.decided \cup {now}]
    <3>1. r \in TickRow /\ r.status # "none" /\ r.filed = row.filed
      BY <2>1, <2>2 DEF TickRow, TickStatuses, JobStatuses
    <3>2. Settled(t, r)
      BY <2>1 DEF Settled, TickRow
    <3>3. tick' = [tick EXCEPT ![t] = r] /\ Done(s) /\ UNCHANGED councilVars
      BY <2>6 DEF Decide
    <3>4. QED
      BY <2>3, <3>1, <3>2, <3>3
  <2>7. CASE RunBlock(s)
    <3> DEFINE r == [row EXCEPT !.receipt = TRUE]
    <3>1. r \in TickRow /\ r.status # "none" /\ r.filed = row.filed
      BY <2>1, <2>2 DEF TickRow, TickStatuses, JobStatuses
    <3>2. Settled(t, r)
      BY <2>1 DEF Settled, TickRow
    <3>3. tick' = [tick EXCEPT ![t] = r] /\ Done(s) /\ UNCHANGED councilVars
      BY <2>7 DEF RunBlock
    <3>4. QED
      BY <2>3, <3>1, <3>2, <3>3
  <2>8. ASSUME NEW op \in Jobs, NEW st \in {"paused", "planned"}, SetStatus(s, op, st)
        PROVE  TickInv'
    <3> DEFINE r == [row EXCEPT !.status = st]
    <3>1. r \in TickRow /\ r.status # "none" /\ r.filed = row.filed
      BY <2>1, <2>2 DEF TickRow, TickStatuses, JobStatuses
    <3>2. Settled(t, r)
      BY <2>1 DEF Settled, TickRow
    <3>3. tick' = [tick EXCEPT ![t] = r] /\ Done(s) /\ UNCHANGED councilVars
      BY <2>8 DEF SetStatus
    <3>4. QED
      BY <2>3, <3>1, <3>2, <3>3
  <2>9. CASE KillWrite(s)
    <3> DEFINE r == [row EXCEPT !.status = "cancelled", !.job = "cancelled"]
    <3>1. r \in TickRow /\ r.status # "none" /\ r.filed = row.filed
      BY <2>1, <2>2 DEF TickRow, TickStatuses, JobStatuses
    <3>2. Settled(t, r)
      BY <2>1 DEF Settled, TickRow
    <3>3. tick' = [tick EXCEPT ![t] = r] /\ Done(s) /\ UNCHANGED councilVars
      BY <2>9 DEF KillWrite
    <3>4. QED
      BY <2>3, <3>1, <3>2, <3>3
  <2>10. QED
    BY <1>5, <2>4, <2>5, <2>6, <2>7, <2>8, <2>9
       DEF RunAsk, RunDeny, PauseWrite, ResumeWrite, Jobs
<1>6. QED
  BY <1>1, <1>2, <1>3, <1>4, <1>5 DEF TickStep

\* TickInv holds in every reachable state.
THEOREM TickInvariant == Spec => []TickInv
<1>1. TickInv /\ [Next]_vars => TickInv'
  <2> SUFFICES ASSUME TickInv, [Next]_vars PROVE TickInv'
    OBVIOUS
  <2>1. CASE CouncilStep
    BY <2>1, CouncilStepTickInv
  <2>2. ASSUME NEW s \in Sessions, TickStep(s) PROVE TickInv'
    BY <2>2, TickStepTickInv
  <2>3. CASE UNCHANGED vars
    BY <2>3 DEF vars, councilVars, autonomyVars, TickInv, AutonomyTypeOK, TasksFounded,
       OneTickPerKey, OutcomeIsOnRecord, OnlyAllowedActionsAct, Recorded, RecordAt
  <2>4. QED
    BY <2>1, <2>2, <2>3 DEF Next
<1>2. QED
  BY InitTickInv, <1>1, PTL DEF Spec

\* Every variable of the ticks keeps its type: the rows of ticks, plans, tasks
\* and actions, and what the sessions carry between their commits.
THEOREM TickTypes == Spec => []AutonomyTypeOK
<1>1. TickInv => AutonomyTypeOK
  BY DEF TickInv
<1> QED
  BY TickInvariant, <1>1, PTL

\* Whatever sessions plan at once, an idempotency key has one tick.
THEOREM OneTick == Spec => []OneTickPerKey
<1>1. TickInv => OneTickPerKey
  BY DEF TickInv
<1>2. QED
  BY TickInvariant, <1>1, PTL

\* A tick's outcome is borne out by its job, its receipt and its record.
THEOREM OutcomesAreOnRecord == Spec => []OutcomeIsOnRecord
<1>1. TickInv => OutcomeIsOnRecord
  BY DEF TickInv
<1>2. QED
  BY TickInvariant, <1>1, PTL

\* Only an allowed action files a record.
THEOREM DeniedActionsAreIdle == Spec => []OnlyAllowedActionsAct
<1>1. TickInv => OnlyAllowedActionsAct
  BY DEF TickInv
<1>2. QED
  BY TickInvariant, <1>1, PTL

----------------------------------------------------------------------------
(* The lifecycle of the council *)

EventRow == [type : {"item", "entry"}, subject : Items \cup entries,
             from : Statuses \cup {"absent", "open"},
             to : Statuses \cup {"open", "filed"}, at : Seconds]

\* What an event was written for is still there, so a new entry has none; no
\* event is of a later second than this one.
EventsFounded ==
  /\ log \in [Objectives -> Seq(EventRow)]
  /\ \A o \in Objectives : \A n \in DOMAIN log[o] :
       /\ log[o][n].type = "entry" => log[o][n].subject \in entries
       /\ log[o][n].at <= now
  /\ \A e \in entries : e.objective \in Objectives

CouncilInv ==
  /\ AutonomyTypeOK
  /\ EventsFounded
  /\ LogTellsCouncil

LEMMA InitCouncilInv == Init => CouncilInv
<1> SUFFICES ASSUME Init PROVE CouncilInv
  OBVIOUS
<1>1. AutonomyTypeOK
  BY InitTickInv DEF TickInv
<1>2. EventsFounded
  BY DEF Init, CouncilInit, EventsFounded
<1>3. LogTellsCouncil
  BY CouncilAssumption DEF Init, CouncilInit, LogTellsCouncil, LatestTells, EventsOf, Exists,
     Items, OwnObjective
<1>4. QED
  BY <1>1, <1>2, <1>3 DEF CouncilInv

\* An operation that writes neither rows nor events keeps the invariant.
LEMMA QuietKeepsCouncilInv ==
  ASSUME CouncilInv, AutonomyTypeOK', UNCHANGED <<status, entries, log>>, now <= now'
  PROVE  CouncilInv'
<1>1. EventRow' = EventRow
  BY DEF EventRow
<1>2. EventsFounded'
  <2>1. \A o \in Objectives : \A n \in DOMAIN log[o] : log[o][n] \in EventRow
    BY DEF CouncilInv, EventsFounded
  <2>2. now \in Nat /\ now' \in Nat /\ Seconds \subseteq Nat
    BY CouncilAssumption DEF CouncilInv, AutonomyTypeOK, Seconds
  <2>3. \A o \in Objectives : \A n \in DOMAIN log[o] : log[o][n].at \in Nat
    BY <2>1, <2>2 DEF EventRow
  <2>4. \A o \in Objectives : \A n \in DOMAIN log[o] : log[o][n].at <= now'
    BY <2>2, <2>3 DEF CouncilInv, EventsFounded
  <2>5. QED
    BY <1>1, <2>4 DEF CouncilInv, EventsFounded
<1>3. \A type, x, o : EventsOf(type, x, o)' = EventsOf(type, x, o)
  BY DEF EventsOf
<1>4. ASSUME NEW i \in Items PROVE LatestTells(i)'
  <2>1. LatestTells(i)
    BY DEF CouncilInv, LogTellsCouncil
  <2>2. QED
    BY <1>3, <2>1 DEF LatestTells, Exists
<1>5. ASSUME NEW e \in entries' PROVE FiledOnce(e)'
  <2>1. FiledOnce(e)
    BY DEF CouncilInv, LogTellsCouncil
  <2>2. QED
    BY <1>3, <2>1 DEF FiledOnce
<1>6. QED
  BY <1>2, <1>4, <1>5 DEF CouncilInv, LogTellsCouncil

\* One event is appended: every older one keeps its number, and it alone can
\* be new among the events of a subject.
LEMMA LogEffect ==
  ASSUME EventsFounded, NEW o \in Objectives, NEW ev, Log(o, ev), entries \subseteq entries',
         ev \in EventRow'
  PROVE  /\ Len(log[o]) \in Nat /\ DOMAIN log[o] = 1..Len(log[o])
         /\ log' \in [Objectives -> Seq(EventRow')]
         /\ \A x \in Objectives \ {o} : log'[x] = log[x]
         /\ DOMAIN log'[o] = 1..(Len(log[o]) + 1)
         /\ log'[o][Len(log[o]) + 1] = ev
         /\ \A n \in DOMAIN log[o] : log'[o][n] = log[o][n]
<1>1. log \in [Objectives -> Seq(EventRow)]
      /\ log' = [log EXCEPT ![o] = Append(log[o], ev)]
  BY DEF EventsFounded, Log
<1>2. EventRow \subseteq EventRow'
  BY DEF EventRow
<1>3. ASSUME NEW x \in Objectives PROVE log[x] \in Seq(EventRow')
  BY <1>1, <1>2, SeqMonotonic
<1>4. Append(log[o], ev) \in Seq(EventRow')
  BY <1>3
<1>5. QED
  BY <1>1, <1>3, <1>4

LEMMA LogKeepsFounded ==
  ASSUME EventsFounded, NEW o \in Objectives, NEW ev, Log(o, ev), entries \subseteq entries',
         ev \in EventRow', ev.type = "entry" => ev.subject \in entries', ev.at = now,
         now \in Nat, UNCHANGED now, \A e \in entries' : e.objective \in Objectives
  PROVE  EventsFounded'
<1>1. ASSUME NEW x \in Objectives, NEW n \in DOMAIN log'[x]
      PROVE  /\ log'[x][n].type = "entry" => log'[x][n].subject \in entries'
             /\ log'[x][n].at <= now'
  <2>1. CASE x = o /\ n = Len(log[o]) + 1
    BY <1>1, <2>1, LogEffect
  <2>2. CASE ~ (x = o /\ n = Len(log[o]) + 1)
    <3>1. n \in DOMAIN log[x] /\ log'[x][n] = log[x][n]
      BY <1>1, <2>2, LogEffect
    <3>2. QED
      BY <1>1, <3>1 DEF EventsFounded
  <2>3. QED
    BY <2>1, <2>2
<1>2. log' \in [Objectives -> Seq(EventRow')]
  BY LogEffect
<1>3. QED
  BY <1>1, <1>2 DEF EventsFounded

LEMMA EventsOfEffect ==
  ASSUME EventsFounded, NEW o \in Objectives, NEW ev, Log(o, ev), entries \subseteq entries',
         ev \in EventRow', NEW type, NEW x, NEW p \in Objectives
  PROVE  EventsOf(type, x, p)' =
           IF p = o /\ ev.type = type /\ ev.subject = x
           THEN EventsOf(type, x, p) \cup {Len(log[o]) + 1} ELSE EventsOf(type, x, p)
BY LogEffect DEF EventsOf

\* A row of an item is written with its event.
LEMMA ItemKeepsCouncilInv ==
  ASSUME CouncilInv, AutonomyTypeOK', NEW i \in Items, NEW from \in Statuses \cup {"absent", "open"},
         NEW st \in Statuses \cup {"open"}, status' = [status EXCEPT ![i] = st],
         Log(OwnObjective(i), Event("item", i, from, st)), UNCHANGED <<entries, now>>
  PROVE  CouncilInv'
<1> USE DEF CouncilInv
<1> DEFINE o == OwnObjective(i)
           ev == Event("item", i, from, st)
<1>1. \A j \in Items : OwnObjective(j) \in Objectives
  BY CouncilAssumption DEF Items, OwnObjective
<1>2. ev \in EventRow' /\ ev.type = "item" /\ ev.subject = i /\ ev.to = st /\ ev.at = now
  BY DEF EventRow, Event, AutonomyTypeOK
<1> now \in Nat
  BY CouncilAssumption DEF AutonomyTypeOK, Seconds
<1>3. EventsFounded'
  <2>1. \A e \in entries' : e.objective \in Objectives
    BY DEF EventsFounded
  <2>2. QED
    BY <1>1, <1>2, <2>1, LogKeepsFounded
<1>4. ASSUME NEW j \in Items PROVE LatestTells(j)'
  <2> DEFINE p == OwnObjective(j)
  <2>1. LatestTells(j) /\ p \in Objectives
    BY <1>1 DEF LogTellsCouncil
  <2>2. CASE j = i
    <3>1. EventsOf("item", j, p)' = EventsOf("item", j, p) \cup {Len(log[o]) + 1}
      BY <1>1, <1>2, <2>2, EventsOfEffect
    <3>2. \A k \in EventsOf("item", j, p) : log'[p][k].at <= now
      BY <1>1, <1>2, <2>2, LogEffect DEF EventsOf, EventsFounded
    <3>3. /\ log'[p][Len(log[o]) + 1].to = status'[j]
          /\ log'[p][Len(log[o]) + 1].at = now
      BY <1>1, <1>2, <2>2, LogEffect DEF AutonomyTypeOK
    <3>4. /\ Len(log[o]) + 1 \in EventsOf("item", j, p)'
          /\ \A k \in EventsOf("item", j, p)' : log'[p][k].at <= log'[p][Len(log[o]) + 1].at
      BY <3>1, <3>2, <3>3
    <3>5. QED
      BY <3>3, <3>4 DEF LatestTells
  <2>3. CASE j # i
    <3>1. EventsOf("item", j, p)' = EventsOf("item", j, p)
      BY <1>1, <1>2, <2>1, <2>3, EventsOfEffect
    <3>2. \A n \in EventsOf("item", j, p) : log'[p][n] = log[p][n]
      BY <1>1, <1>2, <2>1, LogEffect DEF EventsOf
    <3>3. status'[j] = status[j]
      BY <2>3 DEF AutonomyTypeOK
    <3>4. QED
      BY <2>1, <3>1, <3>2, <3>3 DEF LatestTells, Exists
  <2>4. QED
    BY <2>2, <2>3
<1>5. ASSUME NEW e \in entries' PROVE FiledOnce(e)'
  <2>1. FiledOnce(e) /\ e.objective \in Objectives
    BY <1>5 DEF LogTellsCouncil, EventsFounded
  <2>2. EventsOf("entry", e, e.objective)' = EventsOf("entry", e, e.objective)
    BY <1>1, <1>2, <2>1, EventsOfEffect
  <2>3. DOMAIN log[e.objective] \subseteq DOMAIN log'[e.objective]
    BY <1>1, <1>2, <2>1, LogEffect
  <2>4. QED
    BY <2>1, <2>2, <2>3 DEF FiledOnce
<1>6. QED
  BY <1>3, <1>4, <1>5 DEF LogTellsCouncil

\* An entry is filed with its event.
LEMMA EntryKeepsCouncilInv ==
  ASSUME CouncilInv, AutonomyTypeOK', NEW e, Insert(e), e.objective \in Objectives
  PROVE  CouncilInv'
<1> USE DEF CouncilInv
<1> DEFINE o == e.objective
           ev == Event("entry", e, "absent", "filed")
<1>1. /\ e \notin entries /\ entries' = entries \cup {e} /\ UNCHANGED status
      /\ Log(o, ev) /\ o \in Objectives /\ entries \subseteq entries' /\ UNCHANGED now
  BY DEF Insert, EntryIdTaken
<1>2. ev \in EventRow' /\ ev.type = "entry" /\ ev.subject = e /\ ev.at = now
  BY <1>1 DEF EventRow, Event, AutonomyTypeOK
<1> now \in Nat
  BY CouncilAssumption DEF AutonomyTypeOK, Seconds
<1>3. EventsFounded'
  <2>1. \A d \in entries' : d.objective \in Objectives
    BY <1>1 DEF EventsFounded
  <2>2. ev.subject \in entries'
    BY <1>1, <1>2
  <2>3. QED
    BY <1>1, <1>2, <2>1, <2>2, LogKeepsFounded
<1>4. ASSUME NEW j \in Items PROVE LatestTells(j)'
  <2> DEFINE p == OwnObjective(j)
  <2>1. LatestTells(j) /\ p \in Objectives
    BY CouncilAssumption DEF LogTellsCouncil, Items, OwnObjective
  <2>2. EventsOf("item", j, p)' = EventsOf("item", j, p)
    BY <1>1, <1>2, <2>1, EventsOfEffect
  <2>3. \A n \in EventsOf("item", j, p) : log'[p][n] = log[p][n]
    BY <1>1, <1>2, <2>1, LogEffect DEF EventsOf
  <2>4. QED
    BY <1>1, <2>1, <2>2, <2>3 DEF LatestTells, Exists
<1>5. ASSUME NEW d \in entries' PROVE FiledOnce(d)'
  <2>1. CASE d = e
    <3>1. EventsOf("entry", e, o) = {}
      BY <1>1 DEF EventsOf, EventsFounded
    <3>2. EventsOf("entry", e, o)' = {Len(log[o]) + 1}
      BY <1>1, <1>2, <3>1, EventsOfEffect
    <3>3. Len(log[o]) + 1 \in DOMAIN log'[o]
      BY <1>1, <1>2, LogEffect
    <3>4. QED
      BY <2>1, <3>2, <3>3 DEF FiledOnce
  <2>2. CASE d # e
    <3>1. FiledOnce(d) /\ d.objective \in Objectives
      BY <1>1, <2>2 DEF LogTellsCouncil, EventsFounded
    <3>2. EventsOf("entry", d, d.objective)' = EventsOf("entry", d, d.objective)
      BY <1>1, <1>2, <2>2, <3>1, EventsOfEffect
    <3>3. DOMAIN log[d.objective] \subseteq DOMAIN log'[d.objective]
      BY <1>1, <1>2, <3>1, LogEffect
    <3>4. QED
      BY <3>1, <3>2, <3>3 DEF FiledOnce
  <2>3. QED
    BY <2>1, <2>2
<1>6. QED
  BY <1>3, <1>4, <1>5 DEF LogTellsCouncil

LEMMA CouncilNextKeepsCouncilInv ==
  ASSUME CouncilInv, AutonomyTypeOK', CouncilNext
  PROVE  CouncilInv'
<1>0. now \in Nat
  BY CouncilAssumption DEF CouncilInv, AutonomyTypeOK, Seconds
<1>1. ASSUME NEW i \in Items, NEW st \in Statuses \cup {"open"}, Create(i, st)
      PROVE  CouncilInv'
  BY <1>1, ItemKeepsCouncilInv DEF Create
<1>2. ASSUME NEW s \in Sessions, UpdateWrite(s)
      PROVE  CouncilInv'
  <2>1. pc[s] \in Update
    BY <1>2 DEF UpdateWrite, CouncilInv, AutonomyTypeOK
  <2>2. /\ pc[s].item \in Items /\ pc[s].to \in Statuses
        /\ pc[s].seen \in Statuses \cup {"absent", "open"}
    BY <2>1 DEF Update
  <2>3. QED
    BY <1>2, <2>2, ItemKeepsCouncilInv DEF UpdateWrite
<1>3. ASSUME NEW o \in Objectives, NEW label \in Labels, File(o, label)
      PROVE  CouncilInv'
  BY <1>3, EntryKeepsCouncilInv
     DEF File, CreateRecord, AttachEvidence, RecordReview, CreateHandoff, Entry
<1>4. ASSUME NEW s \in Sessions,
             (\E i \in Items, to \in Statuses : UpdateRead(s, i, to)) \/ UpdateCollides(s) \/ Drop(s)
      PROVE  CouncilInv'
  BY <1>4, <1>0, QuietKeepsCouncilInv DEF UpdateRead, UpdateCollides, Drop
<1>5. CASE Tick
  BY <1>0, <1>5, QuietKeepsCouncilInv DEF Tick
<1>6. QED
  BY <1>1, <1>2, <1>3, <1>4, <1>5 DEF CouncilNext

\* Of a tick's operations only the one that files its record reaches the
\* council.
LEMMA TickStepKeepsCouncilInv ==
  ASSUME CouncilInv, AutonomyTypeOK, AutonomyTypeOK', NEW s \in Sessions, TickStep(s)
  PROVE  CouncilInv'
<1>1. CASE RunRecord(s)
  <2>1. task[s].tick \in Ticks
    BY <1>1 DEF RunRecord, At, AutonomyTypeOK, Task
  <2>2. TickObjective[task[s].tick] \in Objectives
    BY <2>1, AutonomyAssumption
  <2>3. QED
    BY <1>1, <2>2, EntryKeepsCouncilInv DEF RunRecord, CreateRecord, Entry
<1>2. CASE UNCHANGED councilVars
  <2>1. now \in Nat
    BY CouncilAssumption DEF AutonomyTypeOK, Seconds
  <2>2. QED
    BY <1>2, <2>1, QuietKeepsCouncilInv DEF councilVars
<1>3. RunRecord(s) \/ UNCHANGED councilVars
  BY DEF TickStep, PlanRead, RunRead, Control, TakeUp, PlanWrite, PlanCollides, RunStart,
     RunRecordCollides, RunFinish, RunAsk, RunDeny, Decide, DecisionCollides, RunBlock,
     PauseWrite, ResumeWrite, SetStatus, KillWrite, Crash
<1>4. QED
  BY <1>1, <1>2, <1>3

\* Whatever operators and ticks write at once, and whatever collides, some event
\* of the latest second in which something happened to an item has its status,
\* and what is filed has one event.
THEOREM LogTellsTheCouncil == Spec => []LogTellsCouncil
<1>1. CouncilInv /\ AutonomyTypeOK' /\ [Next]_vars => CouncilInv'
  <2> SUFFICES ASSUME CouncilInv, AutonomyTypeOK', [Next]_vars PROVE CouncilInv'
    OBVIOUS
  <2>1. CASE CouncilStep
    BY <2>1, CouncilNextKeepsCouncilInv DEF CouncilStep
  <2>2. ASSUME NEW s \in Sessions, TickStep(s) PROVE CouncilInv'
    BY <2>2, TickStepKeepsCouncilInv DEF CouncilInv
  <2>3. CASE UNCHANGED vars
    <3>1. now \in Nat
      BY CouncilAssumption DEF CouncilInv, AutonomyTypeOK, Seconds
    <3>2. QED
      BY <2>3, <3>1, QuietKeepsCouncilInv DEF vars, councilVars
  <2>4. QED
    BY <2>1, <2>2, <2>3 DEF Next
<1>2. TickInv => AutonomyTypeOK
  BY DEF TickInv
<1>3. CouncilInv => LogTellsCouncil
  BY DEF CouncilInv
<1>4. QED
  BY InitCouncilInv, TickInvariant, <1>1, <1>2, <1>3, PTL DEF Spec
=============================================================================
