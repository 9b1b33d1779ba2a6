-------------------------- MODULE MemoryLifecycle --------------------------
(***************************************************************************)
(* The life of a memory in the canonical store: proposals, their review,   *)
(* the approved write that creates or revises a memory, tombstone,         *)
(* rollback to an earlier version, and the scoring scenarios that move a   *)
(* memory's status (curation.py, scoring.py and the FTS triggers of        *)
(* 0001_initial_schema.sql).                                               *)
(*                                                                         *)
(* Several sessions (a CLI process, the loopback UI, a worker, a host that *)
(* uses the Python API) share one SQLite file.  A Python connection opens  *)
(* its transaction at the first INSERT or UPDATE, so an operation that     *)
(* starts with one is a single step, and one that starts with a SELECT     *)
(* (tombstone, rollback) reads before it holds the write lock.             *)
(*                                                                         *)
(* A memory's id is derived from the proposal that creates it, so memories *)
(* are named by proposals here.  A proposal's target source and target     *)
(* memory are part of its own id and never change.                         *)
(***************************************************************************)
EXTENDS Naturals, Sequences

CONSTANTS
  Proposals,      \* proposal ids; the memory created by p is also called p
  Contents,       \* what a proposal or a version says (title, summary, body)
  Sources,        \* target sources of proposals
  WriteAllowed,   \* those with write authority: the canonical store, which
                  \*   ensure_compat02_runtime installs, and overflow sources
  Sessions,       \* database connections
  Continues,      \* sessions that go on using their connection after an error
  Scenarios,      \* the scoring scenarios in use
  SourceOf,       \* the target source of each proposal
  TargetOf,       \* the memory a proposal revises, or NewMemory
  DraftOf,        \* the content a proposal is created with
  NewMemory, NoSession, NoRead, NoRow,
  MaxVersion,     \* bound: versions of one memory
  MaxEvents,      \* bound: a memory with that many lifecycle events is only
                  \*   written to, not tombstoned, rolled back or scored
  MaxSecond       \* bound: the clock, whose resolution is one second

Versions == 1..MaxVersion
Seconds == 0..MaxSecond

ASSUME ConstantsAssumption ==
  /\ WriteAllowed \subseteq Sources
  /\ Continues \subseteq Sessions
  /\ Scenarios \subseteq {"correction", "contradiction", "stale_project_state",
                         "unsupported_hot_signal", "repeated_preference",
                         "duplicate_fact", "weak_signal", "decay"}
  /\ SourceOf \in [Proposals -> Sources]
  /\ TargetOf \in [Proposals -> Proposals \cup {NewMemory}]
  /\ DraftOf \in [Proposals -> Contents]
  /\ NewMemory \notin Proposals
  /\ NoSession \notin Sessions
  /\ MaxVersion \in Nat /\ MaxEvents \in Nat /\ MaxSecond \in Nat

ProposalStatuses == {"none", "proposed", "edited", "approved", "rejected", "written"}

\* Mutant: the terminal check of a review forgets "written".
OpenOrWritten == {"proposed", "edited", "approved", "written"}

\* The statuses a review may act on.
Open == {"proposed", "edited", "approved"}

MemoryStatuses == {"absent", "active", "stale", "contradicted", "quarantined", "tombstoned"}

\* The statuses the FTS triggers keep out of the index.
Unindexed == {"absent", "quarantined", "tombstoned"}

VARIABLES
  proposal,    \* memory_proposals: status, content, and the content last approved
  versions,    \* memory_versions: primary key (memory, version)
  lifecycle,   \* memory_lifecycle_events of each memory, in commit order
  db,          \* memories rows and their FTS index as the open transaction
               \*   sees them
  disk,        \* the same as last committed
  writer,      \* the session that holds the write lock with an open transaction
  pc,          \* what a session read before its write transaction began
  now          \* now_utc()

vars == <<proposal, versions, lifecycle, db, disk, writer, pc, now>>

Row == [content : Contents, by : Proposals, prev : 0..MaxVersion]
Event == [kind : {"write", "tombstone", "rollback"} \cup Scenarios,
          version : 0..MaxVersion,
          from : MemoryStatuses, to : MemoryStatuses, at : Seconds]
Image == [status : [Proposals -> MemoryStatuses],
          current : [Proposals -> 0..MaxVersion],
          index : [Proposals -> SUBSET Versions]]
Pending == [op : {"tombstone", "rollback"}, mem : Proposals,
            version : 0..MaxVersion, seen : MemoryStatuses]

ASSUME NullAssumption == NoRow \notin Row /\ NoRead \notin Pending

TypeOK ==
  /\ proposal \in [Proposals -> [status : ProposalStatuses, content : Contents,
                                 signed : SUBSET Contents]]
  /\ versions \in [Proposals -> [Versions -> Row \cup {NoRow}]]
  /\ lifecycle \in [Proposals -> Seq(Event)]
  /\ db \in Image
  /\ disk \in Image
  /\ writer \in Sessions \cup {NoSession}
  /\ pc \in [Sessions -> Pending \cup {NoRead}]
  /\ now \in Seconds

----------------------------------------------------------------------------
(* Helpers *)

Revises(p) == TargetOf[p] # NewMemory
MemoryOf(p) == IF Revises(p) THEN TargetOf[p] ELSE p

\* Mutant: the trigger inserts the new row and leaves the old one.
UpdateWithoutDelete(d, m, st, v) ==
  [status |-> [d.status EXCEPT ![m] = st],
   current |-> [d.current EXCEPT ![m] = v],
   index |-> [d.index EXCEPT ![m] = IF st \notin Unindexed /\ versions[m][v] # NoRow
                                    THEN @ \cup {v} ELSE @]]

\* An UPDATE of a memories row with its trigger memories_au.
UpdateMemory(d, m, st, v) ==
  [status |-> [d.status EXCEPT ![m] = st],
   current |-> [d.current EXCEPT ![m] = v],
   index |-> [d.index EXCEPT ![m] = IF st \notin Unindexed /\ versions[m][v] # NoRow
                                    THEN {v} ELSE {}]]

\* Trigger memory_versions_ai, after version v of m has been inserted.
IndexVersion(d, m, v) ==
  IF d.current[m] = v /\ d.status[m] \notin Unindexed
  THEN [d EXCEPT !.index = [d.index EXCEPT ![m] = d.index[m] \cup {v}]]
  ELSE d

Commit(d) == db' = d /\ disk' = d /\ writer' = NoSession
LeaveOpen(s, d) == db' = d /\ writer' = s /\ UNCHANGED disk

\* The write lock is free, or held by a host that goes on after an error.
MayWrite(s) == writer = NoSession \/ (writer = s /\ s \in Continues)
Begin(s) == pc[s] = NoRead /\ MayWrite(s)

\* What a SELECT outside a transaction sees.
Visible(s) == IF writer = s THEN db ELSE disk
MayRead(s) == pc[s] = NoRead /\ (writer = s => s \in Continues)

\* Mutant: the previous status is read after the update.
EventAfterUpdate(kind, v, from, to, at) ==
  [kind |-> kind, version |-> v, from |-> to, to |-> to, at |-> at]

NewEvent(kind, v, from, to, at) ==
  [kind |-> kind, version |-> v, from |-> from, to |-> to, at |-> at]

\* memory_lifecycle_events has its id derived from (memory, kind, version,
\* second): two equal ones violate the primary key.
EventIdTaken(m, kind, v, at) ==
  \E i \in DOMAIN lifecycle[m] :
    /\ lifecycle[m][i].kind = kind
    /\ lifecycle[m][i].version = v
    /\ lifecycle[m][i].at = at
RoomForEvent(m) == Len(lifecycle[m]) < MaxEvents    \* bound
Record(m, e) == lifecycle' = [lifecycle EXCEPT ![m] = Append(@, e)]

EmptyImage == [status |-> [m \in Proposals |-> "absent"],
               current |-> [m \in Proposals |-> 0],
               index |-> [m \in Proposals |-> {}]]

Init ==
  /\ proposal = [p \in Proposals |->
                   [status |-> "none", content |-> DraftOf[p], signed |-> {}]]
  /\ versions = [m \in Proposals |-> [v \in Versions |-> NoRow]]
  /\ lifecycle = [m \in Proposals |-> <<>>]
  /\ db = EmptyImage
  /\ disk = EmptyImage
  /\ writer = NoSession
  /\ pc = [s \in Sessions |-> NoRead]
  /\ now = 0

----------------------------------------------------------------------------
(* Proposals *)

TargetExists(p) == Revises(p) => db.status[TargetOf[p]] # "absent"

CreateProposal(s, p) ==
  /\ Begin(s)
  /\ proposal[p].status = "none"
  /\ TargetExists(p)
  /\ proposal' = [proposal EXCEPT ![p].status = "proposed"]
  /\ Commit(db)
  /\ UNCHANGED <<versions, lifecycle, pc, now>>

Approve(s, p) ==
  /\ Begin(s)
  /\ proposal[p].status \in Open
  /\ proposal' = [proposal EXCEPT
                    ![p] = [@ EXCEPT !.status = "approved", !.signed = {proposal[p].content}]]
  /\ Commit(db)
  /\ UNCHANGED <<versions, lifecycle, pc, now>>

Reject(s, p) ==
  /\ Begin(s)
  /\ proposal[p].status \in Open
  /\ proposal' = [proposal EXCEPT ![p].status = "rejected"]
  /\ Commit(db)
  /\ UNCHANGED <<versions, lifecycle, pc, now>>

\* Mutant: an edit leaves an approval in force.
EditKeepingApproval(s, p, c) ==
  /\ Begin(s)
  /\ proposal[p].status \in Open
  /\ proposal' = [proposal EXCEPT ![p].content = c]
  /\ Commit(db)
  /\ UNCHANGED <<versions, lifecycle, pc, now>>

\* An edit changes the content and takes an earlier approval back.
Edit(s, p, c) ==
  /\ Begin(s)
  /\ proposal[p].status \in Open
  /\ proposal' = [proposal EXCEPT ![p] = [@ EXCEPT !.status = "edited", !.content = c]]
  /\ Commit(db)
  /\ UNCHANGED <<versions, lifecycle, pc, now>>

----------------------------------------------------------------------------
(* write_memory *)

Writable(p) ==
  /\ proposal[p].status = "approved"
  /\ SourceOf[p] \in WriteAllowed
  /\ TargetExists(p)

\* Mutant: the highest version plus one, with the current one as predecessor.
VersionAfterHighest(p) ==
  IF ~ Revises(p) THEN 1
  ELSE CHOOSE v \in 1..(MaxVersion + 1) :
         /\ v \in Versions => versions[TargetOf[p]][v] = NoRow
         /\ \A w \in 1..(v - 1) : versions[TargetOf[p]][w] # NoRow

NextVersion(p) == IF Revises(p) THEN db.current[TargetOf[p]] + 1 ELSE 1

\* The rows that a write of p stores and commits.
StoreVersion(p) ==
  LET m == MemoryOf(p)
      v == NextVersion(p)
  IN /\ Writable(p)
     /\ v \in Versions    \* bound
     /\ versions[m][v] = NoRow
     /\ versions' = [versions EXCEPT ![m][v] =
                       [content |-> proposal[p].content, by |-> p, prev |-> db.current[m]]]
     /\ Record(m, NewEvent("write", v, db.status[m], "active", now))
     /\ proposal' = [proposal EXCEPT ![p].status = "written"]
     /\ Commit(IndexVersion(UpdateMemory(db, m, "active", v), m, v))

WriteMemory(s, p) == Begin(s) /\ StoreVersion(p) /\ UNCHANGED <<pc, now>>

\* The row (m, current + 1) exists already: the memory was rolled back.  The
\* INSERT violates the primary key after the memories row has been updated,
\* and the exception leaves that update in the open transaction.
VersionTaken(p) ==
  /\ Writable(p)
  /\ NextVersion(p) \in Versions    \* bound
  /\ versions[MemoryOf(p)][NextVersion(p)] # NoRow

WriteCollides(s, p) ==
  /\ Begin(s)
  /\ VersionTaken(p)
  /\ LeaveOpen(s, UpdateMemory(db, MemoryOf(p), "active", NextVersion(p)))
  /\ UNCHANGED <<proposal, versions, lifecycle, pc, now>>

\* The early exits of create, review and write (an existing proposal, a
\* terminal one, an unapproved one, a denied source, an unknown memory): the
\* runtime rows have been written, nothing is committed.
Refused(s) ==
  /\ Begin(s)
  /\ \E p \in Proposals :
       \/ proposal[p].status \notin {"none"} \cup Open
       \/ ~ TargetExists(p)
       \/ ~ Writable(p)
  /\ LeaveOpen(s, db)
  /\ UNCHANGED <<proposal, versions, lifecycle, pc, now>>

----------------------------------------------------------------------------
(* tombstone_memory and rollback_memory: a read, then a write transaction *)

TombstoneRead(s, m) ==
  LET seen == Visible(s).status[m]
  IN /\ MayRead(s)
     /\ seen \notin {"absent", "tombstoned"}
     /\ pc' = [pc EXCEPT ![s] = [op |-> "tombstone", mem |-> m, version |-> 0, seen |-> seen]]
     /\ UNCHANGED <<proposal, versions, lifecycle, db, disk, writer, now>>

\* Mutant: a rollback does not look up the version it is asked for.
RollbackUnchecked(s, m, v) ==
  /\ MayRead(s)
  /\ Visible(s).status[m] # "absent"
  /\ pc' = [pc EXCEPT ![s] = [op |-> "rollback", mem |-> m, version |-> v,
                              seen |-> Visible(s).status[m]]]
  /\ UNCHANGED <<proposal, versions, lifecycle, db, disk, writer, now>>

RollbackRead(s, m, v) ==
  /\ MayRead(s)
  /\ versions[m][v] # NoRow
  /\ pc' = [pc EXCEPT ![s] = [op |-> "rollback", mem |-> m, version |-> v,
                              seen |-> Visible(s).status[m]]]
  /\ UNCHANGED <<proposal, versions, lifecycle, db, disk, writer, now>>

StatusAfter(op) == IF op = "tombstone" THEN "tombstoned" ELSE "active"

\* The UPDATE that the pending operation q makes: a tombstone leaves the
\* current version alone.
Pend(q) == UpdateMemory(db, q.mem, StatusAfter(q.op),
                        IF q.op = "tombstone" THEN db.current[q.mem] ELSE q.version)

FinishPending(s) ==
  /\ pc[s] # NoRead
  /\ MayWrite(s)
  /\ LET q == pc[s]
     IN /\ ~ EventIdTaken(q.mem, q.op, q.version, now)
        /\ RoomForEvent(q.mem)
        /\ Record(q.mem, NewEvent(q.op, q.version, q.seen, StatusAfter(q.op), now))
        /\ Commit(Pend(q))
  /\ pc' = [pc EXCEPT ![s] = NoRead]
  /\ UNCHANGED <<proposal, versions, now>>

\* The same operation on the same memory twice in one second.
PendingCollides(s) ==
  /\ pc[s] # NoRead
  /\ MayWrite(s)
  /\ EventIdTaken(pc[s].mem, pc[s].op, pc[s].version, now)
  /\ LeaveOpen(s, Pend(pc[s]))
  /\ pc' = [pc EXCEPT ![s] = NoRead]
  /\ UNCHANGED <<proposal, versions, lifecycle, now>>

----------------------------------------------------------------------------
(* apply_scoring_scenario *)

\* The scenarios that only move a memory's weights leave its status.  Feedback
\* on retrievals, the last of them, is left out.
Reweighing == {"duplicate_fact", "weak_signal", "decay"}

ScoredStatus(scenario, before) ==
  CASE scenario \in {"correction", "contradiction"} -> "contradicted"
    [] scenario = "stale_project_state"             -> "stale"
    [] scenario = "unsupported_hot_signal"          -> "quarantined"
    [] scenario = "repeated_preference"             -> IF before = "stale" THEN "active" ELSE before
    [] scenario \in Reweighing                      -> before

\* The scenarios that give the memory a status of their own record it.
Recorded(scenario) == scenario \notin Reweighing \cup {"repeated_preference"}

ScoreMemory(s, m, scenario, at) ==
  LET before == db.status[m]
      after == ScoredStatus(scenario, before)
  IN /\ Begin(s)
     /\ before # "absent"
     /\ \/ /\ Recorded(scenario)
           /\ ~ EventIdTaken(m, scenario, 0, at)
           /\ RoomForEvent(m)
           /\ Record(m, NewEvent(scenario, 0, before, after, at))
        \/ ~ Recorded(scenario) /\ UNCHANGED lifecycle
     /\ Commit(UpdateMemory(db, m, after, db.current[m]))
     /\ UNCHANGED <<proposal, versions, pc, now>>

\* The row of a correction collides before the memory is updated.
ScoreCollides(s, m, scenario, at) ==
  /\ Begin(s)
  /\ db.status[m] # "absent"
  /\ Recorded(scenario)
  /\ EventIdTaken(m, scenario, 0, at)
  /\ LeaveOpen(s, IF scenario = "correction" THEN db
                  ELSE UpdateMemory(db, m, ScoredStatus(scenario, db.status[m]), db.current[m]))
  /\ UNCHANGED <<proposal, versions, lifecycle, pc, now>>

----------------------------------------------------------------------------
(* The surfaces around an operation: `with conn` commits after a caught     *)
(* CurationError and rolls back when another exception passes through.      *)

\* Mutant: a surface that catches every exception inside `with conn`.
FailuresForgotten == TRUE

\* No operation raised after its UPDATE: the open transaction changes nothing.
NothingFailed ==
  db.status = disk.status /\ db.current = disk.current /\ db.index = disk.index

HostCommits(s) ==
  /\ writer = s
  /\ NothingFailed \/ s \in Continues
  /\ Commit(db)
  /\ UNCHANGED <<proposal, versions, lifecycle, pc, now>>

HostRollsBack(s) ==
  /\ writer = s
  /\ Commit(disk)
  /\ UNCHANGED <<proposal, versions, lifecycle, pc, now>>

\* The process of a session dies; SQLite drops its open transaction.
Crash(s) ==
  /\ writer = s \/ pc[s] # NoRead
  /\ IF writer = s THEN Commit(disk) ELSE UNCHANGED <<db, disk, writer>>
  /\ pc' = [pc EXCEPT ![s] = NoRead]
  /\ UNCHANGED <<proposal, versions, lifecycle, now>>

Tick ==
  /\ now < MaxSecond    \* bound
  /\ now' = now + 1
  /\ UNCHANGED <<proposal, versions, lifecycle, db, disk, writer, pc>>

ProposalStep ==
  \E s \in Sessions, p \in Proposals :
    \/ CreateProposal(s, p) \/ Approve(s, p) \/ Reject(s, p)
    \/ \E c \in Contents : Edit(s, p, c)
WriteStep ==
  \E s \in Sessions, p \in Proposals : WriteMemory(s, p) \/ WriteCollides(s, p)
StatusStep ==
  \E s \in Sessions, m \in Proposals :
    \/ TombstoneRead(s, m)
    \/ \E v \in Versions : RollbackRead(s, m, v)
    \/ \E scenario \in Scenarios, at \in Seconds :
         ScoreMemory(s, m, scenario, at) \/ ScoreCollides(s, m, scenario, at)
SessionStep ==
  \E s \in Sessions :
    \/ Refused(s) \/ FinishPending(s) \/ PendingCollides(s)
    \/ HostCommits(s) \/ HostRollsBack(s) \/ Crash(s)

Next ==
  \/ ProposalStep \/ WriteStep \/ StatusStep \/ SessionStep \/ Tick

Spec == Init /\ [][Next]_vars

----------------------------------------------------------------------------
(* Properties *)

RowsBy(p) == {r \in Proposals \X Versions : versions[r[1]][r[2]] # NoRow /\ versions[r[1]][r[2]].by = p}

\* "Only approved proposals can be written" (curate-review-and-revise.md): a
\* written proposal has exactly one version, whose content is the one its last
\* approval was given for, whatever edits, re-approvals and failed or repeated
\* writes came before; and no version comes from a proposal not written.
WrittenIsWhatWasApproved ==
  \A p \in Proposals :
    IF proposal[p].status = "written"
    THEN \E r \in RowsBy(p) :
           /\ RowsBy(p) = {r}
           /\ r[1] = MemoryOf(p)
           /\ {versions[r[1]][r[2]].content} = proposal[p].signed
    ELSE RowsBy(p) = {}

\* The hash chain of a memory's versions: each version names the version with
\* the number before its own as its predecessor, and that one exists, however
\* often the memory was rolled back in between.
VersionChainUnbroken ==
  \A m \in Proposals, v \in Versions :
    versions[m][v] # NoRow =>
      /\ versions[m][v].prev = v - 1
      /\ v > 1 => versions[m][v - 1] # NoRow

\* A stored memory always has its current version, also in what an aborted
\* write leaves in an open transaction.
CurrentVersionExists ==
  \A d \in {db, disk} : \A m \in Proposals :
    IF d.status[m] = "absent" THEN d.current[m] = 0
    ELSE d.current[m] \in Versions /\ versions[m][d.current[m]] # NoRow

\* The lexical index, which triggers keep, holds one row for each memory that
\* may be searched, that of its current version, and none for the others.
IndexMirrorsStore ==
  \A d \in {db, disk} : \A m \in Proposals :
    d.index[m] = IF d.status[m] \in Unindexed THEN {} ELSE {d.current[m]}

LastEvent(m) == lifecycle[m][Len(lifecycle[m])]
Versioned(m) == {i \in DOMAIN lifecycle[m] : lifecycle[m][i].kind \in {"write", "rollback"}}

\* "... and retain audit history" (memory-states.md): with hosts that roll
\* back after an error, the committed status and current version of a memory
\* are the ones its lifecycle events lead to.  Only a confirmed preference
\* turns a stale memory active without an event.
HistoryExplainsStore ==
  Continues = {} =>
    \A m \in Proposals :
      IF lifecycle[m] = <<>> THEN disk.status[m] = "absent"
      ELSE /\ \/ disk.status[m] = LastEvent(m).to
              \/ LastEvent(m).to = "stale" /\ disk.status[m] = "active"
           /\ \E i \in Versioned(m) :
                /\ \A j \in Versioned(m) : j <= i
                /\ disk.current[m] = lifecycle[m][i].version

\* The part of "state transitions reject stale requests" that the code keeps:
\* a write or a score reads the memory inside its own transaction, so, with
\* hosts that roll back after an error, the status it records as the one it
\* left is the one the previous event set.
TransactionalEventsAreCurrent ==
  Continues = {} =>
    \A m \in Proposals : \A i \in DOMAIN lifecycle[m] :
      LET e == lifecycle[m][i]
          before == IF i = 1 THEN "absent" ELSE lifecycle[m][i - 1].to
      IN e.kind \notin {"tombstone", "rollback"} =>
           \/ e.from = before
           \/ before = "stale" /\ e.from = "active"

\* "Approved writes create immutable memory versions" and "do not delete
\* history": no step changes a stored version, shortens or rewrites a
\* lifecycle, or takes a proposal out of a terminal status.
OnlyGrows ==
  /\ \A m \in Proposals, v \in Versions :
       versions[m][v] # NoRow => versions'[m][v] = versions[m][v]
  /\ \A m \in Proposals : \A i \in DOMAIN lifecycle[m] :
       i \in DOMAIN lifecycle'[m] /\ lifecycle'[m][i] = lifecycle[m][i]
  /\ \A p \in Proposals :
       proposal[p].status \in {"rejected", "written"} => proposal'[p] = proposal[p]

HistoryIsAppendOnly == [][OnlyGrows]_vars

\* "To correct a memory, create a revision proposal against the existing
\* memory" (curate-review-and-revise.md): an approved revision can be written.
ApprovedRevisionWritable ==
  \A p \in Proposals : writer = NoSession => ~ VersionTaken(p)
=============================================================================
