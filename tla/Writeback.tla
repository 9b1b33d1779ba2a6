----------------------------- MODULE Writeback -----------------------------
(***************************************************************************)
(* The recoverable writeback of one bounded Markdown file                  *)
(* (live_overflow.py): authorization, the trim transaction over a file and *)
(* a database that cannot commit together, reconciliation after a crash,   *)
(* rollback, and the coordinator that drives them.                         *)
(*                                                                         *)
(* Processes share the file, the private directory (backup, spool and      *)
(* recovery authorization of each operation), the database and an flock on *)
(* the target.  Every database commit and every change of a file is a step *)
(* of its own; between two of them another process runs, the file is       *)
(* edited by its owner, a call raises or the process dies.                 *)
(***************************************************************************)
EXTENDS Naturals, Sequences, FiniteSets

CONSTANTS
  Contents,     \* what the file may say
  OverTrigger,  \* those at which the pressure policy trims
  TrimOf,       \* what the trim plan leaves; the same content if it is blocked
  StartContent,
  Procs,
  Undos,        \* operation ids of rollbacks, each for one trim operation
  Undone,       \* the trim operation that a rollback is authorized for
  MaxRetries,   \* bound: operations on one content after the coordinator's first
  Free,         \* nobody: holds the lock, runs no operation
  MaxEdits,     \* bound: edits of the file by its owner
  MaxFailures   \* bound: crashes and exceptions

\* A trim operation is named for the content it is bound to.  The coordinator
\* derives its id from that content (tag 0) and, when the authorization of
\* that id was never used, from the number of authorizations (tags from 1); an
\* operator authorizes an operation with an id of its own (a tag from 1 too).
\* Operations bound to a content below the trigger, which change nothing, are
\* left out.
TrimOps == [before : OverTrigger, tag : 0..MaxRetries]
Ops == TrimOps \cup Undos
NoOp == [before |-> Free, tag |-> 0]

ASSUME WritebackAssumption ==
  /\ OverTrigger \subseteq Contents
  /\ TrimOf \in [OverTrigger -> Contents]
  /\ StartContent \in Contents
  /\ Undone \in [Undos -> TrimOps]
  /\ Free \notin Procs \cup Contents
  /\ Undos \cap (TrimOps \cup {NoOp}) = {}    \* no operation has two ids
  /\ MaxRetries \in Nat /\ MaxEdits \in Nat /\ MaxFailures \in Nat

Terminal == {"completed", "blocked_target_unreachable", "rolled_back", "failed_before_mutation"}
\* "completed" stands for "completed_partial" too.
\* The states the coordinator looks for.
Interrupted == {"recovery_required", "concurrent_edit_detected", "file_replaced",
                "readback_verified", "evidence_pending", "backup_durable", "locked"}
States == {"none", "authorized", "rollback_locked", "rollback_file_replaced",
           "rollback_evidence_reconciled"} \cup Terminal \cup Interrupted

\* Where a process stands: named for what it does next.
TrimPCs == {"lock", "read", "backup", "spool", "recheck", "replace", "replaced", "readback",
            "evidence", "rename", "complete"}
UndoPCs == {"undo_lock", "undo_read", "undo_recheck", "undo_replace", "undo_replaced",
            "undo_readback", "undo_evidence", "undo_reconciled", "undo_close", "undo_original"}
ReconcilePCs == {"rec_lock", "rec_rename", "rec_complete", "rec_undo"}
FailurePCs == {"failed", "failed_before_mutation", "recovery_required"}
PCs == {"idle", "sweep", "measure", "authorize", "consume", "undo_consume"}
         \cup TrimPCs \cup UndoPCs \cup ReconcilePCs \cup FailurePCs

VARIABLES
  file,      \* content, and identity: the inode, which an atomic save replaces
  author,    \* auxiliary: the operation that last replaced the file, or NoOp
  auth,      \* writeback_authorizations
  op,        \* writeback_operations: state, expected_after_hash known,
             \*   rollback_available, spool_ref known
  created,   \* the operations in order of creation
  backup,    \* operations with a backup file
  recAuth,   \* operations with a recovery-authorization.json
  spool,     \* the pending or committed spool file of an operation
  evidence,  \* raw_events rows of the blocks a trim removes from a content:
             \*   their ids are derived from it, and they name one operation
  lock,      \* the flock on the target
  proc,      \* what each process does
  edits, failures

vars == <<file, author, auth, op, created, backup, recAuth, spool, evidence, lock, proc,
          edits, failures>>

IdleProc == [pc |-> "idle", op |-> NoOp, todo |-> {}, ident |-> 0, edits |-> 0,
             pending |-> FALSE]

TypeOK ==
  /\ file \in [content : Contents, ident : Nat]
  /\ author \in Ops \cup {NoOp}
  /\ auth \in [Ops -> {"none", "issued", "consumed"}]
  /\ op \in [Ops -> [state : States, after : BOOLEAN, rollback : BOOLEAN, spooled : BOOLEAN]]
  /\ created \in Seq(Ops)
  /\ backup \subseteq TrimOps
  /\ recAuth \subseteq TrimOps
  /\ spool \in [TrimOps -> {"none", "pending", "committed"}]
  /\ evidence \in [OverTrigger -> [status : {"none", "committed", "tombstoned"},
                                   by : TrimOps \cup {NoOp}]]
  /\ lock \in Procs \cup {Free}
  /\ proc \in [Procs -> [pc : PCs, op : Ops \cup {NoOp}, todo : SUBSET Ops, ident : Nat,
                         edits : 0..MaxEdits, pending : BOOLEAN]]
  /\ edits \in 0..MaxEdits
  /\ failures \in 0..MaxFailures

Init ==
  /\ file = [content |-> StartContent, ident |-> 0]
  /\ author = NoOp
  /\ auth = [o \in Ops |-> "none"]
  /\ op = [o \in Ops |-> [state |-> "none", after |-> FALSE, rollback |-> FALSE,
                          spooled |-> FALSE]]
  /\ created = <<>>
  /\ backup = {} /\ recAuth = {}
  /\ spool = [o \in TrimOps |-> "none"]
  /\ evidence = [c \in OverTrigger |-> [status |-> "none", by |-> NoOp]]
  /\ lock = Free
  /\ proc = [p \in Procs |-> IdleProc]
  /\ edits = 0 /\ failures = 0

----------------------------------------------------------------------------
(* Helpers *)

After(o) == TrimOf[o.before]
Mine(p) == proc[p].op
At(p, pc) == proc[p].pc = pc
Goto(p, pc) == proc' = [proc EXCEPT ![p].pc = pc]
Quit(p) == proc' = [proc EXCEPT ![p] = IdleProc]
NextPending(p) == proc' = [proc EXCEPT ![p] = [IdleProc EXCEPT !.pc = "sweep", !.todo = proc[p].todo]]
Unlock(p) == lock' = IF lock = p THEN Free ELSE lock
SetState(o, st) == op' = [op EXCEPT ![o].state = st]
Replace(c, o) == file' = [content |-> c, ident |-> file.ident + 1] /\ author' = o

\* INSERT OR IGNORE of the removed blocks of o: rows that exist stay as they are.
RecordRemovedBlocks(o) ==
  evidence' = [evidence EXCEPT ![o.before] =
                 IF @.status = "none" THEN [status |-> "committed", by |-> o] ELSE @]

\* UPDATE raw_events of a rolled back operation: the rows that name it.
TombstoneEvidence(o) ==
  evidence' = [c \in OverTrigger |->
                 IF evidence[c] = [status |-> "committed", by |-> o]
                 THEN [evidence[c] EXCEPT !.status = "tombstoned"] ELSE evidence[c]]

fileVars == <<file, author>>
privateVars == <<backup, recAuth, spool>>
bounds == <<edits, failures>>

----------------------------------------------------------------------------
(* run_live_overflow_coordinator, for the one target *)

Sweep(p) ==
  /\ At(p, "idle")
  /\ proc' = [proc EXCEPT ![p] = [IdleProc EXCEPT !.pc = "sweep", !.todo =
                {o \in Ops : op[o].state \in Interrupted}]]
  /\ UNCHANGED <<fileVars, auth, op, created, privateVars, evidence, lock, bounds>>

\* What was found is reconciled in order of creation.
Earliest(o, found) ==
  /\ o \in found
  /\ \E i \in 1..Len(created) : created[i] = o /\ \A j \in 1..(i - 1) : created[j] \notin found

\* Without the recovery authorization the sweep of this target fails.
RecoveryDenied(p) ==
  /\ At(p, "sweep")
  /\ \E o \in proc[p].todo \ recAuth : Earliest(o, proc[p].todo)
  /\ Quit(p)
  /\ UNCHANGED <<fileVars, auth, op, created, privateVars, evidence, lock, bounds>>

\* reconcile_writeback reads the row and the spool before it waits for the
\* lock; an operation in a terminal state or without a spool is left alone.
Reconcile(p) ==
  /\ At(p, "sweep")
  /\ \E o \in proc[p].todo \cap recAuth :
       LET row == op[o]
           next == [proc[p] EXCEPT !.todo = @ \ {o}]
       IN /\ Earliest(o, proc[p].todo)
          /\ proc' = [proc EXCEPT ![p] =
             IF row.state \in Terminal \/ ~ row.spooled THEN next
             ELSE [next EXCEPT !.pc = "rec_lock", !.op = o, !.pending = (spool[o] = "pending")]]
  /\ UNCHANGED <<fileVars, auth, op, created, privateVars, evidence, lock, bounds>>

Measure(p) ==
  /\ At(p, "sweep") /\ proc[p].todo = {}
  /\ IF file.content \notin OverTrigger THEN Quit(p)
     ELSE LET c == file.content
              stable == [before |-> c, tag |-> 0]
              attempt == Cardinality({o \in TrimOps : o.before = c /\ auth[o] # "none"})
              id == IF auth[stable] = "none" THEN stable ELSE [before |-> c, tag |-> attempt]
          IN IF \/ op[stable].state # "none"    \* idempotent replay
                \/ id.tag > MaxRetries         \* bound
             THEN Quit(p)
             ELSE proc' = [proc EXCEPT ![p].pc = "authorize", ![p].op = id]
  /\ UNCHANGED <<fileVars, auth, op, created, privateVars, evidence, lock, bounds>>

\* create_writeback_authorization: the operation id is unique.
Authorize(p) ==
  /\ At(p, "authorize")
  /\ IF auth[Mine(p)] = "none"
     THEN auth' = [auth EXCEPT ![Mine(p)] = "issued"] /\ Goto(p, "consume")
     ELSE Quit(p) /\ UNCHANGED auth
  /\ UNCHANGED <<fileVars, op, created, privateVars, evidence, lock, bounds>>

\* An operator authorizes one trim of what the file says, or a rollback of a
\* finished trim, and hands it to a process.
Operate(p, o) ==
  /\ At(p, "idle")
  /\ auth[o] = "none"
  /\ \/ /\ o \in TrimOps /\ o.tag # 0 /\ o.before = file.content
        /\ proc' = [proc EXCEPT ![p] = [IdleProc EXCEPT !.pc = "consume", !.op = o]]
     \/ /\ o \in Undos /\ op[Undone[o]].rollback /\ op[Undone[o]].after
        /\ proc' = [proc EXCEPT ![p] = [IdleProc EXCEPT !.pc = "undo_consume", !.op = o]]
  /\ auth' = [auth EXCEPT ![o] = "issued"]
  /\ UNCHANGED <<fileVars, op, created, privateVars, evidence, lock, bounds>>

----------------------------------------------------------------------------
(* execute_writeback *)

\* _validate_and_consume: one transaction uses up the authorization and
\* creates the operation.
Consume(p, next) ==
  /\ auth[Mine(p)] = "issued"
  /\ auth' = [auth EXCEPT ![Mine(p)] = "consumed"]
  /\ SetState(Mine(p), "authorized")
  /\ created' = Append(created, Mine(p))
  /\ Goto(p, next)
  /\ UNCHANGED <<fileVars, privateVars, evidence, lock, bounds>>

ConsumeTrim(p) == At(p, "consume") /\ Consume(p, "lock")

Lock(p) ==
  /\ At(p, "lock") /\ lock = Free
  /\ lock' = p
  /\ SetState(Mine(p), "locked")
  /\ Goto(p, "read")
  /\ UNCHANGED <<fileVars, auth, created, privateVars, evidence, bounds>>

\* A stale hash or a plan that removes nothing ends the operation; otherwise
\* the recovery authorization is put into the private directory.
Read(p) ==
  LET o == Mine(p)
      stale == file.content # o.before
      blocked == After(o) = o.before
  IN /\ At(p, "read")
     /\ IF stale \/ blocked
        THEN /\ op' = [op EXCEPT ![o] = IF stale THEN [@ EXCEPT !.state = "concurrent_edit_detected"]
                                        ELSE [@ EXCEPT !.state = "blocked_target_unreachable",
                                                       !.after = TRUE]]
             /\ Quit(p) /\ Unlock(p) /\ UNCHANGED recAuth
        ELSE /\ recAuth' = recAuth \cup {o}
             /\ proc' = [proc EXCEPT ![p].pc = "backup", ![p].ident = file.ident]
             /\ UNCHANGED <<op, lock>>
     /\ UNCHANGED <<fileVars, auth, created, backup, spool, evidence, bounds>>

Backup(p) ==
  /\ At(p, "backup")
  /\ backup' = backup \cup {Mine(p)}
  /\ op' = [op EXCEPT ![Mine(p)] = [@ EXCEPT !.state = "backup_durable", !.rollback = TRUE]]
  /\ Goto(p, "spool")
  /\ UNCHANGED <<fileVars, auth, created, recAuth, spool, evidence, lock, bounds>>

Spool(p) ==
  /\ At(p, "spool")
  /\ spool' = [spool EXCEPT ![Mine(p)] = "pending"]
  /\ op' = [op EXCEPT ![Mine(p)] = [@ EXCEPT !.state = "evidence_pending", !.spooled = TRUE]]
  /\ Goto(p, "recheck")
  /\ UNCHANGED <<fileVars, auth, created, backup, recAuth, evidence, lock, bounds>>

\* Mutant: the file is not compared again before it is replaced.
RecheckNothing(p, expected, next) ==
  /\ proc' = [proc EXCEPT ![p].pc = next, ![p].edits = edits]
  /\ UNCHANGED <<fileVars, auth, op, created, privateVars, evidence, lock, bounds>>

\* The last comparison of content and identity, for a trim and for a rollback.
Recheck(p, expected, next) ==
  /\ IF file.content = expected /\ file.ident = proc[p].ident
     THEN /\ proc' = [proc EXCEPT ![p].pc = next, ![p].edits = edits]
          /\ UNCHANGED <<op, lock>>
     ELSE SetState(Mine(p), "concurrent_edit_detected") /\ Quit(p) /\ Unlock(p)
  /\ UNCHANGED <<fileVars, auth, created, privateVars, evidence, bounds>>

RecheckTrim(p) == At(p, "recheck") /\ Recheck(p, Mine(p).before, "replace")

ReplaceTrim(p) ==
  /\ At(p, "replace")
  /\ Replace(After(Mine(p)), Mine(p))
  /\ Goto(p, "replaced")
  /\ UNCHANGED <<auth, op, created, privateVars, evidence, lock, bounds>>

Replaced(p) ==
  /\ At(p, "replaced")
  /\ op' = [op EXCEPT ![Mine(p)] = [@ EXCEPT !.state = "file_replaced", !.after = TRUE]]
  /\ Goto(p, "readback")
  /\ UNCHANGED <<fileVars, auth, created, privateVars, evidence, lock, bounds>>

\* Mutant: the spool is renamed before the evidence is committed.
ReadbackThenRename(p) ==
  /\ At(p, "readback")
  /\ file.content = After(Mine(p))
  /\ SetState(Mine(p), "readback_verified")
  /\ Goto(p, "rename")
  /\ UNCHANGED <<fileVars, auth, created, privateVars, evidence, lock, bounds>>

Readback(p) ==
  /\ At(p, "readback")
  /\ file.content = After(Mine(p))
  /\ SetState(Mine(p), "readback_verified")
  /\ Goto(p, "evidence")
  /\ UNCHANGED <<fileVars, auth, created, privateVars, evidence, lock, bounds>>

Evidence(p) ==
  /\ At(p, "evidence")
  /\ RecordRemovedBlocks(Mine(p))
  /\ Goto(p, "rename")
  /\ UNCHANGED <<fileVars, auth, op, created, privateVars, lock, bounds>>

RenameSpool(p) ==
  /\ At(p, "rename")
  /\ spool' = [spool EXCEPT ![Mine(p)] = "committed"]
  /\ Goto(p, "complete")
  /\ UNCHANGED <<fileVars, auth, op, created, backup, recAuth, evidence, lock, bounds>>

Complete(p) ==
  /\ At(p, "complete")
  /\ op' = [op EXCEPT ![Mine(p)] = [@ EXCEPT !.state = "completed"]]
  /\ recAuth' = recAuth \ {Mine(p)}
  /\ Quit(p) /\ Unlock(p)
  /\ UNCHANGED <<fileVars, auth, created, backup, spool, evidence, bounds>>

----------------------------------------------------------------------------
(* rollback_writeback *)

Original(p) == Undone[Mine(p)]

ConsumeUndo(p) == At(p, "undo_consume") /\ Consume(p, "undo_lock")

LockUndo(p) ==
  /\ At(p, "undo_lock") /\ lock = Free
  /\ lock' = p
  /\ SetState(Mine(p), "rollback_locked")
  /\ Goto(p, "undo_read")
  /\ UNCHANGED <<fileVars, auth, created, privateVars, evidence, bounds>>

ReadUndo(p) ==
  /\ At(p, "undo_read")
  /\ IF file.content = After(Original(p))
     THEN /\ proc' = [proc EXCEPT ![p].pc = "undo_recheck", ![p].ident = file.ident]
          /\ UNCHANGED <<op, lock>>
     ELSE SetState(Mine(p), "concurrent_edit_detected") /\ Quit(p) /\ Unlock(p)
  /\ UNCHANGED <<fileVars, auth, created, privateVars, evidence, bounds>>

RecheckUndo(p) == At(p, "undo_recheck") /\ Recheck(p, After(Original(p)), "undo_replace")

ReplaceUndo(p) ==
  /\ At(p, "undo_replace")
  /\ Replace(Original(p).before, Mine(p))
  /\ Goto(p, "undo_replaced")
  /\ UNCHANGED <<auth, op, created, privateVars, evidence, lock, bounds>>

ReplacedUndo(p) ==
  /\ At(p, "undo_replaced")
  /\ op' = [op EXCEPT ![Mine(p)] = [@ EXCEPT !.state = "rollback_file_replaced", !.after = TRUE]]
  /\ Goto(p, "undo_readback")
  /\ UNCHANGED <<fileVars, auth, created, privateVars, evidence, lock, bounds>>

\* The lock is given back before the evidence is reconciled.
ReadbackUndo(p) ==
  /\ At(p, "undo_readback")
  /\ file.content = Original(p).before
  /\ Goto(p, "undo_evidence") /\ Unlock(p)
  /\ UNCHANGED <<fileVars, auth, op, created, privateVars, evidence, bounds>>

EvidenceUndo(p) ==
  /\ At(p, "undo_evidence")
  /\ TombstoneEvidence(Original(p))
  /\ Goto(p, "undo_reconciled")
  /\ UNCHANGED <<fileVars, auth, op, created, privateVars, lock, bounds>>

ReconciledUndo(p) ==
  /\ At(p, "undo_reconciled")
  /\ SetState(Mine(p), "rollback_evidence_reconciled")
  /\ Goto(p, "undo_close")
  /\ UNCHANGED <<fileVars, auth, created, privateVars, evidence, lock, bounds>>

CloseUndo(p) ==
  /\ At(p, "undo_close")
  /\ op' = [op EXCEPT ![Mine(p)] = [@ EXCEPT !.state = "rolled_back", !.after = TRUE]]
  /\ Goto(p, "undo_original")
  /\ UNCHANGED <<fileVars, auth, created, privateVars, evidence, lock, bounds>>

CloseOriginal(p) ==
  /\ At(p, "undo_original")
  /\ op' = [op EXCEPT ![Original(p)] = [@ EXCEPT !.state = "rolled_back", !.rollback = FALSE]]
  /\ Quit(p) /\ Unlock(p)
  /\ UNCHANGED <<fileVars, auth, created, privateVars, evidence, bounds>>

----------------------------------------------------------------------------
(* reconcile_writeback *)

\* Under the lock the file decides: the trim happened, or it did not, or
\* nobody knows.
ReconcileTrim(p) ==
  LET o == Mine(p)
  IN /\ At(p, "rec_lock") /\ lock = Free
     /\ IF file.content = After(o)
        THEN RecordRemovedBlocks(o) /\ lock' = p /\ Goto(p, "rec_rename") /\ UNCHANGED op
        ELSE /\ SetState(o, IF file.content = o.before THEN "failed_before_mutation"
                            ELSE "recovery_required")
             /\ NextPending(p)
             /\ UNCHANGED <<evidence, lock>>
     /\ UNCHANGED <<fileVars, auth, created, privateVars, bounds>>

\* The rename fails, and with it the sweep, when another process has done it.
ReconcileRename(p) ==
  /\ At(p, "rec_rename")
  /\ IF proc[p].pending /\ spool[Mine(p)] # "pending"
     THEN Quit(p) /\ Unlock(p) /\ UNCHANGED spool
     ELSE /\ spool' = [spool EXCEPT ![Mine(p)] = "committed"]
          /\ Goto(p, "rec_complete") /\ UNCHANGED lock
  /\ UNCHANGED <<fileVars, auth, op, created, backup, recAuth, evidence, bounds>>

ReconcileComplete(p) ==
  /\ At(p, "rec_complete")
  /\ op' = [op EXCEPT ![Mine(p)] = [@ EXCEPT !.state = "completed", !.after = TRUE]]
  /\ recAuth' = recAuth \ {Mine(p)}
  /\ NextPending(p) /\ Unlock(p)
  /\ UNCHANGED <<fileVars, auth, created, backup, spool, evidence, bounds>>

\* An operator who kept the authorization of a rollback reconciles it.
StartReconcileUndo(p, u) ==
  /\ At(p, "idle")
  /\ op[u].state \notin Terminal \cup {"none"}
  /\ proc' = [proc EXCEPT ![p] = [IdleProc EXCEPT !.pc = "rec_undo", !.op = u]]
  /\ UNCHANGED <<fileVars, auth, op, created, privateVars, evidence, lock, bounds>>

ReconcileUndo(p) ==
  LET u == Mine(p)
      o == Undone[u]
  IN /\ At(p, "rec_undo") /\ lock = Free
     /\ IF file.content = o.before
        THEN TombstoneEvidence(o) /\ lock' = p /\ Goto(p, "undo_close") /\ UNCHANGED op
        ELSE /\ SetState(u, IF file.content = After(o) THEN "failed_before_mutation"
                            ELSE "recovery_required")
             /\ Quit(p)
             /\ UNCHANGED <<evidence, lock>>
     /\ UNCHANGED <<fileVars, auth, created, privateVars, bounds>>

----------------------------------------------------------------------------
(* Failures and the owner of the file *)

\* Mutants: the states before file_replaced are taken for untouched ones; a
\* state that no reader of the table knows.
StateAfterErrorBeforeReplaced(st) ==
  IF st \in {"authorized", "locked", "rollback_locked", "backup_durable", "evidence_pending"}
  THEN "failed_before_mutation" ELSE "recovery_required"
StateAfterErrorUnknown(st) ==
  IF st \in {"authorized", "locked", "rollback_locked"} THEN "failed_before_mutation" ELSE "error"

\* The except branches of execute_writeback and rollback_writeback.  The
\* exception gives the lock back on its way out of the with block; the state is
\* read after that, and written in a transaction of its own, without the lock.
StateAfterError(st) ==
  IF st \in {"authorized", "locked", "rollback_locked"} THEN "failed_before_mutation"
  ELSE "recovery_required"

Fail(p) ==
  /\ Goto(p, "failed") /\ Unlock(p)
  /\ UNCHANGED <<fileVars, auth, op, created, privateVars, evidence>>

JudgeFailure(p) ==
  /\ At(p, "failed")
  /\ Goto(p, StateAfterError(op[Mine(p)].state))
  /\ UNCHANGED <<fileVars, auth, op, created, privateVars, evidence, lock, bounds>>

RecordFailure(p) ==
  /\ proc[p].pc \in FailurePCs \ {"failed"}
  /\ SetState(Mine(p), proc[p].pc)
  /\ Quit(p)
  /\ UNCHANGED <<fileVars, auth, created, privateVars, evidence, lock, bounds>>

ReadbackMismatch(p) ==
  /\ \/ At(p, "readback") /\ file.content # After(Mine(p))
     \/ At(p, "undo_readback") /\ file.content # Original(p).before
  /\ Fail(p) /\ UNCHANGED bounds

\* Any other call raises: a full disk, a busy database.  The end of a rollback
\* that holds the lock is reached through reconciliation, which records nothing.
Raise(p) ==
  /\ failures < MaxFailures    \* bound
  /\ proc[p].pc \in TrimPCs \cup UndoPCs
  /\ ~ (proc[p].pc \in {"undo_close", "undo_original"} /\ lock = p)
  /\ Fail(p)
  /\ failures' = failures + 1 /\ UNCHANGED edits

\* The process dies, or reconciliation raises: the lock is given back.
Crash(p) ==
  /\ failures < MaxFailures    \* bound
  /\ ~ At(p, "idle")
  /\ Quit(p) /\ Unlock(p)
  /\ failures' = failures + 1
  /\ UNCHANGED <<fileVars, auth, op, created, privateVars, evidence, edits>>

\* The owner of the file saves it, in place or by replacing it.
Edit(c, atomic) ==
  /\ edits < MaxEdits    \* bound
  /\ file' = [content |-> c, ident |-> IF atomic THEN file.ident + 1 ELSE file.ident]
  /\ author' = NoOp
  /\ edits' = edits + 1
  /\ UNCHANGED <<auth, op, created, privateVars, evidence, lock, proc, failures>>

CoordinatorStep(p) == Sweep(p) \/ RecoveryDenied(p) \/ Reconcile(p) \/ Measure(p) \/ Authorize(p)
TrimStep(p) ==
  \/ ConsumeTrim(p) \/ Lock(p) \/ Read(p) \/ Backup(p) \/ Spool(p) \/ RecheckTrim(p)
  \/ ReplaceTrim(p) \/ Replaced(p) \/ Readback(p) \/ Evidence(p) \/ RenameSpool(p) \/ Complete(p)
UndoStep(p) ==
  \/ ConsumeUndo(p) \/ LockUndo(p) \/ ReadUndo(p) \/ RecheckUndo(p) \/ ReplaceUndo(p)
  \/ ReplacedUndo(p) \/ ReadbackUndo(p) \/ EvidenceUndo(p) \/ ReconciledUndo(p)
  \/ CloseUndo(p) \/ CloseOriginal(p)
ReconcileStep(p) ==
  ReconcileTrim(p) \/ ReconcileRename(p) \/ ReconcileComplete(p) \/ ReconcileUndo(p)
FailureStep(p) == ReadbackMismatch(p) \/ Raise(p) \/ JudgeFailure(p) \/ RecordFailure(p) \/ Crash(p)

Next ==
  \/ \E p \in Procs :
       \/ CoordinatorStep(p) \/ TrimStep(p) \/ UndoStep(p) \/ ReconcileStep(p)
       \/ \E o \in Ops : Operate(p, o)
       \/ \E u \in Undos : StartReconcileUndo(p, u)
       \/ FailureStep(p)
  \/ \E c \in Contents, atomic \in BOOLEAN : Edit(c, atomic)

Spec == Init /\ [][Next]_vars

----------------------------------------------------------------------------
(* Properties *)

\* "Prepare recovery data before mutation": while the file is what a trim made
\* of it, the trim's backup and spool exist, its rollback is available and its
\* row does not deny the mutation, whoever crashed or reconciled meanwhile.
\* Until the trim is finished it can be reconciled: the recovery authorization
\* is there, or, where a failing executor has written its verdict over the end
\* that a reconciler had reached, nothing is left to do.
TrimIsOnRecord ==
  author \in TrimOps =>
    /\ author \in backup /\ spool[author] # "none"
    /\ op[author].rollback /\ op[author].spooled
    /\ op[author].state \in {"evidence_pending", "file_replaced", "readback_verified",
                             "completed", "recovery_required"}
    /\ \/ op[author].state \in Terminal
       \/ author \in recAuth
       \/ spool[author] = "committed" /\ evidence[author.before].status # "none"

\* "Only after read-back succeeds are removed blocks committed": a trim is
\* called complete, or its spool committed, only when the evidence is stored,
\* and evidence exists only of trims whose authorization was used up.
EvidenceBacksCompletion ==
  \A o \in TrimOps :
    /\ op[o].state = "completed" => spool[o] = "committed"
    /\ spool[o] = "committed" => evidence[o.before].status # "none"
    /\ evidence[o.before].by = o => auth[o] = "consumed" /\ o \in backup /\ spool[o] # "none"

\* The part of "a stale hash stops the operation" that the code keeps: what a
\* trim or a rollback replaces is what its authorization names, unless the
\* owner saved the file after the last comparison.
Replacing(p) == proc[p].pc \in {"replace", "undo_replace"} /\ proc'[p].pc \in {"replaced", "undo_replaced"}
Expected(p) == IF Mine(p) \in Undos THEN After(Original(p)) ELSE Mine(p).before
StaleHashStops ==
  [][\A p \in Procs : Replacing(p) => file.content = Expected(p) \/ edits # proc[p].edits]_vars
=============================================================================
