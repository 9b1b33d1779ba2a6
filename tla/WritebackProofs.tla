-------------------------- MODULE WritebackProofs --------------------------
(***************************************************************************)
(* Theorems about Writeback: types, the record of the trim that made the   *)
(* file what it is, the evidence behind a completed trim, and the stale    *)
(* hash that stops an operation, for any contents, processes, operations   *)
(* and bounds.                                                             *)
(***************************************************************************)
EXTENDS Writeback, FiniteSetTheorems, TLAPS

(* What a process is about: it executes a trim, reconciles one, or rolls    *)
(* one back.                                                                *)
Executing == {"consume"} \cup TrimPCs
Reconciling == {"rec_lock", "rec_rename", "rec_complete"}
Undoing == {"undo_consume", "rec_undo"} \cup UndoPCs

\* Where a process has the lock, and where a rollback has or has had it.
Holding == (TrimPCs \ {"lock"}) \cup {"rec_rename", "rec_complete"}
             \cup {"undo_read", "undo_recheck", "undo_replace", "undo_replaced", "undo_readback"}
PastUndoLock == UndoPCs \ {"undo_lock"}
UndoneAt == PastUndoLock \ {"undo_read", "undo_recheck", "undo_replace"}

\* Where the file is not what the trim makes of it yet, as far as the row of
\* the trim knows, and where nothing is spooled yet.
BeforeReplaced == {"consume", "lock", "read", "backup", "spool", "recheck", "replace", "replaced"}
BeforeSpooled == {"consume", "lock", "read", "backup", "spool"}

\* The state of an operation while its process executes it.
StateAt(pc) ==
  CASE pc = "consume" -> "none"
    [] pc = "lock" -> "authorized"
    [] pc \in {"read", "backup"} -> "locked"
    [] pc = "spool" -> "backup_durable"
    [] pc \in {"recheck", "replace", "replaced"} -> "evidence_pending"
    [] pc = "readback" -> "file_replaced"
    [] pc \in {"evidence", "rename", "complete"} -> "readback_verified"

\* A process works on an operation of its kind, and has the lock where the
\* code holds it.
Placed(p) ==
  /\ proc[p].pc \in Executing \cup Reconciling \cup {"authorize"} => Mine(p) \in TrimOps
  /\ proc[p].pc \in Undoing => Mine(p) \in Undos
  /\ proc[p].pc \in Holding => lock = p

\* The states in which an error means that nothing has been replaced.
EarlyStates == {"authorized", "locked", "rollback_locked"}

\* What the authorization and the row of an operation say of each other, and of
\* its private files.
Founded(o) ==
  /\ auth[o] # "consumed" => op[o] = [state |-> "none", after |-> FALSE, rollback |-> FALSE,
                                      spooled |-> FALSE]
  /\ op[o].spooled => o \in backup /\ spool[o] # "none"
  /\ op[o].state \in EarlyStates => ~ op[o].spooled
  /\ o \in Undos => ~ op[o].spooled /\ (auth[o] # "none" => op[Undone[o]].after)

\* What a process that executes a trim knows of it.
Executes(p) ==
  LET o == Mine(p)
      pc == proc[p].pc
  IN pc \in Executing =>
       /\ auth[o] = IF pc = "consume" THEN "issued" ELSE "consumed"
       /\ op[o].state = StateAt(pc)
       /\ pc \in BeforeReplaced => ~ op[o].after
       /\ op[o].spooled <=> pc \notin BeforeSpooled
       /\ pc \in {"recheck", "replace"} => author # o
       /\ pc \notin {"consume", "lock", "read"} => o \in recAuth /\ After(o) # o.before
       /\ pc \notin {"consume", "lock", "read", "backup"} => o \in backup /\ op[o].rollback

\* What a process that reconciles a trim or runs a rollback knows of it.
Resolves(p) ==
  /\ proc[p].pc \in Reconciling => op[Mine(p)].spooled
  /\ At(p, "undo_consume") => auth[Mine(p)] = "issued"
  /\ proc[p].pc \in Undoing \ {"undo_consume"} => auth[Mine(p)] = "consumed"
  /\ proc[p].pc \in UndoneAt => author # Original(p)

\* A process that has failed at an operation is the only one that executed it,
\* and what it calls failed before the mutation has no spool.
Fails(p) ==
  LET o == Mine(p)
  IN proc[p].pc \in FailurePCs =>
       /\ o \in Ops
       /\ auth[o] = "consumed"
       /\ \A q \in Procs : proc[q].pc \in Executing => Mine(q) # o
       /\ At(p, "failed_before_mutation") => ~ op[o].spooled

\* The evidence is stored before the spool is committed, and that before the
\* trim is completed.
Evidenced(p) ==
  /\ proc[p].pc \in {"rename", "complete", "rec_rename", "rec_complete"} =>
       evidence[Mine(p).before].status # "none"
  /\ proc[p].pc \in {"complete", "rec_complete"} => spool[Mine(p)] = "committed"

\* What was compared last is what the file says, unless the owner saved it.
Compared(p) ==
  /\ proc[p].edits <= edits
  /\ proc[p].pc \in {"replace", "undo_replace"} /\ proc[p].edits = edits =>
       file.content = Expected(p)

\* One process executes a trim, and none while a rollback of it is past the lock.
Alone ==
  \A p, q \in Procs :
    /\ proc[p].pc \in Executing /\ proc[q].pc \in Executing /\ Mine(p) = Mine(q) => p = q
    /\ At(p, "undo_consume") /\ At(q, "undo_consume") /\ Mine(p) = Mine(q) => p = q
    /\ proc[p].pc \in PastUndoLock /\ proc[q].pc \in Executing => Mine(q) # Original(p)

\* The file is what its author made of it.
Authored ==
  author \in TrimOps => file.content = After(author) /\ After(author) # author.before

WritebackInv ==
  /\ TypeOK
  /\ \A p \in Procs :
       Placed(p) /\ Executes(p) /\ Resolves(p) /\ Fails(p) /\ Evidenced(p) /\ Compared(p)
  /\ \A o \in Ops : Founded(o)
  /\ Alone
  /\ Authored
  /\ TrimIsOnRecord
  /\ EvidenceBacksCompletion
----------------------------------------------------------------------------
(* What the helpers of the steps do *)

ProcRec == [pc : PCs, op : Ops \cup {NoOp}, todo : SUBSET Ops, ident : Nat,
            edits : 0..MaxEdits, pending : BOOLEAN]
RowRec == [state : States, after : BOOLEAN, rollback : BOOLEAN, spooled : BOOLEAN]

\* Process p has moved to pc, with operation o and edits e; nobody else has.
Moved(p, pc, o, e) ==
  /\ proc' \in [Procs -> ProcRec]
  /\ proc'[p].pc = pc /\ proc'[p].op = o /\ proc'[p].edits = e
  /\ \A q \in Procs \ {p} : proc'[q] = proc[q]

\* The row of operation o has been written, and no other.
Written(o, state, after, rollback, spooled) ==
  /\ op' \in [Ops -> RowRec]
  /\ op'[o].state = state /\ op'[o].after = after
  /\ op'[o].rollback = rollback /\ op'[o].spooled = spooled
  /\ \A x \in Ops \ {o} : op'[x] = op[x]

LEMMA RecordMoved ==
  ASSUME TypeOK, NEW p \in Procs, NEW r \in ProcRec, proc' = [proc EXCEPT ![p] = r]
  PROVE  Moved(p, r.pc, r.op, r.edits)
<1>1. proc \in [Procs -> ProcRec]
  BY DEF TypeOK, ProcRec
<1> QED
  BY <1>1 DEF Moved

LEMMA GotoMoved ==
  ASSUME TypeOK, NEW p \in Procs, NEW pc \in PCs, Goto(p, pc)
  PROVE  Moved(p, pc, Mine(p), proc[p].edits)
<1> DEFINE r == [proc[p] EXCEPT !.pc = pc]
<1>1. proc[p] \in ProcRec
  BY DEF TypeOK, ProcRec
<1>2. r \in ProcRec /\ r.pc = pc /\ r.op = Mine(p) /\ r.edits = proc[p].edits
  BY <1>1 DEF ProcRec, Mine
<1>3. proc' = [proc EXCEPT ![p] = r]
  BY <1>1 DEF Goto, TypeOK
<1> HIDE DEF r
<1> QED
  BY <1>2, <1>3, RecordMoved

LEMMA QuitMoved ==
  ASSUME TypeOK, WritebackAssumption, NEW p \in Procs, Quit(p)
  PROVE  Moved(p, "idle", NoOp, 0)
<1>1. IdleProc \in ProcRec /\ IdleProc.pc = "idle" /\ IdleProc.op = NoOp /\ IdleProc.edits = 0
  BY DEF IdleProc, ProcRec, PCs, WritebackAssumption
<1> QED
  BY <1>1, RecordMoved DEF Quit

LEMMA NextPendingMoved ==
  ASSUME TypeOK, WritebackAssumption, NEW p \in Procs, NextPending(p)
  PROVE  Moved(p, "sweep", NoOp, 0)
<1> DEFINE r == [IdleProc EXCEPT !.pc = "sweep", !.todo = proc[p].todo]
<1>1. proc[p].todo \in SUBSET Ops
  BY DEF TypeOK
<1>2. IdleProc \in ProcRec
  BY DEF IdleProc, ProcRec, PCs, WritebackAssumption
<1>3. r \in ProcRec
  BY <1>1, <1>2 DEF ProcRec, PCs
<1>4. r.pc = "sweep" /\ r.op = NoOp /\ r.edits = 0
  BY DEF IdleProc
<1>5. proc' = [proc EXCEPT ![p] = r]
  BY DEF NextPending
<1> HIDE DEF r
<1> QED
  BY <1>3, <1>4, <1>5, RecordMoved

LEMMA RowWritten ==
  ASSUME TypeOK, NEW o \in Ops, NEW r \in RowRec, op' = [op EXCEPT ![o] = r]
  PROVE  Written(o, r.state, r.after, r.rollback, r.spooled)
<1>1. op \in [Ops -> RowRec]
  BY DEF TypeOK, RowRec
<1> QED
  BY <1>1 DEF Written

LEMMA StateWritten ==
  ASSUME TypeOK, NEW o \in Ops, NEW st \in States, SetState(o, st)
  PROVE  Written(o, st, op[o].after, op[o].rollback, op[o].spooled)
<1> DEFINE r == [op[o] EXCEPT !.state = st]
<1>1. op[o] \in RowRec
  BY DEF TypeOK, RowRec
<1>2. r \in RowRec /\ r.state = st /\ r.after = op[o].after /\ r.rollback = op[o].rollback
        /\ r.spooled = op[o].spooled
  BY <1>1 DEF RowRec
<1>3. op' = [op EXCEPT ![o] = r]
  BY <1>1 DEF SetState, TypeOK
<1> HIDE DEF r
<1> QED
  BY <1>2, <1>3, RowWritten

\* The evidence of an operation is there once it has been recorded; whose it
\* is changes only where there was none.
LEMMA EvidenceRecorded ==
  ASSUME TypeOK, NEW o \in TrimOps, RecordRemovedBlocks(o)
  PROVE  /\ evidence' \in [OverTrigger -> [status : {"none", "committed", "tombstoned"},
                                           by : TrimOps \cup {NoOp}]]
         /\ evidence'[o.before].status # "none"
         /\ \A c \in OverTrigger :
              \/ evidence'[c] = evidence[c]
              \/ evidence'[c].status # "none" /\ evidence'[c].by = o
<1>1. o.before \in OverTrigger
  BY DEF TrimOps
<1> QED
  BY <1>1 DEF RecordRemovedBlocks, TypeOK

LEMMA EditsAreNumbers ==
  ASSUME TypeOK, WritebackAssumption
  PROVE  edits \in Nat /\ 0 <= edits
BY DEF TypeOK, WritebackAssumption

LEMMA EvidenceTombstoned ==
  ASSUME TypeOK, NEW o \in TrimOps, TombstoneEvidence(o)
  PROVE  /\ evidence' \in [OverTrigger -> [status : {"none", "committed", "tombstoned"},
                                           by : TrimOps \cup {NoOp}]]
         /\ \A c \in OverTrigger :
              /\ evidence'[c].by = evidence[c].by
              /\ evidence[c].status # "none" => evidence'[c].status # "none"
<1>1. \A c \in OverTrigger : evidence[c] \in [status : {"none", "committed", "tombstoned"},
                                           by : TrimOps \cup {NoOp}]
  BY DEF TypeOK
<1> QED
  BY <1>1 DEF TombstoneEvidence

----------------------------------------------------------------------------
(* The steps of a trim.  In each: what the step does to the process and to *)
(* the row of its operation, then the parts of the invariant.              *)

\* The file becomes what the trim makes of it; no rollback of the trim is past
\* the lock, because the row of the trim does not name its outcome yet.
LEMMA ReplaceTrimKeeps ==
  ASSUME WritebackAssumption, WritebackInv, NEW p \in Procs, ReplaceTrim(p)
  PROVE  WritebackInv'
<1> USE DEF Mine, At, privateVars, bounds, fileVars
<1>1. Moved(p, "replaced", Mine(p), proc[p].edits)
  BY GotoMoved DEF WritebackInv, ReplaceTrim, PCs, TrimPCs, UndoPCs, ReconcilePCs
<1>2. Mine(p) \in TrimOps /\ Mine(p) \in Ops /\ Mine(p) \notin Undos
  BY DEF WritebackAssumption, WritebackInv, Placed, Executing, Reconciling, TrimPCs, Ops,
         ReplaceTrim
<1>3. After(Mine(p)) \in Contents
  BY <1>2 DEF After, WritebackAssumption, TrimOps
<1>4. TypeOK'
  BY <1>1, <1>2, <1>3
     DEF WritebackInv, TypeOK, ProcRec, RowRec, Ops, ReplaceTrim, Moved, Replace
<1>5. \A q \in Procs : Placed(q)' /\ Evidenced(q)'
  BY <1>1, <1>2, <1>3
     DEF WritebackInv, Placed, Executing, Reconciling, Undoing, TrimPCs, UndoPCs, Holding,
         Evidenced, ReplaceTrim, Moved
<1>6. \A q \in Procs : Executes(q)'
  BY <1>1, <1>2, <1>3
     DEF WritebackInv, Executes, StateAt, BeforeReplaced, BeforeSpooled, Executing, TrimPCs,
         After, ReplaceTrim, Moved, Replace, Alone, Placed
<1>7. \A q \in Procs : Resolves(q)' /\ Fails(q)'
  BY <1>1, <1>2, <1>3
     DEF WritebackInv, Resolves, Fails, FailurePCs, Reconciling, Undoing, UndoPCs, UndoneAt,
         PastUndoLock, Original, ReplaceTrim, Moved, Replace, Alone, Executing, TrimPCs,
         Placed, Ops, Executes
<1>8. \A q \in Procs : Compared(q)'
  BY <1>1, <1>2, <1>3
     DEF WritebackInv, Compared, Expected, Original, After, ReplaceTrim, Moved, Replace,
         Placed, Holding, TrimPCs, UndoPCs
<1>9. (\A x \in Ops : Founded(x)') /\ EvidenceBacksCompletion'
  BY <1>1, <1>2, <1>3
     DEF WritebackInv, Founded, EarlyStates, EvidenceBacksCompletion, Ops, ReplaceTrim
<1>10. Alone'
  BY <1>1, <1>2, <1>3
     DEF WritebackInv, Alone, Executing, TrimPCs, PastUndoLock, UndoPCs, Original, ReplaceTrim,
         Moved
<1>11. Authored'
  BY <1>1, <1>2, <1>3
     DEF WritebackInv, Authored, After, ReplaceTrim, Replace, Executes, Executing, TrimPCs
<1>12. TrimIsOnRecord'
  BY <1>1, <1>2, <1>3
     DEF WritebackInv, TrimIsOnRecord, Ops, ReplaceTrim, Replace, Executes, StateAt,
         BeforeSpooled, Executing, TrimPCs, Founded
<1> QED
  BY <1>4, <1>5, <1>6, <1>7, <1>8, <1>9, <1>10, <1>11, <1>12 DEF WritebackInv

LEMMA ReadbackKeeps ==
  ASSUME WritebackAssumption, WritebackInv, NEW p \in Procs, Readback(p)
  PROVE  WritebackInv'
<1> USE DEF Mine, At, privateVars, bounds, fileVars
<1>1. Moved(p, "evidence", Mine(p), proc[p].edits)
  BY GotoMoved DEF WritebackInv, Readback, PCs, TrimPCs, UndoPCs, ReconcilePCs
<1>2. Mine(p) \in TrimOps /\ Mine(p) \in Ops /\ Mine(p) \notin Undos
  BY DEF WritebackAssumption, WritebackInv, Placed, Executing, Reconciling, TrimPCs, Ops,
         Readback
<1>3. Written(Mine(p), "readback_verified", op[Mine(p)].after, op[Mine(p)].rollback,
              op[Mine(p)].spooled)
  BY <1>2, StateWritten DEF WritebackInv, Readback, States, Terminal, Interrupted
<1>4. TypeOK'
  BY <1>1, <1>2, <1>3 DEF WritebackInv, TypeOK, ProcRec, RowRec, Ops, Readback, Moved, Written
<1>5. \A q \in Procs : Placed(q)' /\ Evidenced(q)' /\ Compared(q)'
  BY <1>1, <1>2, <1>3
     DEF WritebackInv, Placed, Executing, Reconciling, Undoing, TrimPCs, UndoPCs, Holding,
         Evidenced, Compared, Expected, Original, After, Readback, Moved
<1>6. \A q \in Procs : Executes(q)'
  BY <1>1, <1>2, <1>3
     DEF WritebackInv, Executes, StateAt, BeforeReplaced, BeforeSpooled, Executing, TrimPCs,
         After, Readback, Moved, Written, Placed, Alone, Ops
<1>7. \A q \in Procs : Resolves(q)' /\ Fails(q)'
  BY <1>1, <1>2, <1>3
     DEF WritebackInv, Resolves, Fails, FailurePCs, Reconciling, Undoing, UndoPCs, UndoneAt,
         PastUndoLock, Original, Readback, Moved, Written, Placed, Ops, Executing, TrimPCs,
         Executes
<1>8. \A o \in Ops : Founded(o)'
  BY <1>1, <1>2, <1>3
     DEF WritebackInv, Founded, EarlyStates, Readback, Written, Executes, Executing, TrimPCs, Ops,
         WritebackAssumption
<1>9. Alone'
  BY <1>1, <1>2, <1>3
     DEF WritebackInv, Alone, Executing, TrimPCs, PastUndoLock, UndoPCs, Original, Readback,
         Moved
<1>10. Authored'
  BY <1>1, <1>2, <1>3 DEF WritebackInv, Authored, After, Readback
<1>11. TrimIsOnRecord'
  BY <1>1, <1>2, <1>3
     DEF WritebackInv, TrimIsOnRecord, Ops, Readback, Written, Executes, StateAt,
         BeforeSpooled, Executing, TrimPCs
<1>12. EvidenceBacksCompletion'
  BY <1>1, <1>2, <1>3 DEF WritebackInv, EvidenceBacksCompletion, Ops, Readback, Written
<1> QED
  BY <1>4, <1>5, <1>6, <1>7, <1>8, <1>9, <1>10, <1>11, <1>12 DEF WritebackInv

LEMMA ReplacedKeeps ==
  ASSUME WritebackAssumption, WritebackInv, NEW p \in Procs, Replaced(p)
  PROVE  WritebackInv'
<1> USE DEF Mine, At, privateVars, bounds, fileVars
<1>1. Moved(p, "readback", Mine(p), proc[p].edits)
  BY GotoMoved DEF WritebackInv, Replaced, PCs, TrimPCs, UndoPCs, ReconcilePCs
<1>2. Mine(p) \in TrimOps /\ Mine(p) \in Ops /\ Mine(p) \notin Undos
  BY DEF WritebackAssumption, WritebackInv, Placed, Executing, Reconciling, TrimPCs, Ops,
         Replaced
<1>3. Written(Mine(p), "file_replaced", TRUE, op[Mine(p)].rollback, op[Mine(p)].spooled)
  <2> DEFINE r == [op[Mine(p)] EXCEPT !.state = "file_replaced", !.after = TRUE]
  <2>1. op[Mine(p)] \in RowRec
    BY <1>2 DEF WritebackInv, TypeOK, RowRec
  <2>2. /\ r \in RowRec /\ r.state = "file_replaced" /\ r.after = TRUE
        /\ r.rollback = op[Mine(p)].rollback /\ r.spooled = op[Mine(p)].spooled
    BY <2>1 DEF RowRec, States, Terminal, Interrupted
  <2>3. op' = [op EXCEPT ![Mine(p)] = r]
    BY DEF Replaced
  <2> HIDE DEF r
  <2> QED
    BY <1>2, <2>2, <2>3, RowWritten DEF WritebackInv
<1>4. TypeOK'
  BY <1>1, <1>2, <1>3 DEF WritebackInv, TypeOK, ProcRec, RowRec, Ops, Replaced, Moved, Written
<1>5. \A q \in Procs : Placed(q)' /\ Evidenced(q)' /\ Compared(q)'
  BY <1>1, <1>2, <1>3
     DEF WritebackInv, Placed, Executing, Reconciling, Undoing, TrimPCs, UndoPCs, Holding,
         Evidenced, Compared, Expected, Original, After, Replaced, Moved
<1>6. \A q \in Procs : Executes(q)'
  BY <1>1, <1>2, <1>3
     DEF WritebackInv, Executes, StateAt, BeforeReplaced, BeforeSpooled, Executing, TrimPCs,
         After, Replaced, Moved, Written, Placed, Alone, Ops
<1>7. \A q \in Procs : Resolves(q)' /\ Fails(q)'
  BY <1>1, <1>2, <1>3
     DEF WritebackInv, Resolves, Fails, FailurePCs, Reconciling, Undoing, UndoPCs, UndoneAt,
         PastUndoLock, Original, Replaced, Moved, Written, Placed, Ops, Executing, TrimPCs,
         Executes
<1>8. \A o \in Ops : Founded(o)'
  BY <1>1, <1>2, <1>3
     DEF WritebackInv, Founded, EarlyStates, Replaced, Written, Executes, Executing, TrimPCs, Ops,
         WritebackAssumption
<1>9. Alone'
  BY <1>1, <1>2, <1>3
     DEF WritebackInv, Alone, Executing, TrimPCs, PastUndoLock, UndoPCs, Original, Replaced,
         Moved
<1>10. Authored'
  BY <1>1, <1>2, <1>3 DEF WritebackInv, Authored, After, Replaced
<1>11. TrimIsOnRecord'
  BY <1>1, <1>2, <1>3
     DEF WritebackInv, TrimIsOnRecord, Ops, Replaced, Written, Executes, StateAt,
         BeforeSpooled, Executing, TrimPCs
<1>12. EvidenceBacksCompletion'
  BY <1>1, <1>2, <1>3 DEF WritebackInv, EvidenceBacksCompletion, Ops, Replaced, Written
<1> QED
  BY <1>4, <1>5, <1>6, <1>7, <1>8, <1>9, <1>10, <1>11, <1>12 DEF WritebackInv

LEMMA BackupKeeps ==
  ASSUME WritebackAssumption, WritebackInv, NEW p \in Procs, Backup(p)
  PROVE  WritebackInv'
<1> USE DEF Mine, At, privateVars, bounds, fileVars
<1>1. Moved(p, "spool", Mine(p), proc[p].edits)
  BY GotoMoved DEF WritebackInv, Backup, PCs, TrimPCs, UndoPCs, ReconcilePCs
<1>2. Mine(p) \in TrimOps /\ Mine(p) \in Ops /\ Mine(p) \notin Undos
  BY DEF WritebackAssumption, WritebackInv, Placed, Executing, Reconciling, TrimPCs, Ops, Backup
<1>3. Written(Mine(p), "backup_durable", op[Mine(p)].after, TRUE, op[Mine(p)].spooled)
  <2> DEFINE r == [op[Mine(p)] EXCEPT !.state = "backup_durable", !.rollback = TRUE]
  <2>1. op[Mine(p)] \in RowRec
    BY <1>2 DEF WritebackInv, TypeOK, RowRec
  <2>2. /\ r \in RowRec /\ r.state = "backup_durable" /\ r.after = op[Mine(p)].after
        /\ r.rollback = TRUE /\ r.spooled = op[Mine(p)].spooled
    BY <2>1 DEF RowRec, States, Terminal, Interrupted
  <2>3. op' = [op EXCEPT ![Mine(p)] = r]
    BY DEF Backup
  <2> HIDE DEF r
  <2> QED
    BY <1>2, <2>2, <2>3, RowWritten DEF WritebackInv
<1>4. TypeOK'
  BY <1>1, <1>2, <1>3 DEF WritebackInv, TypeOK, ProcRec, RowRec, Ops, Backup, Moved, Written
<1>5. \A q \in Procs : Placed(q)' /\ Evidenced(q)' /\ Compared(q)'
  BY <1>1, <1>2, <1>3
     DEF WritebackInv, Placed, Executing, Reconciling, Undoing, TrimPCs, UndoPCs, Holding,
         Evidenced, Compared, Expected, Original, After, Backup, Moved
<1>6. \A q \in Procs : Executes(q)'
  BY <1>1, <1>2, <1>3
     DEF WritebackInv, Executes, StateAt, BeforeReplaced, BeforeSpooled, Executing, TrimPCs,
         After, Backup, Moved, Written, Placed, Alone, Ops
<1>7. \A q \in Procs : Resolves(q)' /\ Fails(q)'
  BY <1>1, <1>2, <1>3
     DEF WritebackInv, Resolves, Fails, FailurePCs, Reconciling, Undoing, UndoPCs, UndoneAt,
         PastUndoLock, Original, Backup, Moved, Written, Placed, Ops, Executing, TrimPCs,
         Executes
<1>8. \A o \in Ops : Founded(o)'
  BY <1>1, <1>2, <1>3
     DEF WritebackInv, Founded, EarlyStates, Backup, Written, Executes, Executing, TrimPCs, Ops,
         WritebackAssumption
<1>9. Alone'
  BY <1>1, <1>2, <1>3
     DEF WritebackInv, Alone, Executing, TrimPCs, PastUndoLock, UndoPCs, Original, Backup,
         Moved
<1>10. Authored'
  BY <1>1, <1>2, <1>3 DEF WritebackInv, Authored, After, Backup
<1>11. TrimIsOnRecord'
  BY <1>1, <1>2, <1>3
     DEF WritebackInv, TrimIsOnRecord, Ops, Backup, Written, Executes, StateAt, BeforeSpooled,
         Executing, TrimPCs
<1>12. EvidenceBacksCompletion'
  BY <1>1, <1>2, <1>3 DEF WritebackInv, EvidenceBacksCompletion, Ops, Backup, Written
<1> QED
  BY <1>4, <1>5, <1>6, <1>7, <1>8, <1>9, <1>10, <1>11, <1>12 DEF WritebackInv

\* A process that reconciles this trim would have found its spool recorded.
LEMMA SpoolKeeps ==
  ASSUME WritebackAssumption, WritebackInv, NEW p \in Procs, Spool(p)
  PROVE  WritebackInv'
<1> USE DEF Mine, At, privateVars, bounds, fileVars
<1>1. Moved(p, "recheck", Mine(p), proc[p].edits)
  BY GotoMoved DEF WritebackInv, Spool, PCs, TrimPCs, UndoPCs, ReconcilePCs
<1>2. Mine(p) \in TrimOps /\ Mine(p) \in Ops /\ Mine(p) \notin Undos
  BY DEF WritebackAssumption, WritebackInv, Placed, Executing, Reconciling, TrimPCs, Ops, Spool
<1>3. Written(Mine(p), "evidence_pending", op[Mine(p)].after, op[Mine(p)].rollback, TRUE)
  <2> DEFINE r == [op[Mine(p)] EXCEPT !.state = "evidence_pending", !.spooled = TRUE]
  <2>1. op[Mine(p)] \in RowRec
    BY <1>2 DEF WritebackInv, TypeOK, RowRec
  <2>2. /\ r \in RowRec /\ r.state = "evidence_pending" /\ r.after = op[Mine(p)].after
        /\ r.rollback = op[Mine(p)].rollback /\ r.spooled = TRUE
    BY <2>1 DEF RowRec, States, Terminal, Interrupted
  <2>3. op' = [op EXCEPT ![Mine(p)] = r]
    BY DEF Spool
  <2> HIDE DEF r
  <2> QED
    BY <1>2, <2>2, <2>3, RowWritten DEF WritebackInv
<1>4. spool'[Mine(p)] = "pending" /\ \A o \in TrimOps \ {Mine(p)} : spool'[o] = spool[o]
  BY <1>2 DEF WritebackInv, TypeOK, Spool
<1>5. TypeOK'
  BY <1>1, <1>2, <1>3, <1>4
     DEF WritebackInv, TypeOK, ProcRec, RowRec, Ops, Spool, Moved, Written
<1>6. \A q \in Procs : Placed(q)' /\ Compared(q)'
  BY <1>1, <1>2, <1>3, <1>4
     DEF WritebackInv, Placed, Executing, Reconciling, Undoing, TrimPCs, UndoPCs, Holding,
         Compared, Expected, Original, After, Spool, Moved
<1>7. \A q \in Procs : Executes(q)'
  BY <1>1, <1>2, <1>3, <1>4
     DEF WritebackInv, Executes, StateAt, BeforeReplaced, BeforeSpooled, Executing, TrimPCs,
         After, Spool, Moved, Written, Placed, Alone, Ops, TrimIsOnRecord
<1>8. \A q \in Procs : Resolves(q)' /\ Fails(q)'
  BY <1>1, <1>2, <1>3, <1>4
     DEF WritebackInv, Resolves, Fails, FailurePCs, Reconciling, Undoing, UndoPCs, UndoneAt,
         PastUndoLock, Original, Spool, Moved, Written, Placed, Ops, Executing, TrimPCs,
         Executes
<1>9. \A q \in Procs : Evidenced(q)'
  BY <1>1, <1>2, <1>3, <1>4
     DEF WritebackInv, Evidenced, Spool, Moved, Resolves, Reconciling, Executes, Executing,
         TrimPCs, BeforeSpooled, Alone
<1>10. \A o \in Ops : Founded(o)'
  <2> SUFFICES ASSUME NEW o \in Ops PROVE Founded(o)'
    OBVIOUS
  <2>1. CASE o = Mine(p)
    BY <2>1, <1>1, <1>2, <1>3, <1>4
       DEF WritebackInv, Founded, EarlyStates, Spool, Written, Executes, Executing, TrimPCs
  <2>2. CASE o # Mine(p)
    <3>1. Founded(o) /\ op'[o] = op[o]
      BY <1>3, <2>2 DEF WritebackInv, Written
    <3>2. op[o].spooled => o \in TrimOps /\ spool'[o] = spool[o]
      BY <3>1, <1>4, <2>2 DEF Founded, Ops
    <3>3. o \in Undos => (op[Undone[o]].after => op'[Undone[o]].after)
      BY <1>2, <1>3 DEF Written, WritebackAssumption, Ops
    <3> QED
      BY <3>1, <3>2, <3>3 DEF Founded, EarlyStates, Spool
  <2> QED
    BY <2>1, <2>2
<1>11. Alone'
  BY <1>1, <1>2, <1>3, <1>4
     DEF WritebackInv, Alone, Executing, TrimPCs, PastUndoLock, UndoPCs, Original, Spool, Moved
<1>12. Authored'
  BY <1>1, <1>2, <1>3, <1>4 DEF WritebackInv, Authored, After, Spool
<1>13. TrimIsOnRecord'
  BY <1>1, <1>2, <1>3, <1>4
     DEF WritebackInv, TrimIsOnRecord, Ops, Spool, Written, Executes, StateAt, BeforeSpooled,
         Executing, TrimPCs
<1>14. EvidenceBacksCompletion'
  BY <1>1, <1>2, <1>3, <1>4 DEF WritebackInv, EvidenceBacksCompletion, Ops, Spool, Written
<1> QED
  BY <1>5, <1>6, <1>7, <1>8, <1>9, <1>10, <1>11, <1>12, <1>13, <1>14 DEF WritebackInv

LEMMA EvidenceKeeps ==
  ASSUME WritebackAssumption, WritebackInv, NEW p \in Procs, Evidence(p)
  PROVE  WritebackInv'
<1> USE DEF Mine, At, privateVars, bounds, fileVars
<1>1. Moved(p, "rename", Mine(p), proc[p].edits)
  BY GotoMoved DEF WritebackInv, Evidence, PCs, TrimPCs, UndoPCs, ReconcilePCs
<1>2. Mine(p) \in TrimOps /\ Mine(p) \in Ops /\ Mine(p) \notin Undos
  BY DEF WritebackAssumption, WritebackInv, Placed, Executing, Reconciling, TrimPCs, Ops,
         Evidence
<1>3. /\ evidence' \in [OverTrigger -> [status : {"none", "committed", "tombstoned"},
                                          by : TrimOps \cup {NoOp}]]
      /\ evidence'[Mine(p).before].status # "none"
      /\ \A c \in OverTrigger :
           \/ evidence'[c] = evidence[c]
           \/ evidence'[c].status # "none" /\ evidence'[c].by = Mine(p)
  BY <1>2, EvidenceRecorded DEF WritebackInv, Evidence
<1>4. TypeOK'
  BY <1>1, <1>2, <1>3 DEF WritebackInv, TypeOK, ProcRec, RowRec, Ops, Evidence, Moved
<1>5. \A q \in Procs : Placed(q)' /\ Compared(q)'
  BY <1>1, <1>2, <1>3
     DEF WritebackInv, Placed, Executing, Reconciling, Undoing, TrimPCs, UndoPCs, Holding,
         Compared, Expected, Original, After, Evidence, Moved
<1>6. \A q \in Procs : Executes(q)'
  BY <1>1, <1>2, <1>3
     DEF WritebackInv, Executes, StateAt, BeforeReplaced, BeforeSpooled, Executing, TrimPCs,
         After, Evidence, Moved
<1>7. \A q \in Procs : Resolves(q)' /\ Fails(q)'
  BY <1>1, <1>2, <1>3
     DEF WritebackInv, Resolves, Fails, FailurePCs, Reconciling, Undoing, UndoPCs, UndoneAt,
         PastUndoLock, Original, Evidence, Moved, Executing, TrimPCs, Ops, Executes, Placed
<1>8. \A q \in Procs : Evidenced(q)'
  BY <1>1, <1>2, <1>3
     DEF WritebackInv, Evidenced, Evidence, Moved, Placed, Executing, Reconciling, TrimPCs,
         TrimOps
<1>9. (\A x \in Ops : Founded(x)') /\ Authored' /\ TrimIsOnRecord'
  BY <1>1, <1>2, <1>3
     DEF WritebackInv, Founded, EarlyStates, Authored, After, TrimIsOnRecord, Ops, TrimOps,
         Evidence
<1>10. Alone'
  BY <1>1, <1>2, <1>3
     DEF WritebackInv, Alone, Executing, TrimPCs, PastUndoLock, UndoPCs, Original, Evidence,
         Moved
<1>11. EvidenceBacksCompletion'
  BY <1>1, <1>2, <1>3
     DEF WritebackInv, EvidenceBacksCompletion, Ops, Evidence, Executes, StateAt, Executing,
         TrimPCs, BeforeSpooled, Founded, TrimOps
<1> QED
  BY <1>4, <1>5, <1>6, <1>7, <1>8, <1>9, <1>10, <1>11 DEF WritebackInv

LEMMA RenameSpoolKeeps ==
  ASSUME WritebackAssumption, WritebackInv, NEW p \in Procs, RenameSpool(p)
  PROVE  WritebackInv'
<1> USE DEF Mine, At, privateVars, bounds, fileVars
<1>1. Moved(p, "complete", Mine(p), proc[p].edits)
  BY GotoMoved DEF WritebackInv, RenameSpool, PCs, TrimPCs, UndoPCs, ReconcilePCs
<1>2. Mine(p) \in TrimOps /\ Mine(p) \in Ops /\ Mine(p) \notin Undos
  BY DEF WritebackAssumption, WritebackInv, Placed, Executing, Reconciling, TrimPCs, Ops,
         RenameSpool
<1>3. spool'[Mine(p)] = "committed" /\ \A o \in TrimOps \ {Mine(p)} : spool'[o] = spool[o]
  BY <1>2 DEF WritebackInv, TypeOK, RenameSpool
<1>4. TypeOK'
  BY <1>1, <1>2, <1>3 DEF WritebackInv, TypeOK, ProcRec, RowRec, Ops, RenameSpool, Moved
<1>5. \A q \in Procs : Placed(q)' /\ Compared(q)'
  BY <1>1, <1>2, <1>3
     DEF WritebackInv, Placed, Executing, Reconciling, Undoing, TrimPCs, UndoPCs, Holding,
         Compared, Expected, Original, After, RenameSpool, Moved
<1>6. \A q \in Procs : Executes(q)'
  BY <1>1, <1>2, <1>3
     DEF WritebackInv, Executes, StateAt, BeforeReplaced, BeforeSpooled, Executing, TrimPCs,
         After, RenameSpool, Moved
<1>7. \A q \in Procs : Resolves(q)' /\ Fails(q)'
  BY <1>1, <1>2, <1>3
     DEF WritebackInv, Resolves, Fails, FailurePCs, Reconciling, Undoing, UndoPCs, UndoneAt,
         PastUndoLock, Original, RenameSpool, Moved, Executing, TrimPCs, Ops, Executes, Placed
<1>8. \A q \in Procs : Evidenced(q)'
  BY <1>1, <1>2, <1>3
     DEF WritebackInv, Evidenced, RenameSpool, Moved, Placed, Executing, Reconciling, TrimPCs
<1>9. \A o \in Ops : Founded(o)'
  BY <1>1, <1>2, <1>3 DEF WritebackInv, Founded, EarlyStates, RenameSpool, TypeOK
<1>10. Alone'
  BY <1>1, <1>2, <1>3
     DEF WritebackInv, Alone, Executing, TrimPCs, PastUndoLock, UndoPCs, Original, RenameSpool,
         Moved
<1>11. Authored'
  BY <1>1, <1>2, <1>3 DEF WritebackInv, Authored, After, RenameSpool
<1>12. TrimIsOnRecord'
  BY <1>1, <1>2, <1>3 DEF WritebackInv, TrimIsOnRecord, Ops, RenameSpool, TypeOK
<1>13. EvidenceBacksCompletion'
  BY <1>1, <1>2, <1>3 DEF WritebackInv, EvidenceBacksCompletion, Ops, RenameSpool, Evidenced
<1> QED
  BY <1>4, <1>5, <1>6, <1>7, <1>8, <1>9, <1>10, <1>11, <1>12, <1>13 DEF WritebackInv

LEMMA LockKeeps ==
  ASSUME WritebackAssumption, WritebackInv, NEW p \in Procs, Lock(p)
  PROVE  WritebackInv'
<1> USE DEF Mine, At, privateVars, bounds, fileVars
<1>1. Moved(p, "read", Mine(p), proc[p].edits)
  BY GotoMoved DEF WritebackInv, Lock, PCs, TrimPCs, UndoPCs, ReconcilePCs
<1>2. Mine(p) \in TrimOps /\ Mine(p) \in Ops /\ Mine(p) \notin Undos
  BY DEF WritebackAssumption, WritebackInv, Placed, Executing, Reconciling, TrimPCs, Ops, Lock
<1>3. Written(Mine(p), "locked", op[Mine(p)].after, op[Mine(p)].rollback, op[Mine(p)].spooled)
  BY <1>2, StateWritten DEF WritebackInv, Lock, States, Terminal, Interrupted
<1>4. TypeOK'
  BY <1>1, <1>2, <1>3 DEF WritebackInv, TypeOK, ProcRec, RowRec, Ops, Lock, Moved, Written
<1>5. \A q \in Procs : Placed(q)' /\ Evidenced(q)' /\ Compared(q)'
  BY <1>1, <1>2, <1>3
     DEF WritebackInv, Placed, Executing, Reconciling, Undoing, TrimPCs, UndoPCs, Holding,
         Evidenced, Compared, Expected, Original, After, Lock, Moved
<1>6. \A q \in Procs : Executes(q)'
  BY <1>1, <1>2, <1>3
     DEF WritebackInv, Executes, StateAt, BeforeReplaced, BeforeSpooled, Executing, TrimPCs,
         After, Lock, Moved, Written, Placed, Alone, Ops
<1>7. \A q \in Procs : Resolves(q)' /\ Fails(q)'
  BY <1>1, <1>2, <1>3
     DEF WritebackInv, Resolves, Fails, FailurePCs, Reconciling, Undoing, UndoPCs, UndoneAt,
         PastUndoLock, Original, Lock, Moved, Written, Placed, Ops, Executing, TrimPCs,
         Executes
<1>8. \A o \in Ops : Founded(o)'
  BY <1>1, <1>2, <1>3
     DEF WritebackInv, Founded, EarlyStates, BeforeSpooled, Lock, Written, Executes, Executing,
         TrimPCs, Ops, WritebackAssumption
<1>9. Alone'
  BY <1>1, <1>2, <1>3
     DEF WritebackInv, Alone, Executing, TrimPCs, PastUndoLock, UndoPCs, Original, Lock, Moved
<1>10. Authored'
  BY <1>1, <1>2, <1>3 DEF WritebackInv, Authored, After, Lock
<1>11. TrimIsOnRecord'
  BY <1>1, <1>2, <1>3
     DEF WritebackInv, TrimIsOnRecord, Ops, Lock, Written, Executes, StateAt, BeforeSpooled,
         Executing, TrimPCs
<1>12. EvidenceBacksCompletion'
  BY <1>1, <1>2, <1>3 DEF WritebackInv, EvidenceBacksCompletion, Ops, Lock, Written
<1> QED
  BY <1>4, <1>5, <1>6, <1>7, <1>8, <1>9, <1>10, <1>11, <1>12 DEF WritebackInv

LEMMA ConsumeTrimKeeps ==
  ASSUME WritebackAssumption, WritebackInv, NEW p \in Procs, ConsumeTrim(p)
  PROVE  WritebackInv'
<1> USE DEF Mine, At, privateVars, bounds, fileVars
<1>1. Moved(p, "lock", Mine(p), proc[p].edits)
  BY GotoMoved DEF WritebackInv, ConsumeTrim, Consume, PCs, TrimPCs, UndoPCs, ReconcilePCs
<1>2. Mine(p) \in TrimOps /\ Mine(p) \in Ops /\ Mine(p) \notin Undos
  BY DEF WritebackAssumption, WritebackInv, Placed, Executing, Reconciling, TrimPCs, Ops,
         ConsumeTrim
<1>3. Written(Mine(p), "authorized", op[Mine(p)].after, op[Mine(p)].rollback,
              op[Mine(p)].spooled)
  BY <1>2, StateWritten
     DEF WritebackInv, ConsumeTrim, ConsumeTrim, Consume, States, Terminal, Interrupted
<1>4. auth'[Mine(p)] = "consumed" /\ \A o \in Ops \ {Mine(p)} : auth'[o] = auth[o]
  BY <1>2 DEF WritebackInv, TypeOK, ConsumeTrim, Consume
<1>5. TypeOK'
  BY <1>1, <1>2, <1>3, <1>4
     DEF WritebackInv, TypeOK, ProcRec, RowRec, Ops, ConsumeTrim, Moved, Written, Consume
<1>6. \A q \in Procs : Placed(q)'
  BY <1>1, <1>2, <1>3, <1>4
     DEF WritebackInv, Placed, Executing, Reconciling, Undoing, TrimPCs, UndoPCs, Holding,
         ConsumeTrim, Moved, Consume
<1>7. \A q \in Procs : Executes(q)'
  BY <1>1, <1>2, <1>3, <1>4
     DEF WritebackInv, Executes, StateAt, BeforeReplaced, BeforeSpooled, Executing, TrimPCs,
         After, ConsumeTrim, Moved, Written, Placed, Alone, Ops, Consume
<1>8. \A q \in Procs : Resolves(q)' /\ Fails(q)'
  BY <1>1, <1>2, <1>3, <1>4
     DEF WritebackInv, Resolves, Fails, FailurePCs, Reconciling, Undoing, UndoPCs, UndoneAt,
         PastUndoLock, Original, ConsumeTrim, Moved, Written, Placed, Ops, Consume, Executing,
         TrimPCs, Executes
<1>9. \A q \in Procs : Evidenced(q)'
  BY <1>1, <1>2, <1>3, <1>4 DEF WritebackInv, Evidenced, ConsumeTrim, Moved, Consume
<1>10. \A q \in Procs : Compared(q)'
  BY <1>1, <1>2, <1>3, <1>4
     DEF WritebackInv, Compared, Expected, Original, After, ConsumeTrim, Moved, Consume
<1>11. \A x \in Ops : Founded(x)'
  BY <1>1, <1>2, <1>3, <1>4
     DEF WritebackInv, Founded, EarlyStates, ConsumeTrim, Written, Executes, Executing, TrimPCs,
         Ops, WritebackAssumption, Consume
<1>12. Alone'
  BY <1>1, <1>2, <1>3, <1>4
     DEF WritebackInv, Alone, Executing, TrimPCs, PastUndoLock, UndoPCs, Original, ConsumeTrim,
         Moved, Consume
<1>13. Authored'
  BY <1>1, <1>2, <1>3, <1>4 DEF WritebackInv, Authored, After, ConsumeTrim, Consume
<1>14. TrimIsOnRecord'
  BY <1>1, <1>2, <1>3, <1>4
     DEF WritebackInv, TrimIsOnRecord, Ops, ConsumeTrim, Written, Executes, StateAt,
         BeforeSpooled, Executing, TrimPCs, Consume
<1>15. EvidenceBacksCompletion'
  BY <1>1, <1>2, <1>3, <1>4
     DEF WritebackInv, EvidenceBacksCompletion, Ops, ConsumeTrim, Written, Executes, Consume
<1> QED
  BY <1>5, <1>6, <1>7, <1>8, <1>9, <1>10, <1>11, <1>12, <1>13, <1>14, <1>15 DEF WritebackInv

LEMMA CompleteKeeps ==
  ASSUME WritebackAssumption, WritebackInv, NEW p \in Procs, Complete(p)
  PROVE  WritebackInv'
<1> USE DEF Mine, At, privateVars, bounds, fileVars
<1>1. Moved(p, "idle", NoOp, 0)
  BY QuitMoved DEF WritebackInv, Complete
<1>2. Mine(p) \in TrimOps /\ Mine(p) \in Ops /\ Mine(p) \notin Undos
  BY DEF WritebackAssumption, WritebackInv, Placed, Executing, Reconciling, TrimPCs, Ops,
         Complete
<1>3. Written(Mine(p), "completed", op[Mine(p)].after, op[Mine(p)].rollback,
              op[Mine(p)].spooled)
  <2> DEFINE r == [op[Mine(p)] EXCEPT !.state = "completed"]
  <2>1. op[Mine(p)] \in RowRec
    BY <1>2 DEF WritebackInv, TypeOK, RowRec
  <2>2. /\ r \in RowRec /\ r.state = "completed" /\ r.after = op[Mine(p)].after
        /\ r.rollback = op[Mine(p)].rollback /\ r.spooled = op[Mine(p)].spooled
    BY <2>1 DEF RowRec, States, Terminal, Interrupted
  <2>3. op' = [op EXCEPT ![Mine(p)] = r]
    BY DEF Complete
  <2> HIDE DEF r
  <2> QED
    BY <1>2, <2>2, <2>3, RowWritten DEF WritebackInv
<1>4. edits \in Nat /\ 0 <= edits
  BY EditsAreNumbers DEF WritebackInv
<1>5. TypeOK'
  BY <1>1, <1>2, <1>3, <1>4
     DEF WritebackInv, TypeOK, ProcRec, RowRec, Ops, Complete, Moved, Written, Unlock
<1>6. \A q \in Procs : Placed(q)'
  BY <1>1, <1>2, <1>3, <1>4
     DEF WritebackInv, Placed, Executing, Reconciling, Undoing, TrimPCs, UndoPCs, Holding,
         Complete, Moved, Unlock
<1>7. \A q \in Procs : Executes(q)'
  BY <1>1, <1>2, <1>3, <1>4
     DEF WritebackInv, Executes, StateAt, BeforeReplaced, BeforeSpooled, Executing, TrimPCs,
         After, Complete, Moved, Written, Placed, Alone, Ops
<1>8. \A q \in Procs : Resolves(q)' /\ Fails(q)'
  BY <1>1, <1>2, <1>3, <1>4
     DEF WritebackInv, Resolves, Fails, FailurePCs, Reconciling, Undoing, UndoPCs, UndoneAt,
         PastUndoLock, Original, Complete, Moved, Written, Placed, Ops, Executing, TrimPCs,
         Executes
<1>9. \A q \in Procs : Evidenced(q)'
  BY <1>1, <1>2, <1>3, <1>4 DEF WritebackInv, Evidenced, Complete, Moved
<1>10. \A q \in Procs : Compared(q)'
  BY <1>1, <1>2, <1>3, <1>4
     DEF WritebackInv, Compared, Expected, Original, After, Complete, Moved
<1>11. \A x \in Ops : Founded(x)'
  BY <1>1, <1>2, <1>3, <1>4
     DEF WritebackInv, Founded, EarlyStates, Complete, Written, Executes, Executing, TrimPCs, Ops,
         WritebackAssumption
<1>12. Alone'
  BY <1>1, <1>2, <1>3, <1>4
     DEF WritebackInv, Alone, Executing, TrimPCs, PastUndoLock, UndoPCs, Original, Complete,
         Moved
<1>13. Authored'
  BY <1>1, <1>2, <1>3, <1>4 DEF WritebackInv, Authored, After, Complete
<1>14. TrimIsOnRecord'
  BY <1>1, <1>2, <1>3, <1>4
     DEF WritebackInv, TrimIsOnRecord, Ops, Complete, Written, Executes, StateAt,
         BeforeSpooled, Executing, TrimPCs, Evidenced, Terminal
<1>15. EvidenceBacksCompletion'
  BY <1>1, <1>2, <1>3, <1>4
     DEF WritebackInv, EvidenceBacksCompletion, Ops, Complete, Written, Evidenced
<1> QED
  BY <1>5, <1>6, <1>7, <1>8, <1>9, <1>10, <1>11, <1>12, <1>13, <1>14, <1>15 DEF WritebackInv

----------------------------------------------------------------------------
(* Steps that end or leave what a process was at *)

\* A process stops or goes on to its next operation and leaves all else alone.
LEMMA QuitKeeps ==
  ASSUME WritebackAssumption, WritebackInv,
         NEW p \in Procs, NEW pc \in {"idle", "sweep"} \cup FailurePCs, NEW o,
         NEW e \in 0..edits,
         pc \in FailurePCs =>
           /\ o \in Ops /\ auth[o] = "consumed"
           /\ \A q \in Procs \ {p} : proc[q].pc \in Executing => Mine(q) # o
           /\ pc = "failed_before_mutation" => ~ op[o].spooled,
         Moved(p, pc, o, e), lock' \in {lock, IF lock = p THEN Free ELSE lock},
         UNCHANGED <<fileVars, auth, op, created, privateVars, evidence, edits>>,
         failures' \in 0..MaxFailures
  PROVE  WritebackInv'
<1> USE DEF Mine, At, privateVars, bounds, fileVars, FailurePCs
<1>1. edits \in Nat /\ 0 <= edits
  BY EditsAreNumbers DEF WritebackInv
<1>2. TypeOK'
  BY <1>1 DEF WritebackInv, TypeOK, ProcRec, RowRec, Ops, Moved
<1>3. \A q \in Procs : Placed(q)' /\ Evidenced(q)'
  BY <1>1
     DEF WritebackInv, Placed, Executing, Reconciling, Undoing, TrimPCs, UndoPCs, Holding,
         Evidenced, Moved
<1>4. \A q \in Procs : Executes(q)'
  BY <1>1
     DEF WritebackInv, Executes, StateAt, BeforeReplaced, BeforeSpooled, Executing, TrimPCs,
         After, Moved
<1>5. \A q \in Procs : Resolves(q)' /\ Fails(q)'
  BY <1>1
     DEF WritebackInv, Resolves, Fails, FailurePCs, Reconciling, Undoing, UndoPCs, UndoneAt,
         PastUndoLock, Original, Moved, Executing, TrimPCs, Ops, Executes, Placed
<1>6. \A q \in Procs : Compared(q)'
  BY <1>1 DEF WritebackInv, Compared, Expected, Original, After, Moved
<1>7. (\A x \in Ops : Founded(x)') /\ Authored' /\ TrimIsOnRecord' /\ EvidenceBacksCompletion'
  BY <1>1
     DEF WritebackInv, Founded, EarlyStates, Authored, After, TrimIsOnRecord, Ops,
         EvidenceBacksCompletion
<1>8. Alone'
  BY <1>1 DEF WritebackInv, Alone, Executing, TrimPCs, PastUndoLock, UndoPCs, Original, Moved
<1> QED
  BY <1>2, <1>3, <1>4, <1>5, <1>6, <1>7, <1>8 DEF WritebackInv

\* A process gives an operation another state and leaves it, when no process is
\* executing it any more and the file is not what it made.
LEMMA StopKeeps ==
  ASSUME WritebackAssumption, WritebackInv,
         NEW p \in Procs, NEW pc \in {"idle", "sweep"}, Moved(p, pc, NoOp, 0),
         lock' \in {lock, IF lock = p THEN Free ELSE lock},
         NEW o \in Ops, NEW st \in States \ ({"completed"} \cup EarlyStates), NEW after \in BOOLEAN,
         Written(o, st, after, op[o].rollback, op[o].spooled),
         op[o].after => after, auth[o] = "consumed",
         \A q \in Procs \ {p} : proc[q].pc \in Executing => Mine(q) # o,
         o = author => /\ o \in Undos \/ st \in {"evidence_pending", "file_replaced",
                                                 "readback_verified", "recovery_required"}
                       /\ o \in TrimOps =>
                            \/ o \in recAuth
                            \/ spool[o] = "committed" /\ evidence[o.before].status # "none",
         UNCHANGED <<fileVars, auth, created, privateVars, evidence, edits>>,
         failures' \in 0..MaxFailures
  PROVE  WritebackInv'
<1> USE DEF Mine, At, privateVars, bounds, fileVars
<1>1. edits \in Nat /\ 0 <= edits
  BY EditsAreNumbers DEF WritebackInv
<1>2. TypeOK'
  BY <1>1 DEF WritebackInv, TypeOK, ProcRec, RowRec, Ops, Moved, Written
<1>3. \A q \in Procs : Placed(q)' /\ Evidenced(q)'
  BY <1>1
     DEF WritebackInv, Placed, Executing, Reconciling, Undoing, TrimPCs, UndoPCs, Holding,
         Evidenced, Moved
<1>4. \A q \in Procs : Executes(q)'
  BY <1>1
     DEF WritebackInv, Executes, StateAt, BeforeReplaced, BeforeSpooled, Executing, TrimPCs,
         After, Moved, Written, Placed, Alone, Ops
<1>5. \A q \in Procs : Resolves(q)' /\ Fails(q)'
  BY <1>1
     DEF WritebackInv, Resolves, Fails, FailurePCs, Reconciling, Undoing, UndoPCs, UndoneAt,
         PastUndoLock, Original, Moved, Written, Placed, Ops, Executing, TrimPCs, Executes
<1>6. \A q \in Procs : Compared(q)'
  BY <1>1 DEF WritebackInv, Compared, Expected, Original, After, Moved
<1>7. \A x \in Ops : Founded(x)'
  BY <1>1
     DEF WritebackInv, Founded, EarlyStates, Written, Executes, Executing, TrimPCs, Ops,
         WritebackAssumption
<1>8. Alone'
  BY <1>1 DEF WritebackInv, Alone, Executing, TrimPCs, PastUndoLock, UndoPCs, Original, Moved
<1>9. Authored'
  BY <1>1 DEF WritebackInv, Authored, After
<1>10. TrimIsOnRecord'
  BY <1>1
     DEF WritebackInv, TrimIsOnRecord, Ops, Written, Executes, StateAt, BeforeSpooled,
         Executing, TrimPCs
<1>11. EvidenceBacksCompletion'
  BY <1>1 DEF WritebackInv, EvidenceBacksCompletion, Ops, Written
<1> QED
  BY <1>2, <1>3, <1>4, <1>5, <1>6, <1>7, <1>8, <1>9, <1>10, <1>11 DEF WritebackInv

----------------------------------------------------------------------------
(* The coordinator and the operator *)

LEMMA SweepKeeps ==
  ASSUME WritebackAssumption, WritebackInv, NEW p \in Procs, Sweep(p)
  PROVE  WritebackInv'
<1> DEFINE r == [IdleProc EXCEPT !.pc = "sweep",
                                 !.todo = {o \in Ops : op[o].state \in Interrupted}]
<1>1. IdleProc \in ProcRec
  BY DEF IdleProc, ProcRec, PCs, WritebackAssumption
<1>2. r \in ProcRec /\ r.pc = "sweep" /\ r.op = NoOp /\ r.edits = 0
  BY <1>1 DEF ProcRec, PCs, IdleProc
<1>3. proc' = [proc EXCEPT ![p] = r]
  BY DEF Sweep
<1> HIDE DEF r
<1>4. Moved(p, "sweep", NoOp, 0)
  BY <1>2, <1>3, RecordMoved DEF WritebackInv
<1>5. 0 \in 0..edits
  BY EditsAreNumbers DEF WritebackInv
<1>6. "sweep" \in {"idle", "sweep"} \cup FailurePCs /\ "sweep" \notin FailurePCs
  BY DEF FailurePCs
<1> QED
  BY <1>4, <1>5, <1>6, QuitKeeps
     DEF Sweep, fileVars, privateVars, bounds, WritebackInv, TypeOK


LEMMA QuitterKeeps ==
  ASSUME WritebackAssumption, WritebackInv,
         NEW p \in Procs, Quit(p), lock' \in {lock, IF lock = p THEN Free ELSE lock},
         UNCHANGED <<fileVars, auth, op, created, privateVars, evidence, edits>>,
         failures' \in 0..MaxFailures
  PROVE  WritebackInv'
<1>1. Moved(p, "idle", NoOp, 0)
  BY QuitMoved DEF WritebackInv
<1>2. 0 \in 0..edits
  BY EditsAreNumbers DEF WritebackInv
<1> QED
  BY <1>1, <1>2, QuitKeeps DEF FailurePCs


LEMMA RecoveryDeniedKeeps ==
  ASSUME WritebackAssumption, WritebackInv, NEW p \in Procs, RecoveryDenied(p)
  PROVE  WritebackInv'
<1> QED
  BY QuitterKeeps DEF RecoveryDenied, bounds, WritebackInv, TypeOK


LEMMA CrashKeeps ==
  ASSUME WritebackAssumption, WritebackInv, NEW p \in Procs, Crash(p)
  PROVE  WritebackInv'
<1>1. failures' \in 0..MaxFailures
  BY DEF Crash, WritebackInv, TypeOK, WritebackAssumption
<1> QED
  BY <1>1, QuitterKeeps DEF Crash, Unlock


\* What is reconciled has a spool in its row.
LEMMA ReconcileBegins ==
  ASSUME WritebackAssumption, WritebackInv,
         NEW p \in Procs, NEW o \in TrimOps, NEW e \in 0..edits, op[o].spooled,
         Moved(p, "rec_lock", o, e),
         UNCHANGED <<fileVars, auth, op, created, privateVars, evidence, lock, bounds>>
  PROVE  WritebackInv'
<1> USE DEF Mine, At, privateVars, bounds, fileVars
<1>1. Mine(p)' = o /\ At(p, "rec_lock")'
  BY DEF Moved
<1>2. edits \in Nat /\ 0 <= edits
  BY EditsAreNumbers DEF WritebackInv
<1>3. TypeOK'
  BY <1>1, <1>2 DEF WritebackInv, TypeOK, ProcRec, RowRec, Ops, Moved
<1>4. \A q \in Procs : Placed(q)' /\ Evidenced(q)'
  BY <1>1, <1>2
     DEF WritebackInv, Placed, Executing, Reconciling, Undoing, TrimPCs, UndoPCs, Holding,
         Evidenced, Moved
<1>5. \A q \in Procs : Executes(q)'
  BY <1>1, <1>2
     DEF WritebackInv, Executes, StateAt, BeforeReplaced, BeforeSpooled, Executing, TrimPCs,
         After, Moved
<1>6. \A q \in Procs : Resolves(q)' /\ Fails(q)'
  BY <1>1, <1>2
     DEF WritebackInv, Resolves, Fails, FailurePCs, Reconciling, Undoing, UndoPCs, UndoneAt,
         PastUndoLock, Original, Moved, Ops, Founded, Executing, TrimPCs, Executes, Placed
<1>7. \A q \in Procs : Compared(q)'
  BY <1>1, <1>2 DEF WritebackInv, Compared, Expected, Original, After, Moved
<1>8. (\A x \in Ops : Founded(x)') /\ Authored' /\ TrimIsOnRecord' /\ EvidenceBacksCompletion'
  BY <1>1, <1>2
     DEF WritebackInv, Founded, EarlyStates, Authored, After, TrimIsOnRecord, Ops,
         EvidenceBacksCompletion
<1>9. Alone'
  BY <1>1, <1>2
     DEF WritebackInv, Alone, Executing, TrimPCs, PastUndoLock, UndoPCs, Original, Moved
<1> QED
  BY <1>3, <1>4, <1>5, <1>6, <1>7, <1>8, <1>9 DEF WritebackInv

LEMMA ReconcileKeeps ==
  ASSUME WritebackAssumption, WritebackInv, NEW p \in Procs, Reconcile(p)
  PROVE  WritebackInv'
<1>1. PICK o \in proc[p].todo \cap recAuth :
        proc' = [proc EXCEPT ![p] =
             IF op[o].state \in Terminal \/ ~ op[o].spooled THEN [proc[p] EXCEPT !.todo = @ \ {o}]
             ELSE [proc[p] EXCEPT !.todo = @ \ {o}, !.pc = "rec_lock", !.op = o,
                                  !.pending = (spool[o] = "pending")]]
  BY DEF Reconcile
<1>2. o \in TrimOps /\ o \in Ops /\ proc[p] \in ProcRec /\ proc[p].edits \in 0..edits
  BY EditsAreNumbers DEF WritebackInv, TypeOK, ProcRec, Compared, Ops, WritebackAssumption
<1>3. /\ At(p, "sweep")
      /\ UNCHANGED <<fileVars, auth, op, created, privateVars, evidence, lock, bounds>>
  BY DEF Reconcile
<1>4. CASE op[o].state \in Terminal \/ ~ op[o].spooled
  <2> DEFINE r == [proc[p] EXCEPT !.todo = @ \ {o}]
  <2>1. r \in ProcRec /\ r.pc = "sweep" /\ r.op = Mine(p) /\ r.edits = proc[p].edits
    BY <1>2, <1>3 DEF ProcRec, At, Mine
  <2>2. proc' = [proc EXCEPT ![p] = r]
    BY <1>1, <1>4
  <2> HIDE DEF r
  <2>3. Moved(p, r.pc, r.op, r.edits)
    BY <2>1, <2>2, RecordMoved DEF WritebackInv
  <2> QED
    BY <2>1, <2>3, <1>2, <1>3, QuitKeeps DEF bounds, WritebackInv, TypeOK, FailurePCs
<1>5. CASE op[o].state \notin Terminal /\ op[o].spooled
  <2> DEFINE r == [proc[p] EXCEPT !.todo = @ \ {o}, !.pc = "rec_lock", !.op = o,
                                  !.pending = (spool[o] = "pending")]
  <2>1. r \in ProcRec /\ r.pc = "rec_lock" /\ r.op = o /\ r.edits = proc[p].edits
    BY <1>2 DEF ProcRec, PCs, ReconcilePCs
  <2>2. proc' = [proc EXCEPT ![p] = r]
    BY <1>1, <1>5
  <2> HIDE DEF r
  <2>3. Moved(p, "rec_lock", o, proc[p].edits)
    BY <2>1, <2>2, RecordMoved DEF WritebackInv
  <2> QED
    BY <2>3, <1>2, <1>3, <1>5, ReconcileBegins
<1> QED
  BY <1>4, <1>5


\* The operation a measurement leads to is a trim.
LEMMA MeasuredKeeps ==
  ASSUME WritebackAssumption, WritebackInv,
         NEW p \in Procs, NEW o \in TrimOps, NEW e \in 0..edits, Moved(p, "authorize", o,
         e),
         UNCHANGED <<fileVars, auth, op, created, privateVars, evidence, lock, bounds>>
  PROVE  WritebackInv'
<1> USE DEF Mine, At, privateVars, bounds, fileVars
<1>1. Mine(p)' = o /\ At(p, "authorize")'
  BY DEF Moved
<1>2. edits \in Nat /\ 0 <= edits
  BY EditsAreNumbers DEF WritebackInv
<1>3. TypeOK'
  BY <1>1, <1>2 DEF WritebackInv, TypeOK, ProcRec, RowRec, Ops, Moved
<1>4. \A q \in Procs : Placed(q)' /\ Evidenced(q)'
  BY <1>1, <1>2
     DEF WritebackInv, Placed, Executing, Reconciling, Undoing, TrimPCs, UndoPCs, Holding,
         Evidenced, Moved
<1>5. \A q \in Procs : Executes(q)'
  BY <1>1, <1>2
     DEF WritebackInv, Executes, StateAt, BeforeReplaced, BeforeSpooled, Executing, TrimPCs,
         After, Moved
<1>6. \A q \in Procs : Resolves(q)' /\ Fails(q)'
  BY <1>1, <1>2
     DEF WritebackInv, Resolves, Fails, FailurePCs, Reconciling, Undoing, UndoPCs, UndoneAt,
         PastUndoLock, Original, Moved, Executing, TrimPCs, Ops, Executes, Placed
<1>7. \A q \in Procs : Compared(q)'
  BY <1>1, <1>2 DEF WritebackInv, Compared, Expected, Original, After, Moved
<1>8. (\A x \in Ops : Founded(x)') /\ Authored' /\ TrimIsOnRecord' /\ EvidenceBacksCompletion'
  BY <1>1, <1>2
     DEF WritebackInv, Founded, EarlyStates, Authored, After, TrimIsOnRecord, Ops,
         EvidenceBacksCompletion
<1>9. Alone'
  BY <1>1, <1>2
     DEF WritebackInv, Alone, Executing, TrimPCs, PastUndoLock, UndoPCs, Original, Moved
<1> QED
  BY <1>3, <1>4, <1>5, <1>6, <1>7, <1>8, <1>9 DEF WritebackInv

LEMMA MeasureKeeps ==
  ASSUME WritebackAssumption, WritebackInv, NEW p \in Procs, Measure(p)
  PROVE  WritebackInv'
<1>1. /\ At(p, "sweep")
      /\ UNCHANGED <<fileVars, auth, op, created, privateVars, evidence, lock, bounds>>
  BY DEF Measure
<1>2. CASE Quit(p)
  BY <1>1, <1>2, QuitterKeeps DEF bounds, WritebackInv, TypeOK
<1>3. CASE \E id \in TrimOps : proc' = [proc EXCEPT ![p].pc = "authorize", ![p].op = id]
  <2>1. PICK id \in TrimOps : proc' = [proc EXCEPT ![p].pc = "authorize", ![p].op = id]
    BY <1>3
  <2> DEFINE r == [proc[p] EXCEPT !.pc = "authorize", !.op = id]
  <2>2. proc[p] \in ProcRec /\ proc[p].edits \in 0..edits
    BY EditsAreNumbers DEF WritebackInv, TypeOK, ProcRec, Compared, WritebackAssumption
  <2>3. r \in ProcRec /\ r.pc = "authorize" /\ r.op = id /\ r.edits = proc[p].edits
    BY <2>2 DEF ProcRec, PCs, Ops
  <2>4. proc' = [proc EXCEPT ![p] = r]
    BY <2>1
  <2> HIDE DEF r
  <2>5. Moved(p, "authorize", id, proc[p].edits)
    BY <2>3, <2>4, RecordMoved DEF WritebackInv
  <2> QED
    BY <2>2, <2>5, <1>1, MeasuredKeeps
<1>4. ASSUME file.content \in OverTrigger
      PROVE  LET c == file.content
                 stable == [before |-> c, tag |-> 0]
                 attempt == Cardinality({o \in TrimOps : o.before = c /\ auth[o] # "none"})
                 id == IF auth[stable] = "none" THEN stable ELSE [before |-> c, tag |-> attempt]
             IN id.tag > MaxRetries \/ id \in TrimOps
  <2> DEFINE S == {o \in TrimOps : o.before = file.content /\ auth[o] # "none"}
             tag == [o \in S |-> o.tag]
  <2>1. IsFiniteSet(0..MaxRetries)
    BY FS_Interval DEF WritebackAssumption
  <2>2. tag \in [S -> 0..MaxRetries]
    BY DEF TrimOps
  <2>3. \A o, q \in S : tag[o] = tag[q] => o = q
    BY DEF TrimOps
  <2>4. Cardinality(S) \in Nat
    <3> HIDE DEF tag, S
    <3>1. tag \in Injection(S, 0..MaxRetries)
      BY <2>2, <2>3 DEF Injection, IsInjective
    <3>2. IsFiniteSet(S)
      BY <2>1, <3>1, FS_Injection
    <3> QED
      BY <3>2, FS_CardinalityType
  <2> QED
    BY <1>4, <2>4 DEF TrimOps, WritebackAssumption
<1> QED
  BY <1>1, <1>2, <1>3, <1>4 DEF Measure


\* An authorization is issued once, so that nobody else runs its operation; a
\* trim that a rollback names has replaced the file before, so that no process
\* at its beginning executes it.
LEMMA IssueKeeps ==
  ASSUME WritebackAssumption, WritebackInv,
         NEW p \in Procs, NEW o \in Ops, NEW e \in 0..edits, NEW pc \in {"consume",
         "undo_consume"},
         Moved(p, pc, o, e), auth[o] = "none", auth' = [auth EXCEPT ![o] = "issued"],
         (pc = "consume" /\ o \in TrimOps) \/ (pc = "undo_consume" /\ o \in Undos /\ op[Undone[o]].after),
         UNCHANGED <<fileVars, op, created, privateVars, evidence, lock, bounds>>
  PROVE  WritebackInv'
<1> USE DEF Mine, At, privateVars, bounds, fileVars
<1>1. Mine(p)' = o /\ o \in Ops
  BY DEF Moved, Ops
<1>2. auth'[o] = "issued" /\ \A x \in Ops \ {o} : auth'[x] = auth[x]
  BY <1>1 DEF WritebackInv, TypeOK
<1>3. edits \in Nat /\ 0 <= edits
  BY EditsAreNumbers DEF WritebackInv
<1>4. op[o] = [state |-> "none", after |-> FALSE, rollback |-> FALSE, spooled |-> FALSE]
  BY <1>1 DEF WritebackInv, Founded
<1>5. o \in TrimOps => o \notin Undos
  BY DEF WritebackAssumption
<1>6. TypeOK'
  BY <1>1, <1>2, <1>3, <1>4, <1>5 DEF WritebackInv, TypeOK, ProcRec, RowRec, Ops, Moved
<1>7. \A q \in Procs : Placed(q)' /\ Evidenced(q)'
  BY <1>1, <1>2, <1>3, <1>4, <1>5
     DEF WritebackInv, Placed, Executing, Reconciling, Undoing, TrimPCs, UndoPCs, Holding,
         Evidenced, Moved
<1>8. \A q \in Procs : Executes(q)'
  BY <1>1, <1>2, <1>3, <1>4, <1>5
     DEF WritebackInv, Executes, StateAt, BeforeReplaced, BeforeSpooled, Executing, TrimPCs,
         After, Moved, Placed, Ops
<1>9. \A q \in Procs : Resolves(q)' /\ Fails(q)'
  BY <1>1, <1>2, <1>3, <1>4, <1>5
     DEF WritebackInv, Resolves, Fails, FailurePCs, Reconciling, Undoing, UndoPCs, UndoneAt,
         PastUndoLock, Original, Moved, Placed, Ops, Founded, Executing, TrimPCs, Executes
<1>10. \A q \in Procs : Compared(q)'
  BY <1>1, <1>2, <1>3, <1>4, <1>5 DEF WritebackInv, Compared, Expected, Original, After, Moved
<1>11. \A x \in Ops : Founded(x)'
  BY <1>1, <1>2, <1>3, <1>4, <1>5 DEF WritebackInv, Founded, EarlyStates, Ops, WritebackAssumption
<1>12. Alone'
  BY <1>1, <1>2, <1>3, <1>4, <1>5
     DEF WritebackInv, Alone, Executing, TrimPCs, PastUndoLock, UndoPCs, Original, Moved,
         Executes, Resolves, Undoing, Founded, Placed, Ops, WritebackAssumption
<1>13. Authored' /\ TrimIsOnRecord' /\ EvidenceBacksCompletion'
  BY <1>1, <1>2, <1>3, <1>4, <1>5
     DEF WritebackInv, Authored, After, TrimIsOnRecord, Ops, EvidenceBacksCompletion
<1> QED
  BY <1>6, <1>7, <1>8, <1>9, <1>10, <1>11, <1>12, <1>13 DEF WritebackInv

LEMMA AuthorizeKeeps ==
  ASSUME WritebackAssumption, WritebackInv, NEW p \in Procs, Authorize(p)
  PROVE  WritebackInv'
<1>1. /\ At(p, "authorize")
      /\ UNCHANGED <<fileVars, op, created, privateVars, evidence, lock, bounds>>
  BY DEF Authorize
<1>2. Mine(p) \in TrimOps /\ Mine(p) \in Ops /\ proc[p].edits \in 0..edits
  BY <1>1, EditsAreNumbers
     DEF WritebackInv, Placed, Compared, At, TypeOK, Ops, WritebackAssumption
<1>3. CASE Quit(p) /\ UNCHANGED auth
  BY <1>1, <1>3, QuitterKeeps DEF bounds, WritebackInv, TypeOK
<1>4. CASE auth[Mine(p)] = "none" /\ auth' = [auth EXCEPT ![Mine(p)] = "issued"] /\ Goto(p, "consume")
  <2>1. Moved(p, "consume", Mine(p), proc[p].edits)
    BY <1>4, GotoMoved DEF WritebackInv, PCs
  <2> QED
    BY <1>1, <1>2, <1>4, <2>1, IssueKeeps
<1> QED
  BY <1>3, <1>4 DEF Authorize


LEMMA OperateKeeps ==
  ASSUME WritebackAssumption, WritebackInv, NEW p \in Procs, NEW o \in Ops, Operate(p, o)
  PROVE  WritebackInv'
<1> DEFINE pc == IF o \in TrimOps THEN "consume" ELSE "undo_consume"
           r == [IdleProc EXCEPT !.pc = pc, !.op = o]
<1>1. /\ auth[o] = "none" /\ auth' = [auth EXCEPT ![o] = "issued"]
      /\ UNCHANGED <<fileVars, op, created, privateVars, evidence, lock, bounds>>
  BY DEF Operate
<1>2. /\ proc' = [proc EXCEPT ![p] = r]
      /\ (pc = "consume" /\ o \in TrimOps) \/ (pc = "undo_consume" /\ o \in Undos /\ op[Undone[o]].after)
  BY DEF Operate, WritebackAssumption
<1>3. IdleProc \in ProcRec
  BY DEF IdleProc, ProcRec, PCs, WritebackAssumption
<1>4. r \in ProcRec /\ r.pc = pc /\ r.op = o /\ r.edits = 0
  BY <1>3 DEF ProcRec, PCs, IdleProc
<1> HIDE DEF r
<1>5. Moved(p, pc, o, 0)
  BY <1>2, <1>4, RecordMoved DEF WritebackInv
<1>6. 0 \in 0..edits
  BY EditsAreNumbers DEF WritebackInv
<1> QED
  BY <1>1, <1>2, <1>5, <1>6, IssueKeeps


LEMMA ReconcileUndoBegins ==
  ASSUME WritebackAssumption, WritebackInv,
         NEW p \in Procs, NEW u \in Undos, Moved(p, "rec_undo", u, 0),
         StartReconcileUndo(p, u)
  PROVE  WritebackInv'
<1> USE DEF Mine, At, privateVars, bounds, fileVars
<1>1. Mine(p)' = u /\ At(p, "rec_undo")' /\ u \in Ops
  BY DEF Moved, Ops
<1>2. edits \in Nat /\ 0 <= edits
  BY EditsAreNumbers DEF WritebackInv
<1>3. auth[u] = "consumed"
  BY <1>1 DEF WritebackInv, Founded, StartReconcileUndo, TypeOK
<1>4. u \notin TrimOps
  BY DEF WritebackAssumption
<1>5. TypeOK'
  BY <1>1, <1>2, <1>3, <1>4
     DEF WritebackInv, TypeOK, ProcRec, RowRec, Ops, StartReconcileUndo, Moved
<1>6. \A q \in Procs : Placed(q)' /\ Evidenced(q)'
  BY <1>1, <1>2, <1>3, <1>4
     DEF WritebackInv, Placed, Executing, Reconciling, Undoing, TrimPCs, UndoPCs, Holding,
         Evidenced, StartReconcileUndo, Moved
<1>7. \A q \in Procs : Executes(q)'
  BY <1>1, <1>2, <1>3, <1>4
     DEF WritebackInv, Executes, StateAt, BeforeReplaced, BeforeSpooled, Executing, TrimPCs,
         After, StartReconcileUndo, Moved
<1>8. \A q \in Procs : Resolves(q)' /\ Fails(q)'
  BY <1>1, <1>2, <1>3, <1>4
     DEF WritebackInv, Resolves, Fails, FailurePCs, Reconciling, Undoing, UndoPCs, UndoneAt,
         PastUndoLock, Original, StartReconcileUndo, Moved, Ops, Founded, Executing, TrimPCs,
         Executes, Placed
<1>9. \A q \in Procs : Compared(q)'
  BY <1>1, <1>2, <1>3, <1>4
     DEF WritebackInv, Compared, Expected, Original, After, StartReconcileUndo, Moved
<1>10. (\A x \in Ops : Founded(x)') /\ Authored' /\ TrimIsOnRecord' /\ EvidenceBacksCompletion'
  BY <1>1, <1>2, <1>3, <1>4
     DEF WritebackInv, Founded, EarlyStates, Authored, After, TrimIsOnRecord, Ops,
         EvidenceBacksCompletion, StartReconcileUndo
<1>11. Alone'
  BY <1>1, <1>2, <1>3, <1>4
     DEF WritebackInv, Alone, Executing, TrimPCs, PastUndoLock, UndoPCs, Original,
         StartReconcileUndo, Moved
<1> QED
  BY <1>5, <1>6, <1>7, <1>8, <1>9, <1>10, <1>11 DEF WritebackInv

LEMMA StartReconcileUndoKeeps ==
  ASSUME WritebackAssumption, WritebackInv,
         NEW p \in Procs, NEW u \in Undos, StartReconcileUndo(p, u)
  PROVE  WritebackInv'
<1> DEFINE r == [IdleProc EXCEPT !.pc = "rec_undo", !.op = u]
<1>1. IdleProc \in ProcRec
  BY DEF IdleProc, ProcRec, PCs, WritebackAssumption
<1>2. r \in ProcRec /\ r.pc = "rec_undo" /\ r.op = u /\ r.edits = 0
  BY <1>1 DEF ProcRec, PCs, ReconcilePCs, IdleProc, Ops
<1>3. proc' = [proc EXCEPT ![p] = r]
  BY DEF StartReconcileUndo
<1> HIDE DEF r
<1>4. Moved(p, "rec_undo", u, 0)
  BY <1>2, <1>3, RecordMoved DEF WritebackInv
<1> QED
  BY <1>4, ReconcileUndoBegins


----------------------------------------------------------------------------
(* Stale hashes, blocked plans and exceptions *)

\* A process leaves the operation it executes or rolls back.
LEMMA ErrorKeeps ==
  ASSUME WritebackAssumption, WritebackInv,
         NEW p \in Procs, NEW st \in States \ ({"completed"} \cup EarlyStates), NEW after \in BOOLEAN,
         proc[p].pc \in Executing \cup Undoing, auth[Mine(p)] = "consumed", Quit(p), Unlock(p),
         Written(Mine(p), st, after, op[Mine(p)].rollback, op[Mine(p)].spooled),
         op[Mine(p)].after => after,
         author = Mine(p) /\ Mine(p) \in TrimOps =>
           st = "recovery_required" /\ proc[p].pc \notin {"lock", "read"},
         UNCHANGED <<fileVars, auth, created, privateVars, evidence, edits>>,
         failures' \in 0..MaxFailures
  PROVE  WritebackInv'
<1>1. Moved(p, "idle", NoOp, 0)
  BY QuitMoved DEF WritebackInv
<1>2. Mine(p) \in Ops
  BY DEF WritebackInv, Placed, Ops
<1>3. \A q \in Procs \ {p} : proc[q].pc \in Executing => Mine(q) # Mine(p)
  BY DEF WritebackInv, Placed, Alone, WritebackAssumption
<1>4. Mine(p) = author =>
        /\ Mine(p) \in Undos \/ st \in {"evidence_pending", "file_replaced", "readback_verified",
                                       "recovery_required"}
        /\ Mine(p) \in TrimOps => Mine(p) \in recAuth
  BY DEF WritebackInv, Placed, Executes, WritebackAssumption
<1>5. lock' \in {lock, IF lock = p THEN Free ELSE lock}
  BY DEF Unlock
<1> HIDE DEF Mine
<1> QED
  BY <1>1, <1>2, <1>3, <1>4, <1>5, StopKeeps


LEMMA ReadOnKeeps ==
  ASSUME WritebackAssumption, WritebackInv,
         NEW p \in Procs, Mine(p) \in TrimOps, At(p, "read"), lock = p,
         After(Mine(p)) # Mine(p).before, recAuth' = recAuth \cup {Mine(p)},
         Moved(p, "backup", Mine(p), proc[p].edits),
         UNCHANGED <<fileVars, auth, created, backup, spool, evidence, bounds, op, lock>>
  PROVE  WritebackInv'
<1> USE DEF Mine, At, privateVars, bounds, fileVars
<1>1. Mine(p) \in Ops /\ Mine(p)' = Mine(p)
  BY DEF Ops, Moved
<1>2. TypeOK'
  BY <1>1 DEF WritebackInv, TypeOK, ProcRec, RowRec, Ops, Moved
<1>3. \A q \in Procs : Placed(q)' /\ Evidenced(q)' /\ Compared(q)'
  BY <1>1
     DEF WritebackInv, Placed, Executing, Reconciling, Undoing, TrimPCs, UndoPCs, Holding,
         Evidenced, Compared, Expected, Original, After, Moved
<1>4. \A q \in Procs : Executes(q)'
  BY <1>1
     DEF WritebackInv, Executes, StateAt, BeforeReplaced, BeforeSpooled, Executing, TrimPCs,
         After, Moved
<1>5. \A q \in Procs : Resolves(q)' /\ Fails(q)'
  BY <1>1
     DEF WritebackInv, Resolves, Fails, FailurePCs, Reconciling, Undoing, UndoPCs, UndoneAt,
         PastUndoLock, Original, Moved, Executing, TrimPCs, Ops, Executes, Placed
<1>6. (\A x \in Ops : Founded(x)') /\ Authored' /\ TrimIsOnRecord' /\ EvidenceBacksCompletion'
  BY <1>1
     DEF WritebackInv, Founded, EarlyStates, Authored, After, TrimIsOnRecord, Ops,
         EvidenceBacksCompletion
<1>7. Alone'
  BY <1>1 DEF WritebackInv, Alone, Executing, TrimPCs, PastUndoLock, UndoPCs, Original, Moved
<1> QED
  BY <1>2, <1>3, <1>4, <1>5, <1>6, <1>7 DEF WritebackInv

LEMMA ReadKeeps ==
  ASSUME WritebackAssumption, WritebackInv, NEW p \in Procs, Read(p)
  PROVE  WritebackInv'
<1> USE DEF fileVars, privateVars, bounds
<1>1. /\ Mine(p) \in TrimOps /\ Mine(p) \in Ops
      /\ auth[Mine(p)] = "consumed" /\ op[Mine(p)].state = "locked" /\ ~ op[Mine(p)].after
      /\ proc[p].pc \in Executing /\ At(p, "read") /\ lock = p
  BY DEF WritebackInv, Placed, Executes, Executing, TrimPCs, Holding, StateAt, BeforeReplaced,
         Ops, Read, At, Mine
<1>2. author # Mine(p)
  BY <1>1 DEF WritebackInv, TrimIsOnRecord
<1>3. UNCHANGED <<fileVars, auth, created, backup, spool, evidence, bounds>>
  BY DEF Read
<1>4. CASE file.content # Mine(p).before
  <2>1. /\ op' = [op EXCEPT ![Mine(p)] = [@ EXCEPT !.state = "concurrent_edit_detected"]]
        /\ Quit(p) /\ Unlock(p) /\ UNCHANGED recAuth
    BY <1>4 DEF Read
  <2>2. Written(Mine(p), "concurrent_edit_detected", op[Mine(p)].after, op[Mine(p)].rollback,
                op[Mine(p)].spooled)
    BY <1>1, <2>1, StateWritten DEF SetState, WritebackInv, States, Interrupted
  <2>3. op[Mine(p)].after \in BOOLEAN /\ "concurrent_edit_detected" \in States \ {"completed"}
    BY <1>1 DEF WritebackInv, TypeOK, States, Interrupted
  <2>4. UNCHANGED edits /\ failures' \in 0..MaxFailures
    BY <1>3 DEF WritebackInv, TypeOK
  <2> QED
    BY <1>1, <1>2, <1>3, <2>1, <2>2, <2>3, <2>4, ErrorKeeps DEF EarlyStates
<1>5. CASE file.content = Mine(p).before /\ After(Mine(p)) = Mine(p).before
  <2>1. /\ op' = [op EXCEPT ![Mine(p)] =
                      [@ EXCEPT !.state = "blocked_target_unreachable", !.after = TRUE]]
        /\ Quit(p) /\ Unlock(p) /\ UNCHANGED recAuth
    BY <1>5 DEF Read
  <2> DEFINE r == [op[Mine(p)] EXCEPT !.state = "blocked_target_unreachable", !.after = TRUE]
  <2>2. op[Mine(p)] \in RowRec
    BY <1>1 DEF WritebackInv, TypeOK, RowRec
  <2>3. /\ r \in RowRec /\ r.state = "blocked_target_unreachable" /\ r.after = TRUE
        /\ r.rollback = op[Mine(p)].rollback /\ r.spooled = op[Mine(p)].spooled
    BY <2>2 DEF RowRec, States, Terminal
  <2>4. op' = [op EXCEPT ![Mine(p)] = r]
    BY <2>1
  <2> HIDE DEF r
  <2>5. Written(Mine(p), "blocked_target_unreachable", TRUE, op[Mine(p)].rollback,
                op[Mine(p)].spooled)
    BY <1>1, <2>3, <2>4, RowWritten DEF WritebackInv
  <2> QED
    BY <1>1, <1>2, <1>3, <2>1, <2>5, ErrorKeeps
       DEF WritebackInv, TypeOK, States, Terminal, EarlyStates
<1>6. CASE file.content = Mine(p).before /\ After(Mine(p)) # Mine(p).before
  <2>1. /\ recAuth' = recAuth \cup {Mine(p)} /\ UNCHANGED <<op, lock>>
        /\ proc' = [proc EXCEPT ![p].pc = "backup", ![p].ident = file.ident]
    BY <1>6 DEF Read
  <2> DEFINE r == [proc[p] EXCEPT !.pc = "backup", !.ident = file.ident]
  <2>2. proc[p] \in ProcRec /\ file.ident \in Nat
    BY DEF WritebackInv, TypeOK, ProcRec
  <2>3. r \in ProcRec /\ r.pc = "backup" /\ r.op = Mine(p) /\ r.edits = proc[p].edits
    BY <2>2 DEF ProcRec, PCs, TrimPCs, Mine
  <2>4. proc' = [proc EXCEPT ![p] = r]
    BY <2>1
  <2> HIDE DEF r
  <2>5. Moved(p, "backup", Mine(p), proc[p].edits)
    BY <2>3, <2>4, RecordMoved DEF WritebackInv
  <2> QED
    BY <1>1, <1>3, <1>6, <2>1, <2>5, ReadOnKeeps
<1> QED
  BY <1>4, <1>5, <1>6


\* The last comparison before a replacement.
LEMMA ComparedKeeps ==
  ASSUME WritebackAssumption, WritebackInv, NEW p \in Procs,
         NEW pc \in {"replace", "undo_replace"},
         At(p, IF pc = "replace" THEN "recheck" ELSE "undo_recheck"),
         file.content = Expected(p), Moved(p, pc, Mine(p), edits),
         UNCHANGED <<fileVars, auth, op, created, privateVars, evidence, lock, bounds>>
  PROVE  WritebackInv'
<1> USE DEF Mine, At, privateVars, bounds, fileVars
<1>1. Mine(p)' = Mine(p) /\ Mine(p) \in Ops
  BY DEF WritebackInv, TypeOK, Moved, Placed, Executing, Undoing, TrimPCs, UndoPCs, Ops
<1>2. edits \in Nat /\ 0 <= edits
  BY EditsAreNumbers DEF WritebackInv
<1>3. TypeOK'
  BY <1>1, <1>2 DEF WritebackInv, TypeOK, ProcRec, RowRec, Ops, Moved
<1>4. \A q \in Procs : Placed(q)' /\ Evidenced(q)' /\ Compared(q)'
  BY <1>1, <1>2
     DEF WritebackInv, Placed, Executing, Reconciling, Undoing, TrimPCs, UndoPCs, Holding,
         Evidenced, Compared, Expected, Original, After, Moved
<1>5. \A q \in Procs : Executes(q)'
  BY <1>1, <1>2
     DEF WritebackInv, Executes, StateAt, BeforeReplaced, BeforeSpooled, Executing, TrimPCs,
         After, Moved
<1>6. \A q \in Procs : Resolves(q)' /\ Fails(q)'
  BY <1>1, <1>2
     DEF WritebackInv, Resolves, Fails, FailurePCs, Reconciling, Undoing, UndoPCs, UndoneAt,
         PastUndoLock, Original, Moved, Executing, TrimPCs, Ops, Executes, Placed
<1>7. (\A x \in Ops : Founded(x)') /\ Authored' /\ TrimIsOnRecord' /\ EvidenceBacksCompletion'
  BY <1>1, <1>2
     DEF WritebackInv, Founded, EarlyStates, Authored, After, TrimIsOnRecord, Ops,
         EvidenceBacksCompletion
<1>8. Alone'
  BY <1>1, <1>2
     DEF WritebackInv, Alone, Executing, TrimPCs, PastUndoLock, UndoPCs, Original, Moved
<1> QED
  BY <1>3, <1>4, <1>5, <1>6, <1>7, <1>8 DEF WritebackInv

LEMMA RecheckKeeps ==
  ASSUME WritebackAssumption, WritebackInv,
         NEW p \in Procs, NEW pc \in {"replace", "undo_replace"}, Recheck(p, Expected(p),
         pc),
         At(p, IF pc = "replace" THEN "recheck" ELSE "undo_recheck")
  PROVE  WritebackInv'
<1>1. proc[p].pc \in Executing \cup Undoing /\ auth[Mine(p)] = "consumed" /\ Mine(p) \in Ops
  BY DEF WritebackInv, Placed, Executes, Resolves, Executing, Undoing, TrimPCs, UndoPCs, At,
         Mine, Ops
<1>2. author = Mine(p) => Mine(p) \notin TrimOps
  BY DEF WritebackInv, Placed, Executes, Executing, Undoing, TrimPCs, UndoPCs, At,
         WritebackAssumption
<1>3. UNCHANGED <<fileVars, auth, created, privateVars, evidence, bounds>>
  BY DEF Recheck
<1>4. CASE SetState(Mine(p), "concurrent_edit_detected") /\ Quit(p) /\ Unlock(p)
  <2>1. Written(Mine(p), "concurrent_edit_detected", op[Mine(p)].after, op[Mine(p)].rollback,
                op[Mine(p)].spooled)
    BY <1>1, <1>4, StateWritten DEF WritebackInv, States, Interrupted
  <2>2. op[Mine(p)].after \in BOOLEAN /\ "concurrent_edit_detected" \in States \ {"completed"}
    BY <1>1 DEF WritebackInv, TypeOK, States, Interrupted
  <2>3. UNCHANGED edits /\ failures' \in 0..MaxFailures
    BY <1>3 DEF bounds, WritebackInv, TypeOK
  <2> QED
    BY <1>1, <1>2, <1>3, <1>4, <2>1, <2>2, <2>3, ErrorKeeps DEF EarlyStates
<1>5. CASE /\ file.content = Expected(p) /\ UNCHANGED <<op, lock>>
           /\ proc' = [proc EXCEPT ![p].pc = pc, ![p].edits = edits]
  <2> DEFINE r == [proc[p] EXCEPT !.pc = pc, !.edits = edits]
  <2>1. proc[p] \in ProcRec /\ edits \in 0..MaxEdits /\ pc \in PCs
    BY DEF WritebackInv, TypeOK, ProcRec, PCs, TrimPCs, UndoPCs
  <2>2. r \in ProcRec /\ r.pc = pc /\ r.op = Mine(p) /\ r.edits = edits
    BY <2>1 DEF ProcRec, Mine
  <2>3. proc' = [proc EXCEPT ![p] = r]
    BY <1>5
  <2> HIDE DEF r
  <2>4. Moved(p, pc, Mine(p), edits)
    BY <2>2, <2>3, RecordMoved DEF WritebackInv
  <2> QED
    BY <1>3, <1>5, <2>4, ComparedKeeps
<1> QED
  BY <1>4, <1>5 DEF Recheck


LEMMA RecheckTrimKeeps ==
  ASSUME WritebackAssumption, WritebackInv, NEW p \in Procs, RecheckTrim(p)
  PROVE  WritebackInv'
<1>1. Expected(p) = Mine(p).before
  BY DEF RecheckTrim, Expected, WritebackInv, Placed, Executing, TrimPCs, At,
         WritebackAssumption
<1>2. At(p, "recheck") /\ Recheck(p, Expected(p), "replace")
  BY <1>1 DEF RecheckTrim
<1> QED
  BY <1>2, RecheckKeeps


LEMMA RecheckUndoKeeps ==
  ASSUME WritebackAssumption, WritebackInv, NEW p \in Procs, RecheckUndo(p)
  PROVE  WritebackInv'
<1>1. Expected(p) = After(Original(p))
  BY DEF RecheckUndo, Expected, WritebackInv, Placed, Undoing, UndoPCs, At
<1>2. At(p, "undo_recheck") /\ Recheck(p, Expected(p), "undo_replace")
  BY <1>1 DEF RecheckUndo
<1> QED
  BY <1>2, RecheckKeeps


\* Nothing is written when the exception leaves the with block.
LEMMA FailKeeps ==
  ASSUME WritebackAssumption, WritebackInv,
         NEW p \in Procs, Fail(p), proc[p].pc \in TrimPCs \cup UndoPCs, UNCHANGED edits,
         failures' \in 0..MaxFailures
  PROVE  WritebackInv'
<1>1. Moved(p, "failed", Mine(p), proc[p].edits)
  BY GotoMoved DEF Fail, WritebackInv, PCs, FailurePCs
<1>2. proc[p].edits \in 0..edits
  BY EditsAreNumbers DEF WritebackInv, TypeOK, Compared
<1>3. lock' \in {lock, IF lock = p THEN Free ELSE lock}
  BY DEF Fail, Unlock
<1>4. Mine(p) \in Ops /\ auth[Mine(p)] = "consumed"
  BY DEF WritebackInv, Placed, Executes, Resolves, Executing, Undoing, TrimPCs, UndoPCs, Mine,
         Ops
<1>5. \A q \in Procs \ {p} : proc[q].pc \in Executing => Mine(q) # Mine(p)
  BY DEF WritebackInv, Placed, Alone, Executing, Undoing, WritebackAssumption
<1>6. "failed" \in {"idle", "sweep"} \cup FailurePCs
  BY DEF FailurePCs
<1> HIDE DEF Mine
<1> QED
  BY <1>1, <1>2, <1>3, <1>4, <1>5, <1>6, QuitKeeps DEF Fail


LEMMA JudgeFailureKeeps ==
  ASSUME WritebackAssumption, WritebackInv, NEW p \in Procs, JudgeFailure(p)
  PROVE  WritebackInv'
<1> DEFINE verdict == StateAfterError(op[Mine(p)].state)
<1>1. verdict \in FailurePCs /\ verdict \in PCs
  BY DEF StateAfterError, FailurePCs, PCs
<1>2. Moved(p, verdict, Mine(p), proc[p].edits)
  BY <1>1, GotoMoved DEF JudgeFailure, WritebackInv
<1>3. proc[p].edits \in 0..edits
  BY EditsAreNumbers DEF WritebackInv, TypeOK, Compared
<1>4. failures' \in 0..MaxFailures
  BY DEF JudgeFailure, bounds, WritebackInv, TypeOK
<1>5. /\ Mine(p) \in Ops /\ auth[Mine(p)] = "consumed"
      /\ \A q \in Procs \ {p} : proc[q].pc \in Executing => Mine(q) # Mine(p)
  BY DEF JudgeFailure, At, FailurePCs, WritebackInv, Fails
<1>6. verdict = "failed_before_mutation" => ~ op[Mine(p)].spooled
  BY <1>5 DEF StateAfterError, WritebackInv, Founded, EarlyStates
<1>7. verdict \in {"idle", "sweep"} \cup FailurePCs
  BY <1>1
<1>8. UNCHANGED <<fileVars, auth, op, created, privateVars, evidence, edits>> /\ lock' = lock
  BY DEF JudgeFailure, bounds
<1> HIDE DEF verdict, Mine
<1> QED
  BY <1>2, <1>3, <1>4, <1>5, <1>6, <1>7, <1>8, QuitKeeps


\* The verdict is written over whatever the row says by then: over the end that
\* a reconciler has reached, after which nothing is left to recover.
LEMMA RecordFailureKeeps ==
  ASSUME WritebackAssumption, WritebackInv, NEW p \in Procs, RecordFailure(p)
  PROVE  WritebackInv'
<1> DEFINE o == Mine(p)
           st == proc[p].pc
<1>1. /\ o \in Ops /\ auth[o] = "consumed"
      /\ \A q \in Procs : proc[q].pc \in Executing => Mine(q) # o
      /\ At(p, "failed_before_mutation") => ~ op[o].spooled
  BY DEF WritebackInv, Fails, RecordFailure
<1>2. st \in {"failed_before_mutation", "recovery_required"}
  BY DEF RecordFailure, FailurePCs
<1>3. st \in States \ ({"completed"} \cup EarlyStates)
  BY <1>2 DEF States, Terminal, Interrupted, EarlyStates
<1>4. Written(o, st, op[o].after, op[o].rollback, op[o].spooled)
  BY <1>1, <1>3, StateWritten DEF RecordFailure, WritebackInv
<1>5. Moved(p, "idle", NoOp, 0)
  BY QuitMoved DEF RecordFailure, WritebackInv
<1>6. op[o].after \in BOOLEAN /\ failures' \in 0..MaxFailures
  BY <1>1 DEF WritebackInv, TypeOK, RecordFailure, bounds
<1>7. ASSUME o = author
      PROVE  /\ o \in Undos \/ st \in {"evidence_pending", "file_replaced",
                                       "readback_verified", "recovery_required"}
             /\ o \in TrimOps =>
                  \/ o \in recAuth
                  \/ spool[o] = "committed" /\ evidence[o.before].status # "none"
  <2>1. CASE o \in Undos
    BY <2>1 DEF WritebackAssumption
  <2>2. CASE o \in TrimOps
    <3>1. op[o].spooled
      BY <1>7, <2>2 DEF WritebackInv, TrimIsOnRecord
    <3>2. st = "recovery_required"
      BY <1>1, <1>2, <3>1 DEF At
    <3>3. op[o].state \in Terminal => op[o].state = "completed"
      BY <1>7, <2>2 DEF WritebackInv, TrimIsOnRecord, Terminal
    <3> QED
      BY <1>7, <2>2, <3>2, <3>3 DEF WritebackInv, TrimIsOnRecord, EvidenceBacksCompletion
  <2> QED
    BY <1>1, <2>1, <2>2 DEF Ops
<1> HIDE DEF o, st
<1> QED
  <2>1. lock' \in {lock, IF lock = p THEN Free ELSE lock}
    BY DEF RecordFailure
  <2>2. \A q \in Procs \ {p} : proc[q].pc \in Executing => Mine(q) # o
    BY <1>1
  <2>3. UNCHANGED <<fileVars, auth, created, privateVars, evidence, edits>>
    BY DEF RecordFailure, bounds
  <2> QED
    BY <1>1, <1>3, <1>4, <1>5, <1>6, <1>7, <2>1, <2>2, <2>3, StopKeeps


LEMMA RaiseKeeps ==
  ASSUME WritebackAssumption, WritebackInv, NEW p \in Procs, Raise(p)
  PROVE  WritebackInv'
<1>1. failures' \in 0..MaxFailures
  BY DEF Raise, WritebackInv, TypeOK, WritebackAssumption
<1> QED
  BY <1>1, FailKeeps DEF Raise


LEMMA ReadbackMismatchKeeps ==
  ASSUME WritebackAssumption, WritebackInv, NEW p \in Procs, ReadbackMismatch(p)
  PROVE  WritebackInv'
<1> QED
  BY FailKeeps DEF ReadbackMismatch, bounds, At, TrimPCs, UndoPCs, WritebackInv, TypeOK


----------------------------------------------------------------------------
(* The steps of a rollback *)

LEMMA ConsumeUndoKeeps ==
  ASSUME WritebackAssumption, WritebackInv, NEW p \in Procs, ConsumeUndo(p)
  PROVE  WritebackInv'
<1> USE DEF Mine, At, privateVars, bounds, fileVars
<1>1. Moved(p, "undo_lock", Mine(p), proc[p].edits)
  BY GotoMoved DEF WritebackInv, ConsumeUndo, Consume, PCs, TrimPCs, UndoPCs, ReconcilePCs
<1>2. Mine(p) \in Undos /\ Mine(p) \in Ops /\ Mine(p) \notin TrimOps
  BY DEF WritebackAssumption, WritebackInv, Placed, Undoing, UndoPCs, Ops, ConsumeUndo
<1>3. Written(Mine(p), "authorized", op[Mine(p)].after, op[Mine(p)].rollback,
              op[Mine(p)].spooled)
  BY <1>2, StateWritten
     DEF WritebackInv, ConsumeUndo, ConsumeUndo, Consume, States, Terminal, Interrupted
<1>4. auth'[Mine(p)] = "consumed" /\ \A o \in Ops \ {Mine(p)} : auth'[o] = auth[o]
  BY <1>2 DEF WritebackInv, TypeOK, ConsumeUndo, Consume
<1>5. TypeOK'
  BY <1>1, <1>2, <1>3, <1>4
     DEF WritebackInv, TypeOK, ProcRec, RowRec, Ops, ConsumeUndo, Moved, Written, Consume
<1>6. \A q \in Procs : Placed(q)'
  BY <1>1, <1>2, <1>3, <1>4
     DEF WritebackInv, Placed, Executing, Reconciling, Undoing, TrimPCs, UndoPCs, Holding,
         ConsumeUndo, Moved, Consume
<1>7. \A q \in Procs : Executes(q)'
  BY <1>1, <1>2, <1>3, <1>4
     DEF WritebackInv, Executes, StateAt, BeforeReplaced, BeforeSpooled, Executing, TrimPCs,
         After, ConsumeUndo, Moved, Written, Placed, Ops, Consume
<1>8. \A q \in Procs : Resolves(q)' /\ Fails(q)'
  <2>1. \A q \in Procs : Resolves(q)'
    BY <1>1, <1>2, <1>3, <1>4
       DEF WritebackInv, Resolves, Reconciling, Undoing, UndoPCs, UndoneAt, PastUndoLock,
           Original, ConsumeUndo, Moved, Written, Placed, Ops, Alone, Consume
  <2>2. \A q \in Procs : Fails(q)'
    BY <1>1, <1>2, <1>3, <1>4
       DEF WritebackInv, Fails, FailurePCs, Executing, TrimPCs, ConsumeUndo, Moved, Written
  <2> QED
    BY <2>1, <2>2
<1>9. \A q \in Procs : Evidenced(q)'
  BY <1>1, <1>2, <1>3, <1>4 DEF WritebackInv, Evidenced, ConsumeUndo, Moved, Consume
<1>10. \A q \in Procs : Compared(q)'
  BY <1>1, <1>2, <1>3, <1>4
     DEF WritebackInv, Compared, Expected, Original, After, ConsumeUndo, Moved, Consume
<1>11. \A x \in Ops : Founded(x)'
  BY <1>1, <1>2, <1>3, <1>4
     DEF WritebackInv, Founded, EarlyStates, ConsumeUndo, Written, Resolves, Undoing, UndoPCs,
         Ops, WritebackAssumption, Consume
<1>12. Alone'
  BY <1>1, <1>2, <1>3, <1>4
     DEF WritebackInv, Alone, Executing, TrimPCs, PastUndoLock, UndoPCs, Original, ConsumeUndo,
         Moved, Consume
<1>13. Authored'
  BY <1>1, <1>2, <1>3, <1>4 DEF WritebackInv, Authored, After, ConsumeUndo, Consume
<1>14. TrimIsOnRecord'
  BY <1>1, <1>2, <1>3, <1>4 DEF WritebackInv, TrimIsOnRecord, Ops, ConsumeUndo, Written, Consume
<1>15. EvidenceBacksCompletion'
  BY <1>1, <1>2, <1>3, <1>4
     DEF WritebackInv, EvidenceBacksCompletion, Ops, ConsumeUndo, Written, Consume
<1> QED
  BY <1>5, <1>6, <1>7, <1>8, <1>9, <1>10, <1>11, <1>12, <1>13, <1>14, <1>15 DEF WritebackInv

\* The lock is free, so a process that executes the trim has not read the file
\* yet; but the trim that a rollback names has replaced it.
LEMMA LockUndoKeeps ==
  ASSUME WritebackAssumption, WritebackInv, NEW p \in Procs, LockUndo(p)
  PROVE  WritebackInv'
<1> USE DEF Mine, At, privateVars, bounds, fileVars
<1>1. Moved(p, "undo_read", Mine(p), proc[p].edits)
  BY GotoMoved DEF WritebackInv, LockUndo, PCs, TrimPCs, UndoPCs, ReconcilePCs
<1>2. Mine(p) \in Undos /\ Mine(p) \in Ops /\ Mine(p) \notin TrimOps
  BY DEF WritebackAssumption, WritebackInv, Placed, Undoing, UndoPCs, Ops, LockUndo
<1>3. Written(Mine(p), "rollback_locked", op[Mine(p)].after, op[Mine(p)].rollback,
              op[Mine(p)].spooled)
  BY <1>2, StateWritten DEF WritebackInv, LockUndo, States, Terminal, Interrupted
<1>4. TypeOK'
  BY <1>1, <1>2, <1>3 DEF WritebackInv, TypeOK, ProcRec, RowRec, Ops, LockUndo, Moved, Written
<1>5. \A q \in Procs : Placed(q)' /\ Evidenced(q)' /\ Compared(q)'
  BY <1>1, <1>2, <1>3
     DEF WritebackInv, Placed, Executing, Reconciling, Undoing, TrimPCs, UndoPCs, Holding,
         Evidenced, Compared, Expected, Original, After, LockUndo, Moved
<1>6. \A q \in Procs : Executes(q)'
  BY <1>1, <1>2, <1>3
     DEF WritebackInv, Executes, StateAt, BeforeReplaced, BeforeSpooled, Executing, TrimPCs,
         After, LockUndo, Moved, Written, Placed, Ops
<1>7. \A q \in Procs : Resolves(q)' /\ Fails(q)'
  BY <1>1, <1>2, <1>3
     DEF WritebackInv, Resolves, Fails, FailurePCs, Reconciling, Undoing, UndoPCs, UndoneAt,
         PastUndoLock, Original, LockUndo, Moved, Written, Placed, Ops, Executing, TrimPCs,
         Executes
<1>8. \A o \in Ops : Founded(o)'
  BY <1>1, <1>2, <1>3
     DEF WritebackInv, Founded, EarlyStates, LockUndo, Written, Resolves, Undoing, UndoPCs, Ops,
         WritebackAssumption
<1>9. Alone'
  BY <1>1, <1>2, <1>3
     DEF WritebackInv, Alone, Executing, TrimPCs, PastUndoLock, UndoPCs, Original, LockUndo,
         Moved, Executes, Placed, Holding, BeforeReplaced, Resolves, Undoing, Founded, Ops,
         WritebackAssumption
<1>10. Authored'
  BY <1>1, <1>2, <1>3 DEF WritebackInv, Authored, After, LockUndo
<1>11. TrimIsOnRecord'
  BY <1>1, <1>2, <1>3 DEF WritebackInv, TrimIsOnRecord, Ops, LockUndo, Written
<1>12. EvidenceBacksCompletion'
  BY <1>1, <1>2, <1>3 DEF WritebackInv, EvidenceBacksCompletion, Ops, LockUndo, Written
<1> QED
  BY <1>4, <1>5, <1>6, <1>7, <1>8, <1>9, <1>10, <1>11, <1>12 DEF WritebackInv

LEMMA ReplaceUndoKeeps ==
  ASSUME WritebackAssumption, WritebackInv, NEW p \in Procs, ReplaceUndo(p)
  PROVE  WritebackInv'
<1> USE DEF Mine, At, privateVars, bounds, fileVars
<1>1. Moved(p, "undo_replaced", Mine(p), proc[p].edits)
  BY GotoMoved DEF WritebackInv, ReplaceUndo, PCs, TrimPCs, UndoPCs, ReconcilePCs
<1>2. Mine(p) \in Undos /\ Mine(p) \in Ops /\ Mine(p) \notin TrimOps
  BY DEF WritebackAssumption, WritebackInv, Placed, Undoing, UndoPCs, Ops, ReplaceUndo
<1>3. /\ Undone[Mine(p)] \in TrimOps
      /\ After(Undone[Mine(p)]) \in Contents
      /\ Undone[Mine(p)].before \in Contents
  BY <1>2 DEF WritebackAssumption, TrimOps, After
<1>4. \A u \in Undos : Undone[u] \in TrimOps
  BY DEF WritebackAssumption
<1>5. TypeOK'
  BY <1>1, <1>2, <1>3, <1>4
     DEF WritebackInv, TypeOK, ProcRec, RowRec, Ops, ReplaceUndo, Moved, Replace, Original
<1>6. \A q \in Procs : Placed(q)' /\ Evidenced(q)'
  BY <1>1, <1>2, <1>3, <1>4
     DEF WritebackInv, Placed, Executing, Reconciling, Undoing, TrimPCs, UndoPCs, Holding,
         Evidenced, ReplaceUndo, Moved
<1>7. \A q \in Procs : Executes(q)'
  BY <1>1, <1>2, <1>3, <1>4
     DEF WritebackInv, Executes, StateAt, BeforeReplaced, BeforeSpooled, Executing, TrimPCs,
         After, ReplaceUndo, Moved, Replace, Placed
<1>8. \A q \in Procs : Resolves(q)' /\ Fails(q)'
  BY <1>1, <1>2, <1>3, <1>4
     DEF WritebackInv, Resolves, Fails, FailurePCs, Reconciling, Undoing, UndoPCs, UndoneAt,
         PastUndoLock, Original, ReplaceUndo, Moved, Replace, Placed, Executing, TrimPCs, Ops,
         Executes
<1>9. \A q \in Procs : Compared(q)'
  BY <1>1, <1>2, <1>3, <1>4
     DEF WritebackInv, Compared, Expected, Original, After, ReplaceUndo, Moved, Replace,
         Placed, Holding, TrimPCs, UndoPCs
<1>10. (\A x \in Ops : Founded(x)') /\ EvidenceBacksCompletion'
  BY <1>1, <1>2, <1>3, <1>4
     DEF WritebackInv, Founded, EarlyStates, EvidenceBacksCompletion, Ops, ReplaceUndo
<1>11. Alone'
  BY <1>1, <1>2, <1>3, <1>4
     DEF WritebackInv, Alone, Executing, TrimPCs, PastUndoLock, UndoPCs, Original, ReplaceUndo,
         Moved
<1>12. Authored'
  BY <1>1, <1>2, <1>3, <1>4 DEF WritebackInv, Authored, After, ReplaceUndo, Replace
<1>13. TrimIsOnRecord'
  BY <1>1, <1>2, <1>3, <1>4 DEF WritebackInv, TrimIsOnRecord, Ops, ReplaceUndo, Replace
<1> QED
  BY <1>5, <1>6, <1>7, <1>8, <1>9, <1>10, <1>11, <1>12, <1>13 DEF WritebackInv

LEMMA ReplacedUndoKeeps ==
  ASSUME WritebackAssumption, WritebackInv, NEW p \in Procs, ReplacedUndo(p)
  PROVE  WritebackInv'
<1> USE DEF Mine, At, privateVars, bounds, fileVars
<1>1. Moved(p, "undo_readback", Mine(p), proc[p].edits)
  BY GotoMoved DEF WritebackInv, ReplacedUndo, PCs, TrimPCs, UndoPCs, ReconcilePCs
<1>2. Mine(p) \in Undos /\ Mine(p) \in Ops /\ Mine(p) \notin TrimOps
  BY DEF WritebackAssumption, WritebackInv, Placed, Undoing, UndoPCs, Ops, ReplacedUndo
<1>3. Written(Mine(p), "rollback_file_replaced", TRUE, op[Mine(p)].rollback,
              op[Mine(p)].spooled)
  <2> DEFINE r == [op[Mine(p)] EXCEPT !.state = "rollback_file_replaced", !.after = TRUE]
  <2>1. op[Mine(p)] \in RowRec
    BY <1>2 DEF WritebackInv, TypeOK, RowRec
  <2>2. /\ r \in RowRec /\ r.state = "rollback_file_replaced" /\ r.after = TRUE
        /\ r.rollback = op[Mine(p)].rollback /\ r.spooled = op[Mine(p)].spooled
    BY <2>1 DEF RowRec, States, Terminal, Interrupted
  <2>3. op' = [op EXCEPT ![Mine(p)] = r]
    BY DEF ReplacedUndo
  <2> HIDE DEF r
  <2> QED
    BY <1>2, <2>2, <2>3, RowWritten DEF WritebackInv
<1>4. TypeOK'
  BY <1>1, <1>2, <1>3
     DEF WritebackInv, TypeOK, ProcRec, RowRec, Ops, ReplacedUndo, Moved, Written
<1>5. \A q \in Procs : Placed(q)' /\ Evidenced(q)' /\ Compared(q)'
  BY <1>1, <1>2, <1>3
     DEF WritebackInv, Placed, Executing, Reconciling, Undoing, TrimPCs, UndoPCs, Holding,
         Evidenced, Compared, Expected, Original, After, ReplacedUndo, Moved
<1>6. \A q \in Procs : Executes(q)'
  BY <1>1, <1>2, <1>3
     DEF WritebackInv, Executes, StateAt, BeforeReplaced, BeforeSpooled, Executing, TrimPCs,
         After, ReplacedUndo, Moved, Written, Placed, Ops
<1>7. \A q \in Procs : Resolves(q)' /\ Fails(q)'
  BY <1>1, <1>2, <1>3
     DEF WritebackInv, Resolves, Fails, FailurePCs, Reconciling, Undoing, UndoPCs, UndoneAt,
         PastUndoLock, Original, ReplacedUndo, Moved, Written, Placed, Ops, Executing, TrimPCs,
         Executes
<1>8. \A o \in Ops : Founded(o)'
  BY <1>1, <1>2, <1>3
     DEF WritebackInv, Founded, EarlyStates, ReplacedUndo, Written, Resolves, Undoing, UndoPCs,
         Ops, WritebackAssumption
<1>9. Alone'
  BY <1>1, <1>2, <1>3
     DEF WritebackInv, Alone, Executing, TrimPCs, PastUndoLock, UndoPCs, Original,
         ReplacedUndo, Moved
<1>10. Authored'
  BY <1>1, <1>2, <1>3 DEF WritebackInv, Authored, After, ReplacedUndo
<1>11. TrimIsOnRecord'
  BY <1>1, <1>2, <1>3 DEF WritebackInv, TrimIsOnRecord, Ops, ReplacedUndo, Written
<1>12. EvidenceBacksCompletion'
  BY <1>1, <1>2, <1>3 DEF WritebackInv, EvidenceBacksCompletion, Ops, ReplacedUndo, Written
<1> QED
  BY <1>4, <1>5, <1>6, <1>7, <1>8, <1>9, <1>10, <1>11, <1>12 DEF WritebackInv

LEMMA ReadbackUndoKeeps ==
  ASSUME WritebackAssumption, WritebackInv, NEW p \in Procs, ReadbackUndo(p)
  PROVE  WritebackInv'
<1> USE DEF Mine, At, privateVars, bounds, fileVars
<1>1. Moved(p, "undo_evidence", Mine(p), proc[p].edits)
  BY GotoMoved DEF WritebackInv, ReadbackUndo, PCs, TrimPCs, UndoPCs, ReconcilePCs
<1>2. Mine(p) \in Undos /\ Mine(p) \in Ops /\ Mine(p) \notin TrimOps
  BY DEF WritebackAssumption, WritebackInv, Placed, Undoing, UndoPCs, Ops, ReadbackUndo
<1>3. TypeOK'
  BY <1>1, <1>2 DEF WritebackInv, TypeOK, ProcRec, RowRec, Ops, ReadbackUndo, Moved, Unlock
<1>4. \A q \in Procs : Placed(q)'
  BY <1>1, <1>2
     DEF WritebackInv, Placed, Executing, Reconciling, Undoing, TrimPCs, UndoPCs, Holding,
         ReadbackUndo, Moved, Unlock
<1>5. \A q \in Procs : Executes(q)'
  BY <1>1, <1>2
     DEF WritebackInv, Executes, StateAt, BeforeReplaced, BeforeSpooled, Executing, TrimPCs,
         After, ReadbackUndo, Moved
<1>6. \A q \in Procs : Resolves(q)' /\ Fails(q)'
  BY <1>1, <1>2
     DEF WritebackInv, Resolves, Fails, FailurePCs, Reconciling, Undoing, UndoPCs, UndoneAt,
         PastUndoLock, Original, ReadbackUndo, Moved, Executing, TrimPCs, Ops, Executes, Placed
<1>7. \A q \in Procs : Evidenced(q)' /\ Compared(q)'
  BY <1>1, <1>2
     DEF WritebackInv, Evidenced, Compared, Expected, Original, After, ReadbackUndo, Moved
<1>8. (\A x \in Ops : Founded(x)') /\ Authored' /\ TrimIsOnRecord' /\ EvidenceBacksCompletion'
  BY <1>1, <1>2
     DEF WritebackInv, Founded, EarlyStates, Authored, After, TrimIsOnRecord, Ops,
         EvidenceBacksCompletion, ReadbackUndo
<1>9. Alone'
  BY <1>1, <1>2
     DEF WritebackInv, Alone, Executing, TrimPCs, PastUndoLock, UndoPCs, Original,
         ReadbackUndo, Moved
<1> QED
  BY <1>3, <1>4, <1>5, <1>6, <1>7, <1>8, <1>9 DEF WritebackInv

LEMMA EvidenceUndoKeeps ==
  ASSUME WritebackAssumption, WritebackInv, NEW p \in Procs, EvidenceUndo(p)
  PROVE  WritebackInv'
<1> USE DEF Mine, At, privateVars, bounds, fileVars
<1>1. Moved(p, "undo_reconciled", Mine(p), proc[p].edits)
  BY GotoMoved DEF WritebackInv, EvidenceUndo, PCs, TrimPCs, UndoPCs, ReconcilePCs
<1>2. Mine(p) \in Undos /\ Mine(p) \in Ops /\ Mine(p) \notin TrimOps
  BY DEF WritebackAssumption, WritebackInv, Placed, Undoing, UndoPCs, Ops, EvidenceUndo
<1>3. /\ Undone[Mine(p)] \in TrimOps
      /\ After(Undone[Mine(p)]) \in Contents
      /\ Undone[Mine(p)].before \in Contents
  BY <1>2 DEF WritebackAssumption, TrimOps, After
<1>4. /\ evidence' \in [OverTrigger -> [status : {"none", "committed", "tombstoned"},
                                          by : TrimOps \cup {NoOp}]]
      /\ \A c \in OverTrigger :
           /\ evidence'[c].by = evidence[c].by
           /\ evidence[c].status # "none" => evidence'[c].status # "none"
  BY <1>3, EvidenceTombstoned DEF WritebackInv, EvidenceUndo, Original
<1>5. TypeOK'
  BY <1>1, <1>2, <1>3, <1>4 DEF WritebackInv, TypeOK, ProcRec, RowRec, Ops, EvidenceUndo, Moved
<1>6. \A q \in Procs : Placed(q)' /\ Compared(q)'
  BY <1>1, <1>2, <1>3, <1>4
     DEF WritebackInv, Placed, Executing, Reconciling, Undoing, TrimPCs, UndoPCs, Holding,
         Compared, Expected, Original, After, EvidenceUndo, Moved
<1>7. \A q \in Procs : Executes(q)'
  BY <1>1, <1>2, <1>3, <1>4
     DEF WritebackInv, Executes, StateAt, BeforeReplaced, BeforeSpooled, Executing, TrimPCs,
         After, EvidenceUndo, Moved
<1>8. \A q \in Procs : Resolves(q)' /\ Fails(q)'
  BY <1>1, <1>2, <1>3, <1>4
     DEF WritebackInv, Resolves, Fails, FailurePCs, Reconciling, Undoing, UndoPCs, UndoneAt,
         PastUndoLock, Original, EvidenceUndo, Moved, Executing, TrimPCs, Ops, Executes, Placed
<1>9. \A q \in Procs : Evidenced(q)'
  BY <1>1, <1>2, <1>3, <1>4
     DEF WritebackInv, Evidenced, EvidenceUndo, Moved, Placed, Executing, Reconciling, TrimPCs,
         TrimOps
<1>10. (\A x \in Ops : Founded(x)') /\ Authored' /\ TrimIsOnRecord'
  BY <1>1, <1>2, <1>3, <1>4
     DEF WritebackInv, Founded, EarlyStates, Authored, After, TrimIsOnRecord, Ops, TrimOps,
         EvidenceUndo
<1>11. Alone'
  BY <1>1, <1>2, <1>3, <1>4
     DEF WritebackInv, Alone, Executing, TrimPCs, PastUndoLock, UndoPCs, Original,
         EvidenceUndo, Moved
<1>12. EvidenceBacksCompletion'
  BY <1>1, <1>2, <1>3, <1>4
     DEF WritebackInv, EvidenceBacksCompletion, Ops, EvidenceUndo, TrimOps
<1> QED
  BY <1>5, <1>6, <1>7, <1>8, <1>9, <1>10, <1>11, <1>12 DEF WritebackInv

LEMMA ReconciledUndoKeeps ==
  ASSUME WritebackAssumption, WritebackInv, NEW p \in Procs, ReconciledUndo(p)
  PROVE  WritebackInv'
<1> USE DEF Mine, At, privateVars, bounds, fileVars
<1>1. Moved(p, "undo_close", Mine(p), proc[p].edits)
  BY GotoMoved DEF WritebackInv, ReconciledUndo, PCs, TrimPCs, UndoPCs, ReconcilePCs
<1>2. Mine(p) \in Undos /\ Mine(p) \in Ops /\ Mine(p) \notin TrimOps
  BY DEF WritebackAssumption, WritebackInv, Placed, Undoing, UndoPCs, Ops, ReconciledUndo
<1>3. Written(Mine(p), "rollback_evidence_reconciled", op[Mine(p)].after,
              op[Mine(p)].rollback, op[Mine(p)].spooled)
  BY <1>2, StateWritten DEF WritebackInv, ReconciledUndo, States, Terminal, Interrupted
<1>4. TypeOK'
  BY <1>1, <1>2, <1>3
     DEF WritebackInv, TypeOK, ProcRec, RowRec, Ops, ReconciledUndo, Moved, Written
<1>5. \A q \in Procs : Placed(q)' /\ Evidenced(q)' /\ Compared(q)'
  BY <1>1, <1>2, <1>3
     DEF WritebackInv, Placed, Executing, Reconciling, Undoing, TrimPCs, UndoPCs, Holding,
         Evidenced, Compared, Expected, Original, After, ReconciledUndo, Moved
<1>6. \A q \in Procs : Executes(q)'
  BY <1>1, <1>2, <1>3
     DEF WritebackInv, Executes, StateAt, BeforeReplaced, BeforeSpooled, Executing, TrimPCs,
         After, ReconciledUndo, Moved, Written, Placed, Ops
<1>7. \A q \in Procs : Resolves(q)' /\ Fails(q)'
  BY <1>1, <1>2, <1>3
     DEF WritebackInv, Resolves, Fails, FailurePCs, Reconciling, Undoing, UndoPCs, UndoneAt,
         PastUndoLock, Original, ReconciledUndo, Moved, Written, Placed, Ops, Executing,
         TrimPCs, Executes
<1>8. \A o \in Ops : Founded(o)'
  BY <1>1, <1>2, <1>3
     DEF WritebackInv, Founded, EarlyStates, ReconciledUndo, Written, Resolves, Undoing,
         UndoPCs, Ops, WritebackAssumption
<1>9. Alone'
  BY <1>1, <1>2, <1>3
     DEF WritebackInv, Alone, Executing, TrimPCs, PastUndoLock, UndoPCs, Original,
         ReconciledUndo, Moved
<1>10. Authored'
  BY <1>1, <1>2, <1>3 DEF WritebackInv, Authored, After, ReconciledUndo
<1>11. TrimIsOnRecord'
  BY <1>1, <1>2, <1>3 DEF WritebackInv, TrimIsOnRecord, Ops, ReconciledUndo, Written
<1>12. EvidenceBacksCompletion'
  BY <1>1, <1>2, <1>3 DEF WritebackInv, EvidenceBacksCompletion, Ops, ReconciledUndo, Written
<1> QED
  BY <1>4, <1>5, <1>6, <1>7, <1>8, <1>9, <1>10, <1>11, <1>12 DEF WritebackInv

LEMMA CloseUndoKeeps ==
  ASSUME WritebackAssumption, WritebackInv, NEW p \in Procs, CloseUndo(p)
  PROVE  WritebackInv'
<1> USE DEF Mine, At, privateVars, bounds, fileVars
<1>1. Moved(p, "undo_original", Mine(p), proc[p].edits)
  BY GotoMoved DEF WritebackInv, CloseUndo, PCs, TrimPCs, UndoPCs, ReconcilePCs
<1>2. Mine(p) \in Undos /\ Mine(p) \in Ops /\ Mine(p) \notin TrimOps
  BY DEF WritebackAssumption, WritebackInv, Placed, Undoing, UndoPCs, Ops, CloseUndo
<1>3. Written(Mine(p), "rolled_back", TRUE, op[Mine(p)].rollback, op[Mine(p)].spooled)
  <2> DEFINE r == [op[Mine(p)] EXCEPT !.state = "rolled_back", !.after = TRUE]
  <2>1. op[Mine(p)] \in RowRec
    BY <1>2 DEF WritebackInv, TypeOK, RowRec
  <2>2. /\ r \in RowRec /\ r.state = "rolled_back" /\ r.after = TRUE
        /\ r.rollback = op[Mine(p)].rollback /\ r.spooled = op[Mine(p)].spooled
    BY <2>1 DEF RowRec, States, Terminal, Interrupted
  <2>3. op' = [op EXCEPT ![Mine(p)] = r]
    BY DEF CloseUndo
  <2> HIDE DEF r
  <2> QED
    BY <1>2, <2>2, <2>3, RowWritten DEF WritebackInv
<1>4. TypeOK'
  BY <1>1, <1>2, <1>3 DEF WritebackInv, TypeOK, ProcRec, RowRec, Ops, CloseUndo, Moved, Written
<1>5. \A q \in Procs : Placed(q)' /\ Evidenced(q)' /\ Compared(q)'
  BY <1>1, <1>2, <1>3
     DEF WritebackInv, Placed, Executing, Reconciling, Undoing, TrimPCs, UndoPCs, Holding,
         Evidenced, Compared, Expected, Original, After, CloseUndo, Moved
<1>6. \A q \in Procs : Executes(q)'
  BY <1>1, <1>2, <1>3
     DEF WritebackInv, Executes, StateAt, BeforeReplaced, BeforeSpooled, Executing, TrimPCs,
         After, CloseUndo, Moved, Written, Placed, Ops
<1>7. \A q \in Procs : Resolves(q)' /\ Fails(q)'
  BY <1>1, <1>2, <1>3
     DEF WritebackInv, Resolves, Fails, FailurePCs, Reconciling, Undoing, UndoPCs, UndoneAt,
         PastUndoLock, Original, CloseUndo, Moved, Written, Placed, Ops, Executing, TrimPCs,
         Executes
<1>8. \A o \in Ops : Founded(o)'
  BY <1>1, <1>2, <1>3
     DEF WritebackInv, Founded, EarlyStates, CloseUndo, Written, Resolves, Undoing, UndoPCs, Ops,
         WritebackAssumption
<1>9. Alone'
  BY <1>1, <1>2, <1>3
     DEF WritebackInv, Alone, Executing, TrimPCs, PastUndoLock, UndoPCs, Original, CloseUndo,
         Moved
<1>10. Authored'
  BY <1>1, <1>2, <1>3 DEF WritebackInv, Authored, After, CloseUndo
<1>11. TrimIsOnRecord'
  BY <1>1, <1>2, <1>3 DEF WritebackInv, TrimIsOnRecord, Ops, CloseUndo, Written
<1>12. EvidenceBacksCompletion'
  BY <1>1, <1>2, <1>3 DEF WritebackInv, EvidenceBacksCompletion, Ops, CloseUndo, Written
<1> QED
  BY <1>4, <1>5, <1>6, <1>7, <1>8, <1>9, <1>10, <1>11, <1>12 DEF WritebackInv

\* Without the lock the row of the trim is closed: no process executes the trim,
\* and the file is no longer what it made.
LEMMA CloseOriginalKeeps ==
  ASSUME WritebackAssumption, WritebackInv, NEW p \in Procs, CloseOriginal(p)
  PROVE  WritebackInv'
<1> USE DEF Mine, At, privateVars, bounds, fileVars
<1>1. Moved(p, "idle", NoOp, 0)
  BY QuitMoved DEF WritebackInv, CloseOriginal
<1>2. Mine(p) \in Undos /\ Mine(p) \in Ops /\ Mine(p) \notin TrimOps
  BY DEF WritebackAssumption, WritebackInv, Placed, Undoing, UndoPCs, Ops, CloseOriginal
<1>3. Undone[Mine(p)] \in TrimOps /\ Undone[Mine(p)] \in Ops /\ Undone[Mine(p)] \notin Undos
  BY <1>2 DEF WritebackAssumption, Ops
<1>4. Written(Undone[Mine(p)], "rolled_back", op[Undone[Mine(p)]].after, FALSE,
              op[Undone[Mine(p)]].spooled)
  <2> DEFINE r == [op[Undone[Mine(p)]] EXCEPT !.state = "rolled_back", !.rollback = FALSE]
  <2>1. op[Undone[Mine(p)]] \in RowRec
    BY <1>3 DEF WritebackInv, TypeOK, RowRec
  <2>2. /\ r \in RowRec /\ r.state = "rolled_back" /\ r.after = op[Undone[Mine(p)]].after
        /\ r.rollback = FALSE /\ r.spooled = op[Undone[Mine(p)]].spooled
    BY <2>1 DEF RowRec, States, Terminal, Interrupted
  <2>3. op' = [op EXCEPT ![Undone[Mine(p)]] = r]
    BY DEF CloseOriginal, Original
  <2> HIDE DEF r
  <2> QED
    BY <1>3, <2>2, <2>3, RowWritten DEF WritebackInv
<1>5. edits \in Nat /\ 0 <= edits
  BY EditsAreNumbers DEF WritebackInv
<1>6. auth[Undone[Mine(p)]] = "consumed"
  BY <1>2, <1>3 DEF WritebackInv, Resolves, Undoing, UndoPCs, Founded, CloseOriginal
<1>7. \A q \in Procs : proc[q].pc \in Executing => Mine(q) # Undone[Mine(p)]
  BY DEF WritebackInv, Alone, PastUndoLock, UndoPCs, CloseOriginal, Original
<1>8. \A q \in Procs : proc[q].pc \in Executing => op'[Mine(q)] = op[Mine(q)]
  BY <1>4, <1>7 DEF WritebackInv, Written, Placed, Ops
<1>9. author # Undone[Mine(p)]
  BY DEF WritebackInv, Resolves, UndoneAt, PastUndoLock, UndoPCs, CloseOriginal, Original
<1>10. TypeOK'
  BY <1>1, <1>2, <1>3, <1>4, <1>5, <1>6, <1>7, <1>8, <1>9
     DEF WritebackInv, TypeOK, ProcRec, RowRec, Ops, CloseOriginal, Moved, Written, Unlock
<1>11. \A q \in Procs : Placed(q)'
  BY <1>1, <1>2, <1>3, <1>4, <1>5, <1>6, <1>7, <1>8, <1>9
     DEF WritebackInv, Placed, Executing, Reconciling, Undoing, TrimPCs, UndoPCs, Holding,
         CloseOriginal, Moved, Unlock
<1>12. \A q \in Procs : Executes(q)'
  <2> SUFFICES ASSUME NEW q \in Procs, Executes(q) PROVE Executes(q)'
    BY DEF WritebackInv
  <2>1. CASE q = p
    BY <2>1, <1>1 DEF Moved, Executes, Executing, TrimPCs
  <2>2. CASE q # p
    <3>1. proc'[q] = proc[q]
      BY <2>2, <1>1 DEF Moved
    <3>2. UNCHANGED <<author, auth, recAuth, backup>>
      BY DEF CloseOriginal
    <3> QED
      BY <3>1, <3>2, <1>8 DEF Executes, After
  <2> QED
    BY <2>1, <2>2
<1>13. \A q \in Procs : Resolves(q)' /\ Fails(q)'
  BY <1>1, <1>2, <1>3, <1>4, <1>5, <1>6, <1>7, <1>8, <1>9
     DEF WritebackInv, Resolves, Fails, FailurePCs, Reconciling, Undoing, UndoPCs, UndoneAt,
         PastUndoLock, Original, CloseOriginal, Moved, Written, Placed, Ops, Executing,
         TrimPCs, Executes
<1>14. \A q \in Procs : Evidenced(q)'
  BY <1>1, <1>2, <1>3, <1>4, <1>5, <1>6, <1>7, <1>8, <1>9
     DEF WritebackInv, Evidenced, CloseOriginal, Moved
<1>15. \A q \in Procs : Compared(q)'
  BY <1>1, <1>2, <1>3, <1>4, <1>5, <1>6, <1>7, <1>8, <1>9
     DEF WritebackInv, Compared, Expected, Original, After, CloseOriginal, Moved
<1>16. \A o \in Ops : Founded(o)'
  BY <1>1, <1>2, <1>3, <1>4, <1>5, <1>6, <1>7, <1>8, <1>9
     DEF WritebackInv, Founded, EarlyStates, CloseOriginal, Written, Ops, WritebackAssumption
<1>17. Alone'
  BY <1>1, <1>2, <1>3, <1>4, <1>5, <1>6, <1>7, <1>8, <1>9
     DEF WritebackInv, Alone, Executing, TrimPCs, PastUndoLock, UndoPCs, Original,
         CloseOriginal, Moved
<1>18. Authored'
  BY <1>1, <1>2, <1>3, <1>4, <1>5, <1>6, <1>7, <1>8, <1>9
     DEF WritebackInv, Authored, After, CloseOriginal
<1>19. TrimIsOnRecord'
  BY <1>1, <1>2, <1>3, <1>4, <1>5, <1>6, <1>7, <1>8, <1>9
     DEF WritebackInv, TrimIsOnRecord, Ops, CloseOriginal, Written
<1>20. EvidenceBacksCompletion'
  BY <1>1, <1>2, <1>3, <1>4, <1>5, <1>6, <1>7, <1>8, <1>9
     DEF WritebackInv, EvidenceBacksCompletion, Ops, CloseOriginal, Written
<1> QED
  BY <1>10, <1>11, <1>12, <1>13, <1>14, <1>15, <1>16, <1>17, <1>18, <1>19, <1>20
     DEF WritebackInv

LEMMA ReadUndoOnKeeps ==
  ASSUME WritebackAssumption, WritebackInv,
         NEW p \in Procs, At(p, "undo_read"), Moved(p, "undo_recheck", Mine(p),
         proc[p].edits),
         UNCHANGED <<fileVars, auth, op, created, privateVars, evidence, lock, bounds>>
  PROVE  WritebackInv'
<1> USE DEF Mine, At, privateVars, bounds, fileVars
<1>1. Mine(p)' = Mine(p)
  BY DEF Moved
<1>2. TypeOK'
  BY <1>1 DEF WritebackInv, TypeOK, ProcRec, RowRec, Ops, Moved
<1>3. \A q \in Procs : Placed(q)' /\ Evidenced(q)' /\ Compared(q)'
  BY <1>1
     DEF WritebackInv, Placed, Executing, Reconciling, Undoing, TrimPCs, UndoPCs, Holding,
         Evidenced, Compared, Expected, Original, After, Moved
<1>4. \A q \in Procs : Executes(q)'
  BY <1>1
     DEF WritebackInv, Executes, StateAt, BeforeReplaced, BeforeSpooled, Executing, TrimPCs,
         After, Moved
<1>5. \A q \in Procs : Resolves(q)' /\ Fails(q)'
  BY <1>1
     DEF WritebackInv, Resolves, Fails, FailurePCs, Reconciling, Undoing, UndoPCs, UndoneAt,
         PastUndoLock, Original, Moved, Executing, TrimPCs, Ops, Executes, Placed
<1>6. (\A x \in Ops : Founded(x)') /\ Authored' /\ TrimIsOnRecord' /\ EvidenceBacksCompletion'
  BY <1>1
     DEF WritebackInv, Founded, EarlyStates, Authored, After, TrimIsOnRecord, Ops,
         EvidenceBacksCompletion
<1>7. Alone'
  BY <1>1 DEF WritebackInv, Alone, Executing, TrimPCs, PastUndoLock, UndoPCs, Original, Moved
<1> QED
  BY <1>2, <1>3, <1>4, <1>5, <1>6, <1>7 DEF WritebackInv

LEMMA ReadUndoKeeps ==
  ASSUME WritebackAssumption, WritebackInv, NEW p \in Procs, ReadUndo(p)
  PROVE  WritebackInv'
<1>1. proc[p].pc \in Executing \cup Undoing /\ auth[Mine(p)] = "consumed"
      /\ Mine(p) \in Ops /\ Mine(p) \notin TrimOps
  BY DEF WritebackInv, Placed, Resolves, Executing, Undoing, UndoPCs, At, Mine, Ops, ReadUndo,
         WritebackAssumption
<1>2. UNCHANGED <<fileVars, auth, created, privateVars, evidence, bounds>>
  BY DEF ReadUndo
<1>3. CASE SetState(Mine(p), "concurrent_edit_detected") /\ Quit(p) /\ Unlock(p)
  <2>1. Written(Mine(p), "concurrent_edit_detected", op[Mine(p)].after, op[Mine(p)].rollback,
                op[Mine(p)].spooled)
    BY <1>1, <1>3, StateWritten DEF WritebackInv, States, Interrupted
  <2>2. op[Mine(p)].after \in BOOLEAN /\ "concurrent_edit_detected" \in States \ {"completed"}
    BY <1>1 DEF WritebackInv, TypeOK, States, Interrupted
  <2>3. UNCHANGED edits /\ failures' \in 0..MaxFailures
    BY <1>2 DEF bounds, WritebackInv, TypeOK
  <2> QED
    BY <1>1, <1>2, <1>3, <2>1, <2>2, <2>3, ErrorKeeps DEF EarlyStates
<1>4. CASE /\ proc' = [proc EXCEPT ![p].pc = "undo_recheck", ![p].ident = file.ident]
           /\ UNCHANGED <<op, lock>>
  <2> DEFINE r == [proc[p] EXCEPT !.pc = "undo_recheck", !.ident = file.ident]
  <2>1. proc[p] \in ProcRec /\ file.ident \in Nat
    BY DEF WritebackInv, TypeOK, ProcRec
  <2>2. r \in ProcRec /\ r.pc = "undo_recheck" /\ r.op = Mine(p) /\ r.edits = proc[p].edits
    BY <2>1 DEF ProcRec, PCs, UndoPCs, Mine
  <2>3. proc' = [proc EXCEPT ![p] = r]
    BY <1>4
  <2> HIDE DEF r
  <2>4. Moved(p, "undo_recheck", Mine(p), proc[p].edits)
    BY <2>2, <2>3, RecordMoved DEF WritebackInv
  <2>5. At(p, "undo_read")
    BY DEF ReadUndo
  <2> QED
    BY <1>2, <1>4, <2>4, <2>5, ReadUndoOnKeeps
<1> QED
  BY <1>3, <1>4 DEF ReadUndo


----------------------------------------------------------------------------
(* Reconciliation *)

LEMMA LeaveKeeps ==
  ASSUME WritebackAssumption, WritebackInv,
         NEW p \in Procs, NEW o \in Ops, NEW st \in States \ ({"completed"} \cup EarlyStates),
         SetState(o, st), NextPending(p),
         auth[o] = "consumed", author # o,
         \A q \in Procs : proc[q].pc \in Executing => Mine(q) # o,
         UNCHANGED <<fileVars, auth, created, privateVars, evidence, lock, bounds>>
  PROVE  WritebackInv'
<1>1. Moved(p, "sweep", NoOp, 0)
  BY NextPendingMoved DEF WritebackInv
<1>2. Written(o, st, op[o].after, op[o].rollback, op[o].spooled)
  BY StateWritten DEF WritebackInv
<1>3. op[o].after \in BOOLEAN /\ failures' \in 0..MaxFailures /\ UNCHANGED edits
  BY DEF WritebackInv, TypeOK, bounds
<1>4. PICK after \in BOOLEAN : after = op[o].after
  BY <1>3
<1>5. Written(o, st, after, op[o].rollback, op[o].spooled) /\ (op[o].after => after)
  BY <1>2, <1>4
<1> QED
  BY <1>1, <1>3, <1>5, StopKeeps


\* The file is what the trim makes of it: its evidence is stored.
LEMMA ReconcileTrimOnKeeps ==
  ASSUME WritebackAssumption, WritebackInv,
         NEW p \in Procs, Mine(p) \in TrimOps, At(p, "rec_lock"), lock = Free,
         RecordRemovedBlocks(Mine(p)), lock' = p, Goto(p, "rec_rename"), UNCHANGED op,
         UNCHANGED <<fileVars, auth, created, privateVars, bounds>>
  PROVE  WritebackInv'
<1> USE DEF Mine, At, privateVars, bounds, fileVars
<1>1. Moved(p, "rec_rename", Mine(p), proc[p].edits)
  BY GotoMoved DEF WritebackInv, PCs, TrimPCs, UndoPCs, ReconcilePCs
<1>2. Mine(p) \in Ops /\ Mine(p) \notin Undos /\ Free \notin Procs
  BY DEF Ops, WritebackAssumption
<1>3. /\ evidence' \in [OverTrigger -> [status : {"none", "committed", "tombstoned"},
                                          by : TrimOps \cup {NoOp}]]
      /\ evidence'[Mine(p).before].status # "none"
      /\ \A c \in OverTrigger :
           \/ evidence'[c] = evidence[c]
           \/ evidence'[c].status # "none" /\ evidence'[c].by = Mine(p)
  BY EvidenceRecorded DEF WritebackInv
<1>4. Mine(p) \in backup /\ spool[Mine(p)] # "none" /\ auth[Mine(p)] = "consumed"
  BY <1>2 DEF WritebackInv, Resolves, Reconciling, Founded
<1>5. TypeOK'
  BY <1>1, <1>2, <1>3, <1>4 DEF WritebackInv, TypeOK, ProcRec, RowRec, Ops, Moved
<1>6. \A q \in Procs : Placed(q)' /\ Compared(q)'
  BY <1>1, <1>2, <1>3, <1>4
     DEF WritebackInv, Placed, Executing, Reconciling, Undoing, TrimPCs, UndoPCs, Holding,
         Compared, Expected, Original, After, Moved
<1>7. \A q \in Procs : Executes(q)'
  BY <1>1, <1>2, <1>3, <1>4
     DEF WritebackInv, Executes, StateAt, BeforeReplaced, BeforeSpooled, Executing, TrimPCs,
         After, Moved
<1>8. \A q \in Procs : Resolves(q)' /\ Fails(q)'
  BY <1>1, <1>2, <1>3, <1>4
     DEF WritebackInv, Resolves, Fails, FailurePCs, Reconciling, Undoing, UndoPCs, UndoneAt,
         PastUndoLock, Original, Moved, Executing, TrimPCs, Ops, Executes, Placed
<1>9. \A q \in Procs : Evidenced(q)'
  BY <1>1, <1>2, <1>3, <1>4
     DEF WritebackInv, Evidenced, Moved, Placed, Executing, Reconciling, TrimPCs, TrimOps
<1>10. (\A x \in Ops : Founded(x)') /\ Authored' /\ TrimIsOnRecord'
  BY <1>1, <1>2, <1>3, <1>4
     DEF WritebackInv, Founded, EarlyStates, Authored, After, TrimIsOnRecord, Ops, TrimOps
<1>11. Alone'
  BY <1>1, <1>2, <1>3, <1>4
     DEF WritebackInv, Alone, Executing, TrimPCs, PastUndoLock, UndoPCs, Original, Moved
<1>12. EvidenceBacksCompletion'
  BY <1>1, <1>2, <1>3, <1>4 DEF WritebackInv, EvidenceBacksCompletion, Ops, TrimOps
<1> QED
  BY <1>5, <1>6, <1>7, <1>8, <1>9, <1>10, <1>11, <1>12 DEF WritebackInv

LEMMA ReconcileTrimKeeps ==
  ASSUME WritebackAssumption, WritebackInv, NEW p \in Procs, ReconcileTrim(p)
  PROVE  WritebackInv'
<1>1. /\ Mine(p) \in TrimOps /\ Mine(p) \in Ops /\ Free \notin Procs
      /\ At(p, "rec_lock") /\ lock = Free
      /\ op[Mine(p)].spooled /\ auth[Mine(p)] = "consumed"
  BY DEF WritebackInv, Placed, Reconciling, Resolves, Founded, Ops, ReconcileTrim, At, Mine,
         WritebackAssumption
<1>2. \A q \in Procs : proc[q].pc \in Executing => Mine(q) # Mine(p)
  BY <1>1 DEF WritebackInv, Placed, Executes, Executing, TrimPCs, Holding, BeforeSpooled
<1>3. UNCHANGED <<fileVars, auth, created, privateVars, bounds>>
  BY DEF ReconcileTrim
<1>4. CASE file.content = After(Mine(p))
  BY <1>1, <1>2, <1>3, <1>4, ReconcileTrimOnKeeps DEF ReconcileTrim
<1>5. CASE file.content # After(Mine(p))
  <2> DEFINE st == IF file.content = Mine(p).before THEN "failed_before_mutation"
                   ELSE "recovery_required"
  <2>1. SetState(Mine(p), st) /\ NextPending(p) /\ UNCHANGED <<evidence, lock>>
    BY <1>5 DEF ReconcileTrim
  <2>2. st \in States \ ({"completed"} \cup EarlyStates)
    BY DEF States, Terminal, Interrupted, EarlyStates
  <2>3. author # Mine(p)
    BY <1>1, <1>5 DEF WritebackInv, Authored
  <2> HIDE DEF st
  <2> QED
    BY <1>1, <1>2, <1>3, <2>1, <2>2, <2>3, LeaveKeeps
<1> QED
  BY <1>4, <1>5


LEMMA ReconcileRenameOnKeeps ==
  ASSUME WritebackAssumption, WritebackInv,
         NEW p \in Procs, At(p, "rec_rename"), Goto(p, "rec_complete"),
         spool' = [spool EXCEPT ![Mine(p)] = "committed"],
         UNCHANGED <<fileVars, auth, op, created, backup, recAuth, evidence, lock, bounds>>
  PROVE  WritebackInv'
<1> USE DEF Mine, At, privateVars, bounds, fileVars
<1>1. Moved(p, "rec_complete", Mine(p), proc[p].edits)
  BY GotoMoved DEF WritebackInv, PCs, TrimPCs, UndoPCs, ReconcilePCs
<1>2. Mine(p) \in TrimOps /\ Mine(p) \in Ops
  BY DEF WritebackInv, Placed, Reconciling, Ops
<1>3. spool'[Mine(p)] = "committed" /\ \A o \in TrimOps \ {Mine(p)} : spool'[o] = spool[o]
  BY <1>2 DEF WritebackInv, TypeOK
<1>4. TypeOK'
  BY <1>1, <1>2, <1>3 DEF WritebackInv, TypeOK, ProcRec, RowRec, Ops, Moved
<1>5. \A q \in Procs : Placed(q)' /\ Compared(q)'
  BY <1>1, <1>2, <1>3
     DEF WritebackInv, Placed, Executing, Reconciling, Undoing, TrimPCs, UndoPCs, Holding,
         Compared, Expected, Original, After, Moved
<1>6. \A q \in Procs : Executes(q)'
  BY <1>1, <1>2, <1>3
     DEF WritebackInv, Executes, StateAt, BeforeReplaced, BeforeSpooled, Executing, TrimPCs,
         After, Moved
<1>7. \A q \in Procs : Resolves(q)' /\ Fails(q)'
  BY <1>1, <1>2, <1>3
     DEF WritebackInv, Resolves, Fails, FailurePCs, Reconciling, Undoing, UndoPCs, UndoneAt,
         PastUndoLock, Original, Moved, Executing, TrimPCs, Ops, Executes, Placed
<1>8. \A q \in Procs : Evidenced(q)'
  BY <1>1, <1>2, <1>3
     DEF WritebackInv, Evidenced, Moved, Placed, Executing, Reconciling, TrimPCs
<1>9. \A o \in Ops : Founded(o)'
  BY <1>1, <1>2, <1>3 DEF WritebackInv, Founded, EarlyStates, TypeOK
<1>10. Alone'
  BY <1>1, <1>2, <1>3
     DEF WritebackInv, Alone, Executing, TrimPCs, PastUndoLock, UndoPCs, Original, Moved
<1>11. Authored'
  BY <1>1, <1>2, <1>3 DEF WritebackInv, Authored, After
<1>12. TrimIsOnRecord'
  BY <1>1, <1>2, <1>3 DEF WritebackInv, TrimIsOnRecord, Ops, TypeOK
<1>13. EvidenceBacksCompletion'
  BY <1>1, <1>2, <1>3 DEF WritebackInv, EvidenceBacksCompletion, Ops, Evidenced
<1> QED
  BY <1>4, <1>5, <1>6, <1>7, <1>8, <1>9, <1>10, <1>11, <1>12, <1>13 DEF WritebackInv

LEMMA ReconcileRenameKeeps ==
  ASSUME WritebackAssumption, WritebackInv, NEW p \in Procs, ReconcileRename(p)
  PROVE  WritebackInv'
<1>1. CASE Quit(p) /\ Unlock(p) /\ UNCHANGED spool
  BY <1>1, QuitterKeeps DEF ReconcileRename, Unlock, privateVars, bounds, WritebackInv, TypeOK
<1>2. CASE /\ spool' = [spool EXCEPT ![Mine(p)] = "committed"]
           /\ Goto(p, "rec_complete") /\ UNCHANGED lock
  BY <1>2, ReconcileRenameOnKeeps DEF ReconcileRename
<1> QED
  BY <1>1, <1>2 DEF ReconcileRename


LEMMA ReconcileCompleteKeeps ==
  ASSUME WritebackAssumption, WritebackInv, NEW p \in Procs, ReconcileComplete(p)
  PROVE  WritebackInv'
<1> USE DEF Mine, At, privateVars, bounds, fileVars
<1>1. Moved(p, "sweep", NoOp, 0)
  BY NextPendingMoved DEF WritebackInv, ReconcileComplete
<1>2. Mine(p) \in TrimOps /\ Mine(p) \in Ops /\ Mine(p) \notin Undos
  BY DEF WritebackAssumption, WritebackInv, Placed, Executing, Reconciling, TrimPCs, Ops,
         ReconcileComplete
<1>3. Written(Mine(p), "completed", TRUE, op[Mine(p)].rollback, op[Mine(p)].spooled)
  <2> DEFINE r == [op[Mine(p)] EXCEPT !.state = "completed", !.after = TRUE]
  <2>1. op[Mine(p)] \in RowRec
    BY <1>2 DEF WritebackInv, TypeOK, RowRec
  <2>2. /\ r \in RowRec /\ r.state = "completed" /\ r.after = TRUE
        /\ r.rollback = op[Mine(p)].rollback /\ r.spooled = op[Mine(p)].spooled
    BY <2>1 DEF RowRec, States, Terminal, Interrupted
  <2>3. op' = [op EXCEPT ![Mine(p)] = r]
    BY DEF ReconcileComplete
  <2> HIDE DEF r
  <2> QED
    BY <1>2, <2>2, <2>3, RowWritten DEF WritebackInv
<1>4. edits \in Nat /\ 0 <= edits
  BY EditsAreNumbers DEF WritebackInv
<1>5. \A q \in Procs : proc[q].pc \in Executing => Mine(q) # Mine(p)
  BY DEF WritebackInv, Placed, Executes, Resolves, Reconciling, Executing, TrimPCs, Holding,
         BeforeSpooled, ReconcileComplete
<1>6. auth[Mine(p)] = "consumed"
  BY <1>2 DEF WritebackInv, Resolves, Reconciling, Founded, ReconcileComplete
<1>7. TypeOK'
  BY <1>1, <1>2, <1>3, <1>4, <1>5, <1>6
     DEF WritebackInv, TypeOK, ProcRec, RowRec, Ops, ReconcileComplete, Moved, Written, Unlock
<1>8. \A q \in Procs : Placed(q)'
  BY <1>1, <1>2, <1>3, <1>4, <1>5, <1>6
     DEF WritebackInv, Placed, Executing, Reconciling, Undoing, TrimPCs, UndoPCs, Holding,
         ReconcileComplete, Moved, Unlock
<1>9. \A q \in Procs : Executes(q)'
  BY <1>1, <1>2, <1>3, <1>4, <1>5, <1>6
     DEF WritebackInv, Executes, StateAt, BeforeReplaced, BeforeSpooled, Executing, TrimPCs,
         After, ReconcileComplete, Moved, Written, Placed, Alone, Ops
<1>10. \A q \in Procs : Resolves(q)' /\ Fails(q)'
  BY <1>1, <1>2, <1>3, <1>4, <1>5, <1>6
     DEF WritebackInv, Resolves, Fails, FailurePCs, Reconciling, Undoing, UndoPCs, UndoneAt,
         PastUndoLock, Original, ReconcileComplete, Moved, Written, Placed, Ops, Executing,
         TrimPCs, Executes
<1>11. \A q \in Procs : Evidenced(q)'
  BY <1>1, <1>2, <1>3, <1>4, <1>5, <1>6 DEF WritebackInv, Evidenced, ReconcileComplete, Moved
<1>12. \A q \in Procs : Compared(q)'
  BY <1>1, <1>2, <1>3, <1>4, <1>5, <1>6
     DEF WritebackInv, Compared, Expected, Original, After, ReconcileComplete, Moved
<1>13. \A o \in Ops : Founded(o)'
  BY <1>1, <1>2, <1>3, <1>4, <1>5, <1>6
     DEF WritebackInv, Founded, EarlyStates, ReconcileComplete, Written, Executes, Executing,
         TrimPCs, Ops, WritebackAssumption
<1>14. Alone'
  BY <1>1, <1>2, <1>3, <1>4, <1>5, <1>6
     DEF WritebackInv, Alone, Executing, TrimPCs, PastUndoLock, UndoPCs, Original,
         ReconcileComplete, Moved
<1>15. Authored'
  BY <1>1, <1>2, <1>3, <1>4, <1>5, <1>6 DEF WritebackInv, Authored, After, ReconcileComplete
<1>16. TrimIsOnRecord'
  BY <1>1, <1>2, <1>3, <1>4, <1>5, <1>6
     DEF WritebackInv, TrimIsOnRecord, Ops, ReconcileComplete, Written, Executes, StateAt,
         BeforeSpooled, Executing, TrimPCs, Evidenced, Terminal
<1>17. EvidenceBacksCompletion'
  BY <1>1, <1>2, <1>3, <1>4, <1>5, <1>6
     DEF WritebackInv, EvidenceBacksCompletion, Ops, ReconcileComplete, Written, Evidenced
<1> QED
  BY <1>7, <1>8, <1>9, <1>10, <1>11, <1>12, <1>13, <1>14, <1>15, <1>16, <1>17 DEF WritebackInv

\* The file is what the trim found: the trim did not make it what it is.
LEMMA ReconcileUndoOnKeeps ==
  ASSUME WritebackAssumption, WritebackInv,
         NEW p \in Procs, Mine(p) \in Undos, Undone[Mine(p)] \in TrimOps, At(p,
         "rec_undo"), lock = Free,
         file.content = Undone[Mine(p)].before,
         TombstoneEvidence(Undone[Mine(p)]), lock' = p, Goto(p, "undo_close"), UNCHANGED op,
         UNCHANGED <<fileVars, auth, created, privateVars, bounds>>
  PROVE  WritebackInv'
<1> USE DEF Mine, At, privateVars, bounds, fileVars
<1>1. Moved(p, "undo_close", Mine(p), proc[p].edits)
  BY GotoMoved DEF WritebackInv, PCs, TrimPCs, UndoPCs, ReconcilePCs
<1>2. /\ evidence' \in [OverTrigger -> [status : {"none", "committed", "tombstoned"},
                                          by : TrimOps \cup {NoOp}]]
      /\ \A c \in OverTrigger :
           /\ evidence'[c].by = evidence[c].by
           /\ evidence[c].status # "none" => evidence'[c].status # "none"
  BY EvidenceTombstoned DEF WritebackInv
<1>3. Free \notin Procs /\ Mine(p) \in Ops /\ Undone[Mine(p)] \in Ops
  BY DEF WritebackAssumption, Ops
<1>4. op[Undone[Mine(p)]].after /\ author # Undone[Mine(p)]
  BY DEF WritebackInv, Resolves, Undoing, Founded, Authored, Ops
<1>5. TypeOK'
  BY <1>1, <1>2, <1>3, <1>4 DEF WritebackInv, TypeOK, ProcRec, RowRec, Ops, Moved
<1>6. \A q \in Procs : Placed(q)' /\ Compared(q)'
  BY <1>1, <1>2, <1>3, <1>4
     DEF WritebackInv, Placed, Executing, Reconciling, Undoing, TrimPCs, UndoPCs, Holding,
         Compared, Expected, Original, After, Moved
<1>7. \A q \in Procs : Executes(q)'
  BY <1>1, <1>2, <1>3, <1>4
     DEF WritebackInv, Executes, StateAt, BeforeReplaced, BeforeSpooled, Executing, TrimPCs,
         After, Moved
<1>8. \A q \in Procs : Resolves(q)' /\ Fails(q)'
  BY <1>1, <1>2, <1>3, <1>4
     DEF WritebackInv, Resolves, Fails, FailurePCs, Reconciling, Undoing, UndoPCs, UndoneAt,
         PastUndoLock, Original, Moved, Executing, TrimPCs, Ops, Executes, Placed
<1>9. \A q \in Procs : Evidenced(q)'
  BY <1>1, <1>2, <1>3, <1>4
     DEF WritebackInv, Evidenced, Moved, Placed, Executing, Reconciling, TrimPCs, TrimOps
<1>10. (\A x \in Ops : Founded(x)') /\ Authored' /\ TrimIsOnRecord'
  BY <1>1, <1>2, <1>3, <1>4
     DEF WritebackInv, Founded, EarlyStates, Authored, After, TrimIsOnRecord, Ops, TrimOps
<1>11. Alone'
  BY <1>1, <1>2, <1>3, <1>4
     DEF WritebackInv, Alone, Executing, TrimPCs, PastUndoLock, UndoPCs, Original, Moved,
         Executes, Placed, Holding, BeforeReplaced
<1>12. EvidenceBacksCompletion'
  BY <1>1, <1>2, <1>3, <1>4 DEF WritebackInv, EvidenceBacksCompletion, Ops, TrimOps
<1> QED
  BY <1>5, <1>6, <1>7, <1>8, <1>9, <1>10, <1>11, <1>12 DEF WritebackInv

LEMMA ReconcileUndoKeeps ==
  ASSUME WritebackAssumption, WritebackInv, NEW p \in Procs, ReconcileUndo(p)
  PROVE  WritebackInv'
<1>1. /\ Mine(p) \in Undos /\ Mine(p) \in Ops /\ Mine(p) \notin TrimOps
      /\ At(p, "rec_undo") /\ lock = Free /\ auth[Mine(p)] = "consumed"
      /\ Undone[Mine(p)] \in TrimOps
  BY DEF WritebackInv, Placed, Undoing, Resolves, Ops, ReconcileUndo, At, Mine,
         WritebackAssumption
<1>2. UNCHANGED <<fileVars, auth, created, privateVars, bounds>>
  BY DEF ReconcileUndo
<1>3. CASE file.content = Undone[Mine(p)].before
  BY <1>1, <1>2, <1>3, ReconcileUndoOnKeeps DEF ReconcileUndo
<1>4. CASE file.content # Undone[Mine(p)].before
  <2> DEFINE st == IF file.content = After(Undone[Mine(p)]) THEN "failed_before_mutation"
                   ELSE "recovery_required"
  <2>1. SetState(Mine(p), st) /\ Quit(p) /\ UNCHANGED <<evidence, lock>>
    BY <1>4 DEF ReconcileUndo
  <2>2. st \in States \ ({"completed"} \cup EarlyStates)
    BY DEF States, Terminal, Interrupted, EarlyStates
  <2>3. op[Mine(p)].after \in BOOLEAN /\ failures' \in 0..MaxFailures /\ UNCHANGED edits
    BY <1>1, <1>2 DEF WritebackInv, TypeOK, bounds
  <2>4. \A q \in Procs : proc[q].pc \in Executing => Mine(q) # Mine(p)
    BY <1>1 DEF WritebackInv, Placed
  <2> HIDE DEF st
  <2>5. Moved(p, "idle", NoOp, 0)
    BY <2>1, QuitMoved DEF WritebackInv
  <2>6. Written(Mine(p), st, op[Mine(p)].after, op[Mine(p)].rollback, op[Mine(p)].spooled)
    BY <1>1, <2>1, <2>2, StateWritten DEF WritebackInv
  <2>7. lock' = lock
    BY <2>1
  <2> QED
    BY <1>1, <1>2, <2>1, <2>2, <2>3, <2>4, <2>5, <2>6, <2>7, StopKeeps
<1> QED
  BY <1>3, <1>4


----------------------------------------------------------------------------
(* The owner of the file *)

LEMMA EditKeeps ==
  ASSUME WritebackAssumption, WritebackInv,
         NEW c \in Contents, NEW atomic \in BOOLEAN, Edit(c, atomic)
  PROVE  WritebackInv'
<1> USE DEF Edit, fileVars, privateVars, Mine, At
<1>1. NoOp \notin TrimOps
  BY DEF NoOp, TrimOps, WritebackAssumption
<1>2. edits \in Nat /\ \A q \in Procs : proc[q].edits \in Nat
  BY DEF WritebackInv, TypeOK, WritebackAssumption
<1>3. \A u \in Undos : Undone[u] \in TrimOps
  BY DEF WritebackAssumption
<1>4. TypeOK'
  <2>1. file' \in [content : Contents, ident : Nat] /\ author' \in Ops \cup {NoOp}
    BY DEF WritebackInv, TypeOK
  <2>2. edits' \in 0..MaxEdits /\ \A q \in Procs : proc[q] \in ProcRec
    BY DEF WritebackInv, TypeOK, WritebackAssumption, ProcRec
  <2> QED
    BY <2>1, <2>2 DEF WritebackInv, TypeOK
<1>5. \A q \in Procs : Placed(q)' /\ Evidenced(q)'
  BY DEF WritebackInv, Placed, Evidenced
<1>6. \A q \in Procs : Executes(q)'
  BY <1>1 DEF WritebackInv, Executes, Placed, After
<1>7. \A q \in Procs : Resolves(q)' /\ Fails(q)'
  BY <1>1, <1>3
     DEF WritebackInv, Resolves, Fails, FailurePCs, Placed, UndoneAt, PastUndoLock, Undoing,
         Original, Executing, TrimPCs, Ops, Executes
<1>8. \A q \in Procs : Compared(q)'
  BY <1>2 DEF WritebackInv, Compared
<1>9. (\A x \in Ops : Founded(x)') /\ Alone'
  BY DEF WritebackInv, Founded, EarlyStates, Alone, Original
<1>10. Authored' /\ TrimIsOnRecord' /\ EvidenceBacksCompletion'
  BY <1>1 DEF WritebackInv, Authored, TrimIsOnRecord, EvidenceBacksCompletion
<1> QED
  BY <1>4, <1>5, <1>6, <1>7, <1>8, <1>9, <1>10 DEF WritebackInv

----------------------------------------------------------------------------
(* Theorems *)

LEMMA InitHolds ==
  ASSUME WritebackAssumption, Init
  PROVE  WritebackInv
<1> USE DEF Init
<1>1. NoOp \notin TrimOps
  BY DEF NoOp, TrimOps, WritebackAssumption
<1>2. IdleProc \in ProcRec /\ IdleProc.pc = "idle" /\ IdleProc.edits = 0
  BY DEF IdleProc, ProcRec, PCs, WritebackAssumption
<1>3. TypeOK
  BY <1>2 DEF TypeOK, ProcRec, States, WritebackAssumption
<1>4. \A p \in Procs : proc[p].pc = "idle" /\ proc[p].edits = 0
  BY <1>2
<1>5. \A p \in Procs : Placed(p) /\ Executes(p) /\ Resolves(p) /\ Fails(p) /\ Evidenced(p) /\ Compared(p)
  BY <1>4
     DEF Placed, Executes, Resolves, Fails, FailurePCs, Evidenced, Compared, Executing,
         Reconciling, Undoing, TrimPCs, UndoPCs, Holding, UndoneAt, PastUndoLock, At
<1>6. \A o \in Ops : Founded(o)
  BY DEF Founded, EarlyStates
<1>7. Alone
  BY <1>4 DEF Alone, Executing, TrimPCs, PastUndoLock, UndoPCs, At
<1>8. Authored /\ TrimIsOnRecord
  BY <1>1 DEF Authored, TrimIsOnRecord
<1>9. EvidenceBacksCompletion
  BY <1>1 DEF EvidenceBacksCompletion, Ops, TrimOps
<1> QED
  BY <1>3, <1>5, <1>6, <1>7, <1>8, <1>9 DEF WritebackInv

LEMMA StepKeeps ==
  ASSUME WritebackAssumption, WritebackInv, [Next]_vars
  PROVE  WritebackInv'
<1>1. ASSUME NEW p \in Procs, CoordinatorStep(p) PROVE WritebackInv'
  BY <1>1, SweepKeeps, RecoveryDeniedKeeps, ReconcileKeeps, MeasureKeeps, AuthorizeKeeps
     DEF CoordinatorStep
<1>2. ASSUME NEW p \in Procs, TrimStep(p) PROVE WritebackInv'
  BY <1>2, ConsumeTrimKeeps, LockKeeps, ReadKeeps, BackupKeeps, SpoolKeeps, RecheckTrimKeeps,
     ReplaceTrimKeeps, ReplacedKeeps, ReadbackKeeps, EvidenceKeeps, RenameSpoolKeeps, CompleteKeeps
     DEF TrimStep
<1>3. ASSUME NEW p \in Procs, UndoStep(p) PROVE WritebackInv'
  BY <1>3, ConsumeUndoKeeps, LockUndoKeeps, ReadUndoKeeps, RecheckUndoKeeps, ReplaceUndoKeeps,
     ReplacedUndoKeeps, ReadbackUndoKeeps, EvidenceUndoKeeps, ReconciledUndoKeeps,
     CloseUndoKeeps, CloseOriginalKeeps
     DEF UndoStep
<1>4. ASSUME NEW p \in Procs, ReconcileStep(p) PROVE WritebackInv'
  BY <1>4, ReconcileTrimKeeps, ReconcileRenameKeeps, ReconcileCompleteKeeps, ReconcileUndoKeeps
     DEF ReconcileStep
<1>5. ASSUME NEW p \in Procs,
             \/ \E o \in Ops : Operate(p, o)
             \/ \E u \in Undos : StartReconcileUndo(p, u)
             \/ FailureStep(p)
      PROVE  WritebackInv'
  BY <1>5, OperateKeeps, StartReconcileUndoKeeps, ReadbackMismatchKeeps, RaiseKeeps,
     JudgeFailureKeeps, RecordFailureKeeps, CrashKeeps
     DEF FailureStep
<1>6. ASSUME NEW c \in Contents, NEW atomic \in BOOLEAN, Edit(c, atomic) PROVE WritebackInv'
  BY <1>6, EditKeeps
<1>7. CASE UNCHANGED vars
  BY <1>7
     DEF vars, WritebackInv, TypeOK, Placed, Executes, Resolves, Fails, Evidenced, Compared,
         Founded, Alone, Authored, TrimIsOnRecord, EvidenceBacksCompletion, Mine, At, Original,
         Expected
<1> QED
  BY <1>1, <1>2, <1>3, <1>4, <1>5, <1>6, <1>7 DEF Next

\* WritebackInv holds in every reachable state.
THEOREM WritebackInvariant == Spec => []WritebackInv
<1>1. Init => WritebackInv
  BY WritebackAssumption, InitHolds
<1>2. WritebackInv /\ [Next]_vars => WritebackInv'
  BY WritebackAssumption, StepKeeps
<1> QED
  BY <1>1, <1>2, PTL DEF Spec

\* Every variable keeps its type: above all, an operation is only ever in a
\* state that some reader of the table knows.
THEOREM WritebackTypes == Spec => []TypeOK
<1>1. WritebackInv => TypeOK
  BY DEF WritebackInv
<1> QED
  BY WritebackInvariant, <1>1, PTL

\* While the file is what a trim made of it, the trim can be rolled back and
\* its row says so, whoever crashed, raised or reconciled meanwhile.
THEOREM TrimsStayRecoverable == Spec => []TrimIsOnRecord
<1>1. WritebackInv => TrimIsOnRecord
  BY DEF WritebackInv
<1> QED
  BY WritebackInvariant, <1>1, PTL

\* A completed trim has its evidence stored and its spool committed, and all
\* evidence is of trims whose authorization was used up.
THEOREM CompletionIsBacked == Spec => []EvidenceBacksCompletion
<1>1. WritebackInv => EvidenceBacksCompletion
  BY DEF WritebackInv
<1> QED
  BY WritebackInvariant, <1>1, PTL

\* What a trim or a rollback replaces is what its authorization names, unless
\* the owner saved the file after the last comparison.
THEOREM StaleHashesStop == Spec => StaleHashStops
<1>1. WritebackInv /\ [Next]_vars =>
        [\A p \in Procs :
           Replacing(p) => file.content = Expected(p) \/ edits # proc[p].edits]_vars
  BY DEF WritebackInv, Compared, Replacing
<1> QED
  BY WritebackInvariant, <1>1, PTL DEF Spec, StaleHashStops
=============================================================================
