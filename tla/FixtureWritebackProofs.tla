----------------------- MODULE FixtureWritebackProofs -----------------------
(***************************************************************************)
(* Proofs about FixtureWriteback, for any number of processes, proposals,  *)
(* contents, receipts and edits.                                           *)
(*                                                                         *)
(* The types need what an operation carries from one of its steps to the   *)
(* next (OpsFounded).  That receipts explain the file is inductive only    *)
(* with the same claim for the moments between the replacement of the file *)
(* and its receipt (Explained), and with operations being alone (Alone).   *)
(***************************************************************************)
EXTENDS FixtureWriteback, SequenceTheorems, TLAPS

\* The phases between the replacement of the file and its receipt.
Unrecorded == {"verifying", "recording"}

Founded(o) ==
  /\ o.kind = "propose" => o.before \in Contents \cup {NoHash} /\ o.phase = "deciding"
  /\ o.kind \in {"write", "rollback"} => o.content \in Contents
  /\ o.phase \in {"replacing"} \cup Unrecorded =>
       o.before \in Contents /\ o.kind \in {"write", "rollback"}

OpsFounded == \A q \in Procs : Founded(op[q])

FileInv == FixtureTypeOK /\ OpsFounded

----------------------------------------------------------------------------
(* Types *)

\* The history variables and the bounds of a step.
LedgerTyped == owner \in Contents \cup {Missing} /\ trail \in 0..Len(receipts) /\ serial \in BOOLEAN

\* What a step other than an edit does to the history variables.
LedgerStep == UNCHANGED ledger \/ (serial' = FALSE /\ owner' = Missing /\ trail' = 0)

LEMMA LedgerSteps ==
  /\ \A q \in Procs : StaysSerial(Others(q) = {}) => LedgerStep
  /\ \A q \in Procs : Breaks(q) => LedgerStep
  /\ StaysSerial(FALSE) => LedgerStep
BY DEF LedgerStep, StaysSerial, Breaks

LEMMA LedgerKept ==
  ASSUME FileInv, receipts' \in Seq(Receipts), Len(receipts') >= Len(receipts),
         LedgerStep
  PROVE  LedgerTyped'
<1>1. Len(receipts) \in Nat /\ Len(receipts') \in Nat
  BY DEF FileInv, FixtureTypeOK
<1>2. UNCHANGED ledger \/ (serial' = FALSE /\ owner' = Missing /\ trail' = 0)
  BY DEF LedgerStep
<1>3. owner \in Contents \cup {Missing} /\ trail \in 0..Len(receipts) /\ serial \in BOOLEAN
  BY DEF FileInv, FixtureTypeOK
<1>4. trail' \in 0..Len(receipts')
  BY <1>1, <1>2, <1>3 DEF ledger
<1>5. owner' \in Contents \cup {Missing} /\ serial' \in BOOLEAN
  BY <1>2, <1>3 DEF ledger
<1> QED BY <1>4, <1>5 DEF LedgerTyped

\* What an operation may become.
Becomes(q, o) == op' = [op EXCEPT ![q] = o]

LEMMA OpKept ==
  ASSUME FileInv, NEW q \in Procs, NEW o \in Ops, Founded(o), Becomes(q, o)
  PROVE  op' \in [Procs -> Ops] /\ OpsFounded'
<1>1. op' \in [Procs -> Ops]
  BY DEF FileInv, FixtureTypeOK, Becomes
<1>2. \A r \in Procs : op'[r] = IF r = q THEN o ELSE op[r]
  BY DEF FileInv, FixtureTypeOK, Becomes
<1> QED BY <1>1, <1>2 DEF FileInv, OpsFounded, Founded

LEMMA IdleIsFounded == Idle \in Ops /\ Founded(Idle) /\ Idle.phase = "idle" /\ Idle.kind = "idle"
BY DEF Idle, Ops, Founded, Unrecorded

\* An operation under way is a record of the four kinds.
Under == [kind : Kinds, phase : {"deciding", "replacing", "verifying", "recording"},
          p : Proposals, content : Contents \cup {NoContent},
          before : Contents \cup {NoContent, NoHash}, ok : BOOLEAN]

LEMMA UnderWay ==
  ASSUME FileInv, NEW q \in Procs, op[q].kind # "idle" \/ op[q].phase # "idle"
  PROVE  op[q] \in Under
BY DEF FileInv, FixtureTypeOK, Ops, Under, Idle

\* Steps that only move an operation on.
LEMMA MoveKeepsTypes ==
  ASSUME FileInv, NEW q \in Procs, NEW o \in Ops, Founded(o), Becomes(q, o),
         UNCHANGED <<file, status, expected, receipts, edits>>,
         decisions' \subseteq Proposals \cup {File},
         LedgerStep
  PROVE  FileInv'
<1>1. op' \in [Procs -> Ops] /\ OpsFounded'
  BY OpKept
<1>2. receipts' \in Seq(Receipts) /\ Len(receipts') >= Len(receipts)
  BY DEF FileInv, FixtureTypeOK
<1>3. LedgerTyped'
  BY <1>2, LedgerKept
<1> QED BY <1>1, <1>2, <1>3 DEF FileInv, FixtureTypeOK, LedgerTyped

LEMMA TextIsContent ==
  ASSUME FileInv, FixtureAssumption
  PROVE  Text(file) \in Contents /\ SnapshotHash(file) \in Contents \cup {NoHash}
BY DEF FileInv, FixtureTypeOK, FixtureAssumption, Text, SnapshotHash

LEMMA BeginsKeepsTypes ==
  ASSUME FileInv, FixtureAssumption, NEW q \in Procs, NEW p \in Proposals,
         ProposeRead(q, p) \/ ApproveRead(q, p) \/ WritebackRead(q, p) \/ RollbackCheck(q, p)
  PROVE  FileInv'
<1>1. CASE ProposeRead(q, p)
  <2> DEFINE o == [Idle EXCEPT !.kind = "propose", !.phase = "deciding", !.p = p,
                               !.before = SnapshotHash(file)]
  <2>1. o \in Ops /\ Founded(o)
    BY TextIsContent DEF Idle, Ops, Kinds, Founded, Unrecorded
  <2>2. decisions' \subseteq Proposals \cup {File}
    BY <1>1 DEF ProposeRead, FileInv, FixtureTypeOK
  <2>3. (Becomes(q, o) /\ StaysSerial(Others(q) = {})) \/ UNCHANGED <<op, ledger>>
    BY <1>1 DEF ProposeRead, Becomes, Begins
  <2>4. UNCHANGED <<file, status, expected, receipts, edits>>
    BY <1>1 DEF ProposeRead
  <2> HIDE DEF o
  <2>5. CASE Becomes(q, o) /\ StaysSerial(Others(q) = {})
    BY <2>1, <2>2, <2>4, <2>5, LedgerSteps, MoveKeepsTypes
  <2>6. CASE UNCHANGED <<op, ledger>>
    BY <2>2, <2>4, <2>6 DEF FileInv, FixtureTypeOK, OpsFounded, Founded, ledger
  <2> QED BY <2>3, <2>5, <2>6
<1>2. CASE ApproveRead(q, p)
  <2> DEFINE o == [Idle EXCEPT !.kind = "approve", !.phase = "deciding", !.p = p]
  <2>1. o \in Ops /\ Founded(o)
    BY DEF Idle, Ops, Kinds, Founded, Unrecorded
  <2>2. Becomes(q, o) /\ StaysSerial(Others(q) = {})
    BY <1>2 DEF ApproveRead, Becomes, Begins
  <2>3. UNCHANGED <<file, status, expected, decisions, receipts, edits>>
    BY <1>2 DEF ApproveRead
  <2> HIDE DEF o
  <2> QED BY <2>1, <2>2, <2>3, LedgerSteps, MoveKeepsTypes DEF FileInv, FixtureTypeOK
<1>3. CASE WritebackRead(q, p)
  <2> DEFINE o == [Idle EXCEPT !.kind = "write", !.phase = "deciding", !.p = p,
                               !.content = BodyOf[p]]
  <2>1. o \in Ops /\ Founded(o)
    BY DEF Idle, Ops, Kinds, Founded, Unrecorded, FixtureAssumption
  <2>2. Becomes(q, o) /\ StaysSerial(Others(q) = {})
    BY <1>3 DEF WritebackRead, Becomes, Begins
  <2>3. UNCHANGED <<file, status, expected, decisions, receipts, edits>>
    BY <1>3 DEF WritebackRead
  <2> HIDE DEF o
  <2> QED BY <2>1, <2>2, <2>3, LedgerSteps, MoveKeepsTypes DEF FileInv, FixtureTypeOK
<1>4. CASE RollbackCheck(q, p)
  <2>0. UNCHANGED <<file, status, expected, decisions, receipts, edits>>
    BY <1>4 DEF RollbackCheck
  <2>1. PICK c \in Contents : \/ Begins(q, [Idle EXCEPT !.kind = "rollback", !.phase = "replacing",
                                   !.p = p, !.content = c, !.before = Text(file)])
                              \/ UNCHANGED <<op, ledger>>
    BY <1>4 DEF RollbackCheck, BeforeFound
  <2> DEFINE o == [Idle EXCEPT !.kind = "rollback", !.phase = "replacing", !.p = p,
                               !.content = c, !.before = Text(file)]
  <2>2. o \in Ops /\ Founded(o)
    BY TextIsContent DEF Idle, Ops, Kinds, Founded, Unrecorded
  <2>3. (Becomes(q, o) /\ StaysSerial(Others(q) = {})) \/ UNCHANGED <<op, ledger>>
    BY <2>1 DEF Becomes, Begins
  <2> HIDE DEF o
  <2>4. CASE Becomes(q, o) /\ StaysSerial(Others(q) = {})
    BY <2>0, <2>2, <2>4, LedgerSteps, MoveKeepsTypes DEF FileInv, FixtureTypeOK
  <2>5. CASE UNCHANGED <<op, ledger>>
    BY <2>0, <2>5 DEF FileInv, FixtureTypeOK, OpsFounded, Founded, ledger
  <2> QED BY <2>3, <2>4, <2>5
<1> QED BY <1>1, <1>2, <1>3, <1>4

LEMMA ContinuesKeepsTypes ==
  ASSUME FileInv, FixtureAssumption, NEW q \in Procs,
         WritebackCheck(q) \/ ReplaceFails(q) \/ ReadBack(q) \/ Crash(q)
  PROVE  FileInv'
<1>0. UNCHANGED <<file, status, expected, decisions, receipts, edits>>
  BY DEF WritebackCheck, ReplaceFails, ReadBack, Crash
<1>1. decisions' \subseteq Proposals \cup {File}
  BY <1>0 DEF FileInv, FixtureTypeOK
<1>2. CASE /\ Becomes(q, Idle)
           /\ LedgerStep
  BY <1>0, <1>1, <1>2, IdleIsFounded, MoveKeepsTypes
<1>3. ASSUME NEW o \in Ops, Founded(o), Goes(q, o) PROVE FileInv'
  BY <1>0, <1>1, <1>3, MoveKeepsTypes DEF Goes, Becomes, LedgerStep
<1>4. CASE WritebackCheck(q)
  <2>1. op[q] \in Under
    BY <1>4, UnderWay DEF WritebackCheck
  <2>2. op[q].kind = "write" /\ op[q].phase = "deciding"
    BY <1>4 DEF WritebackCheck
  <2> DEFINE o == [op[q] EXCEPT !.phase = "replacing", !.before = Text(file)]
  <2>3. Goes(q, o) \/ Goes(q, Idle)
    BY <1>4 DEF WritebackCheck, BeforeFound
  <2>4. o \in Ops
    BY <2>1, TextIsContent DEF Ops, Under
  <2>5. o.kind = "write" /\ o.phase = "replacing" /\ o.before = Text(file)
        /\ o.content = op[q].content
    BY <2>1, <2>2 DEF Under
  <2>6. op[q].content \in Contents
    BY <2>2 DEF FileInv, OpsFounded, Founded
  <2>7. Founded(o)
    BY <2>5, <2>6, TextIsContent DEF Founded
  <2> HIDE DEF o
  <2> QED BY <1>2, <1>3, <2>3, <2>4, <2>7 DEF Goes, Becomes, LedgerStep
<1>5. CASE ReplaceFails(q)
  BY <1>2, <1>5 DEF ReplaceFails, Goes, Becomes, LedgerStep
<1>6. CASE ReadBack(q)
  <2>1. op[q] \in Under
    BY <1>6, UnderWay DEF ReadBack
  <2> DEFINE o == [op[q] EXCEPT !.phase = "recording", !.ok = (file = op[q].content),
                                !.content = file]
  <2>2. CASE file = Missing
    BY <1>2, <1>6, <2>2 DEF ReadBack, Breaks, Becomes, LedgerStep, StaysSerial
  <2>3. CASE file # Missing
    <3>1. file \in Contents /\ (file = op[q].content) \in BOOLEAN
      BY <2>3 DEF FileInv, FixtureTypeOK
    <3>2. o \in Ops
      BY <2>1, <3>1 DEF Ops, Under
    <3>3. o.kind = op[q].kind /\ o.before = op[q].before /\ o.content = file
      BY <2>1 DEF Under
    <3>4. o.phase = "recording"
      BY <2>1 DEF Under
    <3>5. op[q].before \in Contents /\ op[q].kind \in {"write", "rollback"}
      BY <1>6 DEF ReadBack, FileInv, OpsFounded, Founded, Unrecorded
    <3>6. Founded(o)
      BY <3>1, <3>3, <3>4, <3>5 DEF Founded
    <3>7. Goes(q, o)
      BY <1>6, <2>3 DEF ReadBack
    <3> HIDE DEF o
    <3> QED BY <1>3, <3>2, <3>6, <3>7
  <2> QED BY <2>2, <2>3
<1>7. CASE Crash(q)
  BY <1>2, <1>7 DEF Crash, Breaks, Becomes, LedgerStep, StaysSerial
<1> QED BY <1>4, <1>5, <1>6, <1>7

\* The steps that change a proposal or the file.
LEMMA EffectsKeepTypes ==
  ASSUME FileInv, FixtureAssumption, NEW q \in Procs, op' \in [Procs -> Ops], OpsFounded',
         file' \in Contents \cup {Missing}, status' \in [Proposals -> Statuses],
         expected' \in [Proposals -> Contents \cup {NoHash}],
         receipts' \in Seq(Receipts), Len(receipts') >= Len(receipts),
         LedgerStep,
         UNCHANGED <<decisions, edits>>
  PROVE  FileInv'
<1>1. LedgerTyped'
  BY LedgerKept
<1> QED BY <1>1 DEF FileInv, FixtureTypeOK, LedgerTyped

LEMMA CommitsKeepTypes ==
  ASSUME FileInv, FixtureAssumption, NEW q \in Procs,
         ProposeCommit(q) \/ ApproveCommit(q) \/ RecordWrite(q) \/ RecordRollback(q)
  PROVE  FileInv'
<1> DEFINE p == op[q].p
<1>1. op[q] \in Under
  BY UnderWay DEF ProposeCommit, ApproveCommit, RecordWrite, RecordRollback
<1>2. p \in Proposals
  BY <1>1 DEF Under
<1>3. Becomes(q, Idle) /\ UNCHANGED ledger /\ UNCHANGED <<file, decisions, edits>>
  BY DEF ProposeCommit, ApproveCommit, RecordWrite, RecordRollback, Goes, Becomes
<1>4. op' \in [Procs -> Ops] /\ OpsFounded'
  BY <1>3, IdleIsFounded, OpKept
<1>5. FixtureTypeOK
  BY DEF FileInv
<1>6. file' \in Contents \cup {Missing}
  BY <1>3, <1>5 DEF FixtureTypeOK
<1>7. status' \in [Proposals -> Statuses] /\ expected' \in [Proposals -> Contents \cup {NoHash}]
  <2>1. status \in [Proposals -> Statuses] /\ expected \in [Proposals -> Contents \cup {NoHash}]
    BY <1>5 DEF FixtureTypeOK
  <2>2. CASE ProposeCommit(q)
    <3>1. op[q].before \in Contents \cup {NoHash}
      BY <2>2 DEF ProposeCommit, FileInv, OpsFounded, Founded
    <3> QED BY <1>2, <2>1, <2>2, <3>1 DEF ProposeCommit, Statuses
  <2>3. CASE ApproveCommit(q)
    BY <1>2, <2>1, <2>3 DEF ApproveCommit, Statuses
  <2>4. CASE RecordWrite(q)
    BY <1>2, <2>1, <2>4 DEF RecordWrite, Statuses
  <2>5. CASE RecordRollback(q)
    BY <1>2, <2>1, <2>5 DEF RecordRollback, Statuses
  <2> QED BY <2>2, <2>3, <2>4, <2>5
<1>8. receipts' \in Seq(Receipts) /\ Len(receipts') >= Len(receipts)
  <2>1. receipts \in Seq(Receipts) /\ Len(receipts) \in Nat
    BY <1>5 DEF FixtureTypeOK
  <2>2. CASE UNCHANGED receipts
    BY <2>1, <2>2
  <2>3. CASE /\ op[q].phase = "recording"
             /\ \/ receipts' = Append(receipts, Receipt(q, "written"))
                \/ receipts' = Append(receipts, Receipt(q, "rollback"))
    <3>1. op[q].before \in Contents /\ op[q].content \in Contents \cup {NoContent}
      BY <1>1, <2>3 DEF Under, FileInv, OpsFounded, Founded, Unrecorded
    <3>2. Receipt(q, "written") \in Receipts /\ Receipt(q, "rollback") \in Receipts
      BY <1>2, <3>1 DEF Receipt, Receipts
    <3> QED BY <2>1, <2>3, <3>2
  <2> QED BY <2>2, <2>3 DEF ProposeCommit, ApproveCommit, RecordWrite, RecordRollback
<1> QED BY <1>3, <1>4, <1>6, <1>7, <1>8, EffectsKeepTypes DEF LedgerStep

LEMMA ReplaceKeepsTypes ==
  ASSUME FileInv, FixtureAssumption, NEW q \in Procs, Replace(q) PROVE FileInv'
<1> DEFINE o == [op[q] EXCEPT !.phase = "verifying"]
<1>1. op[q] \in Under /\ op[q].phase = "replacing"
  BY UnderWay DEF Replace
<1>2. op[q].before \in Contents /\ op[q].content \in Contents /\ op[q].kind \in {"write", "rollback"}
  BY <1>1 DEF FileInv, OpsFounded, Founded
<1>3. o \in Ops
  BY <1>1 DEF Ops, Under
<1>4. o.kind = op[q].kind /\ o.before = op[q].before /\ o.content = op[q].content
  BY <1>1 DEF Under
<1>5. Founded(o)
  BY <1>2, <1>4 DEF Founded
<1>6. Becomes(q, o) /\ UNCHANGED ledger /\ file' = op[q].content
  BY DEF Replace, Goes, Becomes
<1> HIDE DEF o
<1>7. op' \in [Procs -> Ops] /\ OpsFounded'
  BY <1>3, <1>5, <1>6, OpKept
<1>8. UNCHANGED <<status, expected, decisions, receipts, edits>>
  BY DEF Replace
<1> QED BY <1>2, <1>6, <1>7, <1>8, EffectsKeepTypes DEF LedgerStep, FileInv, FixtureTypeOK

LEMMA OutsideKeepsTypes ==
  ASSUME FileInv, FixtureAssumption,
         \/ \E q \in Procs, p \in Proposals : Tombstone(q, p) \/ WritebackRefused(q, p)
         \/ Edit \/ UNCHANGED vars
  PROVE  FileInv'
<1>0. FixtureTypeOK /\ Len(receipts) \in Nat
  BY DEF FileInv, FixtureTypeOK
<1>1. UNCHANGED op /\ UNCHANGED receipts
  BY DEF Tombstone, WritebackRefused, Edit, vars
<1>2. op' \in [Procs -> Ops] /\ OpsFounded'
  BY <1>0, <1>1 DEF FileInv, FixtureTypeOK, OpsFounded, Founded
<1>3. ASSUME NEW q \in Procs, NEW p \in Proposals, Tombstone(q, p) PROVE FileInv'
  <2>1. LedgerTyped'
    BY <1>0, <1>1, <1>3, LedgerSteps, LedgerKept DEF Tombstone, FixtureTypeOK
  <2>2. status' \in [Proposals -> Statuses]
    BY <1>0, <1>3 DEF Tombstone, FixtureTypeOK, Statuses
  <2> QED BY <1>0, <1>2, <1>3, <2>1, <2>2 DEF Tombstone, FileInv, FixtureTypeOK, LedgerTyped
<1>4. ASSUME NEW q \in Procs, NEW p \in Proposals, WritebackRefused(q, p) PROVE FileInv'
  <2>1. LedgerTyped'
    BY <1>0, <1>1, <1>4, LedgerKept DEF WritebackRefused, FixtureTypeOK, LedgerStep
  <2> QED BY <1>0, <1>2, <1>4, <2>1 DEF WritebackRefused, FileInv, FixtureTypeOK, LedgerTyped
<1>5. CASE Edit
  <2>1. PICK c \in Contents \cup {Missing} :
          /\ file' = c
          /\ \/ owner' = c /\ trail' = Len(receipts) /\ UNCHANGED serial
             \/ StaysSerial(FALSE)
    BY <1>5 DEF Edit
  <2>3. LedgerTyped'
    <3>1. CASE StaysSerial(FALSE)
      BY <1>0, <1>1, <3>1, LedgerSteps, LedgerKept DEF FixtureTypeOK
    <3>2. CASE owner' = c /\ trail' = Len(receipts) /\ UNCHANGED serial
      BY <1>0, <1>1, <3>2 DEF FixtureTypeOK, LedgerTyped
    <3> QED BY <2>1, <3>1, <3>2
  <2>4. edits' \in 0..MaxEdits
    BY <1>0, <1>5 DEF Edit, FixtureTypeOK, FixtureAssumption
  <2>5. UNCHANGED <<status, expected, decisions>>
    BY <1>5 DEF Edit
  <2> QED BY <1>0, <1>1, <1>2, <2>1, <2>3, <2>4, <2>5 DEF FileInv, FixtureTypeOK, LedgerTyped
<1>6. CASE UNCHANGED vars
  BY <1>0, <1>2, <1>6 DEF FileInv, FixtureTypeOK, vars
<1> QED BY <1>3, <1>4, <1>5, <1>6

LEMMA NextKeepsFileInv == ASSUME FileInv, FixtureAssumption, [Next]_vars PROVE FileInv'
<1>1. ASSUME NEW q \in Procs, Step(q) PROVE FileInv'
  BY <1>1, BeginsKeepsTypes, ContinuesKeepsTypes, CommitsKeepTypes, ReplaceKeepsTypes,
     OutsideKeepsTypes DEF Step
<1> QED BY <1>1, OutsideKeepsTypes DEF Next

LEMMA InitFileInv == ASSUME FixtureAssumption, Init PROVE FileInv
<1>1. OpsFounded /\ op \in [Procs -> Ops]
  BY IdleIsFounded DEF Init, OpsFounded
<1>2. 0 \in 0..MaxEdits /\ Len(receipts) = 0 /\ receipts \in Seq(Receipts)
  BY DEF Init, FixtureAssumption
<1> QED BY <1>1, <1>2 DEF Init, FileInv, FixtureTypeOK, Statuses

THEOREM FileInvariant == Spec => []FileInv
<1>1. Init => FileInv
  BY InitFileInv, FixtureAssumption
<1>2. FileInv /\ [Next]_vars => FileInv'
  BY NextKeepsFileInv, FixtureAssumption
<1> QED BY <1>1, <1>2, PTL DEF Spec

\* Every part of a fixture writeback keeps its type, also in the middle of one.
THEOREM FixtureTypeCorrect == Spec => []FixtureTypeOK
<1>1. FileInv => FixtureTypeOK
  BY DEF FileInv
<1> QED BY <1>1, FileInvariant, PTL

----------------------------------------------------------------------------
(* A withdrawn proposal *)

\* What an operation has found when it began decides what it may still do.
LEMMA StaysWithdrawn ==
  ASSUME FileInv, [Next]_vars, NEW p \in Proposals, Withdrawn(p), Quiet(p)
  PROVE  Withdrawn(p)' /\ Quiet(p)'
<1>0. status[p] \in {"rolled_back", "tombstoned"} /\ status \in [Proposals -> Statuses]
      /\ op \in [Procs -> Ops]
  BY DEF Withdrawn, FileInv, FixtureTypeOK
<1>1. ASSUME NEW q \in Procs, Step(q) PROVE Withdrawn(p)'
  <2>1. CASE status' = status
    BY <1>0, <2>1 DEF Withdrawn
  <2>2. CASE ProposeCommit(q) \/ ApproveCommit(q)
    BY <1>0, <2>2 DEF ProposeCommit, ApproveCommit, Withdrawn, Quiet
  <2>3. CASE RecordWrite(q) \/ RecordRollback(q)
    BY <1>0, <2>3 DEF RecordWrite, RecordRollback, Withdrawn, Quiet
  <2>4. CASE \E r \in Proposals : Tombstone(q, r)
    BY <1>0, <2>4 DEF Tombstone, Withdrawn
  <2> QED BY <1>1, <2>1, <2>2, <2>3, <2>4
          DEF Step, ProposeRead, ApproveRead, WritebackRefused, WritebackRead, RollbackCheck,
              WritebackCheck, Replace, ReplaceFails, ReadBack, Crash
<1>2. ASSUME NEW q \in Procs, Step(q), NEW o, op' = [op EXCEPT ![q] = o],
             o.p = p => o.kind \notin {"approve", "write"}
      PROVE  Quiet(p)'
  BY <1>0, <1>2 DEF Quiet
<1>3. ASSUME NEW q \in Procs, Step(q) PROVE Quiet(p)'
  <2>1. ASSUME op' = [op EXCEPT ![q] = Idle] PROVE Quiet(p)'
    BY <1>2, <1>3, <2>1 DEF Idle
  <2>2. CASE UNCHANGED op
    BY <2>2 DEF Quiet
  <2>3. CASE \E r \in Proposals : ProposeRead(q, r)
    <3>1. PICK r \in Proposals : ProposeRead(q, r)
      BY <2>3
    <3> DEFINE o == [Idle EXCEPT !.kind = "propose", !.phase = "deciding", !.p = r,
                                 !.before = SnapshotHash(file)]
    <3>2. o.kind = "propose"
      BY DEF Idle
    <3>3. op' = [op EXCEPT ![q] = o] \/ UNCHANGED op
      BY <3>1 DEF ProposeRead, Begins
    <3> HIDE DEF o
    <3> QED BY <1>2, <1>3, <2>2, <3>2, <3>3
  <2>4. CASE \E r \in Proposals : ApproveRead(q, r)
    <3>1. PICK r \in Proposals : ApproveRead(q, r)
      BY <2>4
    <3> DEFINE o == [Idle EXCEPT !.kind = "approve", !.phase = "deciding", !.p = r]
    <3>2. o.p = r /\ r # p
      BY <1>0, <3>1 DEF Idle, ApproveRead, Approvable
    <3>3. op' = [op EXCEPT ![q] = o]
      BY <3>1 DEF ApproveRead, Begins
    <3> HIDE DEF o
    <3> QED BY <1>2, <1>3, <3>2, <3>3
  <2>5. CASE \E r \in Proposals : WritebackRead(q, r)
    <3>1. PICK r \in Proposals : WritebackRead(q, r)
      BY <2>5
    <3> DEFINE o == [Idle EXCEPT !.kind = "write", !.phase = "deciding", !.p = r,
                                 !.content = BodyOf[r]]
    <3>2. o.p = r /\ r # p
      BY <1>0, <3>1 DEF Idle, WritebackRead
    <3>3. op' = [op EXCEPT ![q] = o]
      BY <3>1 DEF WritebackRead, Begins
    <3> HIDE DEF o
    <3> QED BY <1>2, <1>3, <3>2, <3>3
  <2>6. CASE \E r \in Proposals : RollbackCheck(q, r)
    <3>1. PICK r \in Proposals : RollbackCheck(q, r)
      BY <2>6
    <3>2. PICK c \in Contents :
             \/ op' = [op EXCEPT ![q] = [Idle EXCEPT !.kind = "rollback", !.phase = "replacing",
                          !.p = r, !.content = c, !.before = Text(file)]]
             \/ UNCHANGED op
      BY <3>1 DEF RollbackCheck, Begins, BeforeFound
    <3> DEFINE o == [Idle EXCEPT !.kind = "rollback", !.phase = "replacing", !.p = r,
                                 !.content = c, !.before = Text(file)]
    <3>3. o.kind = "rollback"
      BY DEF Idle
    <3> HIDE DEF o
    <3> QED BY <1>2, <1>3, <2>2, <3>2, <3>3 DEF o
  <2>7. CASE WritebackCheck(q) \/ Replace(q) \/ ReadBack(q)
    <3>1. PICK o : /\ op' = [op EXCEPT ![q] = o]
                   /\ o = Idle \/ (o.p = op[q].p /\ o.kind = op[q].kind)
      <4>1. op[q] \in Under
        BY <2>7, UnderWay DEF WritebackCheck, Replace, ReadBack
      <4>2. CASE WritebackCheck(q)
        <5> DEFINE o == [op[q] EXCEPT !.phase = "replacing", !.before = Text(file)]
        <5>1. o.p = op[q].p /\ o.kind = op[q].kind
          BY <4>1 DEF Under
        <5>2. op' = [op EXCEPT ![q] = o] \/ op' = [op EXCEPT ![q] = Idle]
          BY <4>2 DEF WritebackCheck, Goes, BeforeFound
        <5> HIDE DEF o
        <5> QED BY <5>1, <5>2
      <4>3. CASE Replace(q)
        <5> DEFINE o == [op[q] EXCEPT !.phase = "verifying"]
        <5>1. o.p = op[q].p /\ o.kind = op[q].kind
          BY <4>1 DEF Under
        <5>2. op' = [op EXCEPT ![q] = o]
          BY <4>3 DEF Replace, Goes
        <5> HIDE DEF o
        <5> QED BY <5>1, <5>2
      <4>4. CASE ReadBack(q)
        <5> DEFINE o == [op[q] EXCEPT !.phase = "recording", !.ok = (file = op[q].content),
                                      !.content = file]
        <5>1. o.p = op[q].p /\ o.kind = op[q].kind
          BY <4>1 DEF Under
        <5>2. op' = [op EXCEPT ![q] = o] \/ op' = [op EXCEPT ![q] = Idle]
          BY <4>4 DEF ReadBack, Goes, Breaks
        <5> HIDE DEF o
        <5> QED BY <5>1, <5>2
      <4> QED BY <2>7, <4>2, <4>3, <4>4
    <3>2. op[q].p = p => op[q].kind \notin {"approve", "write"}
      BY DEF Quiet
    <3> QED BY <1>2, <1>3, <2>1, <3>1, <3>2
  <2> QED BY <1>3, <2>1, <2>2, <2>3, <2>4, <2>5, <2>6, <2>7
          DEF Step, Tombstone, WritebackRefused, ProposeCommit, ApproveCommit, ReplaceFails,
              RecordWrite, RecordRollback, Crash, Goes, Breaks
<1>4. CASE Edit \/ UNCHANGED vars
  <2>1. status' = status /\ op' = op
    BY <1>4 DEF Edit, vars
  <2> QED BY <2>1 DEF Withdrawn, Quiet
<1> QED BY <1>1, <1>3, <1>4 DEF Next

\* A proposal withdrawn while nothing on it was under way is never approved or
\* written again, however many processes and updates that read no status.
THEOREM WithdrawalIsFinal == Spec => WithdrawnStaysWithdrawn
<1> SUFFICES ASSUME NEW p \in Proposals
             PROVE  Spec => [](Withdrawn(p) /\ Quiet(p) => []Withdrawn(p))
  BY DEF WithdrawnStaysWithdrawn
<1>1. FileInv /\ (Withdrawn(p) /\ Quiet(p)) /\ [Next]_vars => (Withdrawn(p) /\ Quiet(p))'
  BY StaysWithdrawn
<1> QED BY <1>1, FileInvariant, PTL DEF Spec

----------------------------------------------------------------------------
(* Receipts and file *)

\* What the last receipt, or the owner, says is in the file.
LastKnown == Predecessor(Len(receipts) + 1)

Alone == \A q, r \in Procs : op[q] # Idle /\ op[r] # Idle => q = r

Chained == \A i \in (trail + 1)..Len(receipts) : receipts[i].before = Predecessor(i)

\* What one operation claims about the file at its stage.
Explains(o) ==
  /\ o.phase = "replacing" => o.before = Text(file)
  /\ o.phase \in Unrecorded => o.before = LastKnown /\ o.content = file

Explained ==
  /\ \A q \in Procs : Explains(op[q])
  /\ (\A q \in Procs : op[q].phase \notin Unrecorded) => Text(file) = LastKnown

SerialInv == serial => Alone /\ Chained /\ Explained

\* Serial operations go on, from a phase in which file and receipts agree to
\* another one.
LEMMA SerialMove ==
  ASSUME FileInv, SerialInv, NEW q \in Procs, NEW o, Becomes(q, o),
         UNCHANGED <<file, receipts>>, UNCHANGED ledger,
         op[q] # Idle \/ \A r \in Procs : op[r] = Idle,
         op[q].phase \notin Unrecorded, o.phase \notin Unrecorded,
         o.phase = "replacing" => o.before = Text(file)
  PROVE  SerialInv'
<1> SUFFICES ASSUME serial' PROVE Alone' /\ Chained' /\ Explained'
  BY DEF SerialInv
<1>1. Alone /\ Chained /\ Explained
  BY DEF SerialInv, ledger
<1>2. \A r \in Procs : op'[r] = IF r = q THEN o ELSE op[r]
  BY DEF FileInv, FixtureTypeOK, Becomes
<1>3. Alone'
  BY <1>1, <1>2 DEF Alone
<1>4. Chained'
  BY <1>1 DEF Chained, Predecessor, Text, ledger
<1>5. Explained'
  BY <1>1, <1>2 DEF Explained, Explains, LastKnown, Predecessor, Text, ledger
<1> QED BY <1>3, <1>4, <1>5

\* Every other operation is idle while this one is under way.
LEMMA OthersIdle ==
  ASSUME Alone, NEW q \in Procs, op[q] # Idle, NEW r \in Procs, r # q
  PROVE  op[r] = Idle
BY DEF Alone

LEMMA SerialReplace ==
  ASSUME FileInv, SerialInv, FixtureAssumption, NEW q \in Procs, Replace(q) PROVE SerialInv'
<1> SUFFICES ASSUME serial' PROVE Alone' /\ Chained' /\ Explained'
  BY DEF SerialInv
<1> DEFINE o == [op[q] EXCEPT !.phase = "verifying"]
<1>1. UNCHANGED ledger /\ UNCHANGED receipts /\ file' = op[q].content /\ op' = [op EXCEPT ![q] = o]
  BY DEF Replace, Goes
<1>2. Alone /\ Chained /\ Explained
  BY <1>1 DEF SerialInv, ledger
<1>3. op[q] \in Under /\ op[q].phase = "replacing" /\ op[q] # Idle
  BY UnderWay, IdleIsFounded DEF Replace
<1>4. o.phase = "verifying" /\ o.before = op[q].before /\ o.content = op[q].content
  BY <1>3 DEF Under
<1> HIDE DEF o
<1>5. \A r \in Procs : op'[r] = IF r = q THEN o ELSE op[r]
  BY <1>1 DEF FileInv, FixtureTypeOK
<1>6. \A r \in Procs : r # q => op[r] = Idle
  BY <1>2, <1>3, OthersIdle
<1>7. op[q].before = LastKnown
  BY <1>2, <1>3, <1>6, IdleIsFounded DEF Explained, Explains, Unrecorded
<1>8. LastKnown' = LastKnown
  BY <1>1 DEF LastKnown, Predecessor, Text, ledger
<1>9. Alone'
  BY <1>3, <1>5, <1>6 DEF Alone
<1>10. Chained'
  BY <1>1, <1>2 DEF Chained, Predecessor, Text, ledger
<1>11. Explained'
  <2>1. ASSUME NEW r \in Procs PROVE Explains(op[r])'
    <3>1. CASE r = q
      BY <1>1, <1>4, <1>5, <1>7, <1>8, <3>1 DEF Explains, Unrecorded
    <3>2. CASE r # q
      BY <1>5, <1>6, <3>2, IdleIsFounded DEF Explains, Unrecorded
    <3> QED BY <3>1, <3>2
  <2>2. op'[q].phase \in Unrecorded
    BY <1>4, <1>5 DEF Unrecorded
  <2> QED BY <2>1, <2>2 DEF Explained
<1> QED BY <1>9, <1>10, <1>11

LEMMA SerialReadBack ==
  ASSUME FileInv, SerialInv, FixtureAssumption, NEW q \in Procs, ReadBack(q) PROVE SerialInv'
<1> SUFFICES ASSUME serial' PROVE Alone' /\ Chained' /\ Explained'
  BY DEF SerialInv
<1> DEFINE o == [op[q] EXCEPT !.phase = "recording", !.ok = (file = op[q].content),
                              !.content = file]
<1>0. op[q].phase = "verifying"
  BY DEF ReadBack
<1>1. UNCHANGED ledger /\ UNCHANGED <<file, receipts>> /\ op' = [op EXCEPT ![q] = o]
  BY <1>0 DEF ReadBack, Goes, Breaks, StaysSerial
<1>2. Alone /\ Chained /\ Explained
  BY <1>1 DEF SerialInv, ledger
<1>3. op[q] \in Under /\ op[q] # Idle
  BY <1>0, UnderWay, IdleIsFounded
<1>4. o.phase = "recording" /\ o.before = op[q].before /\ o.content = file
  BY <1>3 DEF Under
<1> HIDE DEF o
<1>5. \A r \in Procs : op'[r] = IF r = q THEN o ELSE op[r]
  BY <1>1 DEF FileInv, FixtureTypeOK
<1>6. \A r \in Procs : r # q => op[r] = Idle
  BY <1>2, <1>3, OthersIdle
<1>7. op[q].before = LastKnown
  BY <1>0, <1>2 DEF Explained, Explains, Unrecorded
<1>8. LastKnown' = LastKnown
  BY <1>1 DEF LastKnown, Predecessor, Text, ledger
<1>9. Alone'
  BY <1>3, <1>5, <1>6 DEF Alone
<1>10. Chained'
  BY <1>1, <1>2 DEF Chained, Predecessor, Text, ledger
<1>11. Explained'
  <2>1. ASSUME NEW r \in Procs PROVE Explains(op[r])'
    <3>1. CASE r = q
      BY <1>1, <1>4, <1>5, <1>7, <1>8, <3>1 DEF Explains, Unrecorded
    <3>2. CASE r # q
      BY <1>5, <1>6, <3>2, IdleIsFounded DEF Explains, Unrecorded
    <3> QED BY <3>1, <3>2
  <2>2. op'[q].phase \in Unrecorded
    BY <1>4, <1>5 DEF Unrecorded
  <2> QED BY <2>1, <2>2 DEF Explained
<1> QED BY <1>9, <1>10, <1>11

\* The receipt of an operation that has replaced the file continues the chain.
LEMMA SerialRecord ==
  ASSUME FileInv, SerialInv, FixtureAssumption, NEW q \in Procs,
         RecordWrite(q) \/ RecordRollback(q)
  PROVE  SerialInv'
<1> SUFFICES ASSUME serial' PROVE Alone' /\ Chained' /\ Explained'
  BY DEF SerialInv
<1> DEFINE n == Len(receipts)
<1>1. /\ UNCHANGED ledger /\ UNCHANGED file /\ op' = [op EXCEPT ![q] = Idle]
      /\ op[q].phase = "recording"
  BY DEF RecordWrite, RecordRollback, Goes
<1>2. Alone /\ Chained /\ Explained
  BY <1>1 DEF SerialInv, ledger
<1>3. PICK r : /\ receipts' = Append(receipts, r)
               /\ r.before = op[q].before /\ r.after = op[q].content
  <2>1. PICK kind : receipts' = Append(receipts, Receipt(q, kind))
    BY DEF RecordWrite, RecordRollback
  <2> QED BY <2>1 DEF Receipt
<1>4. r.before = LastKnown /\ r.after = file
  BY <1>1, <1>2, <1>3 DEF Explained, Explains, Unrecorded
<1>5. receipts \in Seq(Receipts) /\ n \in Nat /\ trail \in 0..n /\ trail' = trail /\ owner' = owner
  BY <1>1 DEF FileInv, FixtureTypeOK, ledger
<1>6. Len(receipts') = n + 1 /\ receipts'[n + 1] = r
      /\ \A i \in 1..n : receipts'[i] = receipts[i]
  BY <1>3, <1>5
<1>7. file \in Contents /\ file # Missing
  <2>1. op[q].content \in Contents
    BY <1>1 DEF FileInv, OpsFounded, Founded, Unrecorded
  <2> QED BY <1>1, <1>2, <2>1, FixtureAssumption
          DEF Explained, Explains, Unrecorded, FixtureAssumption
<1>8. \A x \in Procs : op'[x] = Idle
  <2>1. op[q] # Idle
    BY <1>1, IdleIsFounded
  <2> QED BY <1>1, <1>2, <2>1, OthersIdle DEF FileInv, FixtureTypeOK
<1>9. \A i \in (trail + 1)..(n + 1) : Predecessor(i)' = Predecessor(i)
  <2> SUFFICES ASSUME NEW i \in (trail + 1)..(n + 1)
               PROVE  Predecessor(i)' = Predecessor(i)
    OBVIOUS
  <2>1. CASE i = trail + 1
    BY <1>5, <2>1 DEF Predecessor, Text
  <2>2. CASE i # trail + 1
    <3>1. i - 1 \in 1..n
      BY <1>5, <2>2
    <3> QED BY <1>5, <1>6, <2>2, <3>1 DEF Predecessor
  <2> QED BY <2>1, <2>2
<1> HIDE DEF n
<1>10. Alone'
  BY <1>8 DEF Alone
<1>11. Chained'
  <2> SUFFICES ASSUME NEW i \in (trail + 1)..(n + 1)
               PROVE  receipts'[i].before = Predecessor(i)'
    BY <1>5, <1>6 DEF Chained
  <2>1. CASE i = n + 1
    BY <1>4, <1>6, <1>9, <2>1 DEF LastKnown, n
  <2>2. CASE i # n + 1
    <3>1. i \in (trail + 1)..n /\ i \in 1..n
      BY <1>5, <2>2
    <3> QED BY <1>2, <1>6, <1>9, <3>1 DEF Chained, n
  <2> QED BY <2>1, <2>2
<1>12. Explained'
  <2>1. Text(file)' = file
    BY <1>1, <1>7 DEF Text
  <2>2. LastKnown' = receipts'[n + 1].after
    <3>1. Len(receipts') + 1 # trail' + 1 /\ (Len(receipts') + 1) - 1 = n + 1
      BY <1>5, <1>6
    <3> QED BY <3>1 DEF LastKnown, Predecessor
  <2>3. \A x \in Procs : Explains(op[x])'
    BY <1>8, IdleIsFounded DEF Explains, Unrecorded
  <2> QED BY <1>4, <1>6, <2>1, <2>2, <2>3 DEF Explained
<1> QED BY <1>10, <1>11, <1>12

\* The owner's edit between operations is what the next receipt starts from.
LEMMA SerialEdit == ASSUME FileInv, SerialInv, Edit PROVE SerialInv'
<1> SUFFICES ASSUME serial' PROVE Alone' /\ Chained' /\ Explained'
  BY DEF SerialInv
<1>1. /\ \A q \in Procs : op[q] = Idle
      /\ owner' = file' /\ trail' = Len(receipts)
      /\ UNCHANGED <<receipts, op>>
  BY DEF Edit, StaysSerial
<1>2. Len(receipts) \in Nat
  BY DEF FileInv, FixtureTypeOK
<1>3. LastKnown' = Text(file)'
  BY <1>1, <1>2 DEF LastKnown, Predecessor, Text
<1>4. Alone' /\ Chained'
  BY <1>1, <1>2 DEF Alone, Chained
<1>5. Explained'
  BY <1>1, <1>3, IdleIsFounded DEF Explained, Explains, Unrecorded
<1> QED BY <1>4, <1>5

\* A step that touches neither operations, file nor receipts.
LEMMA SerialStill ==
  ASSUME SerialInv, UNCHANGED <<file, op, receipts>>, serial' => UNCHANGED ledger
  PROVE  SerialInv'
BY DEF SerialInv, Alone, Chained, Explained, Explains, LastKnown, Predecessor, Text, ledger

\* An operation that begins while nothing else is under way, or else ends
\* the serial run.
LEMMA SerialBegin ==
  ASSUME FileInv, SerialInv, NEW q \in Procs, NEW o, op[q] = Idle, Begins(q, o),
         UNCHANGED <<file, receipts>>, o.phase \notin Unrecorded,
         o.phase = "replacing" => o.before = Text(file)
  PROVE  SerialInv'
<1>1. CASE ~ serial'
  BY <1>1 DEF SerialInv
<1>2. CASE serial'
  <2>1. UNCHANGED ledger /\ Others(q) = {}
    BY <1>2 DEF Begins, StaysSerial
  <2>2. \A r \in Procs : op[r] = Idle
    BY <2>1 DEF Others
  <2> QED BY <2>1, <2>2, SerialMove, IdleIsFounded DEF Begins, Becomes, Unrecorded
<1> QED BY <1>1, <1>2

LEMMA SerialBegins ==
  ASSUME FileInv, SerialInv, NEW q \in Procs, NEW p \in Proposals,
         ProposeRead(q, p) \/ ApproveRead(q, p) \/ WritebackRead(q, p) \/ RollbackCheck(q, p)
  PROVE  SerialInv'
<1>0. op[q] = Idle /\ UNCHANGED <<file, receipts>>
  BY DEF ProposeRead, ApproveRead, WritebackRead, RollbackCheck
<1>1. ASSUME NEW o, Begins(q, o), o.phase = "deciding" PROVE SerialInv'
  BY <1>0, <1>1, SerialBegin DEF Unrecorded
<1>2. CASE UNCHANGED <<op, ledger>>
  BY <1>0, <1>2, SerialStill
<1>3. CASE ProposeRead(q, p)
  <2> DEFINE o == [Idle EXCEPT !.kind = "propose", !.phase = "deciding", !.p = p,
                               !.before = SnapshotHash(file)]
  <2>1. o.phase = "deciding"
    BY DEF Idle
  <2>2. Begins(q, o) \/ UNCHANGED <<op, ledger>>
    BY <1>3 DEF ProposeRead
  <2> HIDE DEF o
  <2> QED BY <1>1, <1>2, <2>1, <2>2
<1>4. CASE ApproveRead(q, p)
  <2> DEFINE o == [Idle EXCEPT !.kind = "approve", !.phase = "deciding", !.p = p]
  <2>1. o.phase = "deciding"
    BY DEF Idle
  <2>2. Begins(q, o)
    BY <1>4 DEF ApproveRead
  <2> HIDE DEF o
  <2> QED BY <1>1, <2>1, <2>2
<1>5. CASE WritebackRead(q, p)
  <2> DEFINE o == [Idle EXCEPT !.kind = "write", !.phase = "deciding", !.p = p,
                               !.content = BodyOf[p]]
  <2>1. o.phase = "deciding"
    BY DEF Idle
  <2>2. Begins(q, o)
    BY <1>5 DEF WritebackRead
  <2> HIDE DEF o
  <2> QED BY <1>1, <2>1, <2>2
<1>6. CASE RollbackCheck(q, p)
  <2>1. PICK c \in Contents : \/ Begins(q, [Idle EXCEPT !.kind = "rollback", !.phase = "replacing",
                                   !.p = p, !.content = c, !.before = Text(file)])
                              \/ UNCHANGED <<op, ledger>>
    BY <1>6 DEF RollbackCheck, BeforeFound
  <2> DEFINE o == [Idle EXCEPT !.kind = "rollback", !.phase = "replacing", !.p = p,
                               !.content = c, !.before = Text(file)]
  <2>2. o.phase = "replacing" /\ o.before = Text(file)
    BY DEF Idle
  <2>3. Begins(q, o) \/ UNCHANGED <<op, ledger>>
    BY <2>1
  <2> HIDE DEF o
  <2> QED BY <1>0, <1>2, <2>2, <2>3, SerialBegin DEF Unrecorded
<1> QED BY <1>3, <1>4, <1>5, <1>6

\* An operation that ends, or a crash, away from an unrecorded replacement.
LEMMA SerialEnd ==
  ASSUME FileInv, SerialInv, NEW q \in Procs, op[q] # Idle, Becomes(q, Idle),
         UNCHANGED <<file, receipts>>,
         serial' => UNCHANGED ledger /\ op[q].phase \notin Unrecorded
  PROVE  SerialInv'
<1>1. CASE ~ serial'
  BY <1>1 DEF SerialInv
<1>2. CASE serial'
  BY <1>2, SerialMove, IdleIsFounded DEF Unrecorded
<1> QED BY <1>1, <1>2

LEMMA SerialContinues ==
  ASSUME FileInv, SerialInv, NEW q \in Procs,
         \/ ProposeCommit(q) \/ ApproveCommit(q) \/ WritebackCheck(q) \/ ReplaceFails(q)
         \/ Crash(q)
  PROVE  SerialInv'
<1>0. UNCHANGED <<file, receipts>> /\ op[q] # Idle
  BY IdleIsFounded DEF ProposeCommit, ApproveCommit, WritebackCheck, ReplaceFails, Crash
<1>1. CASE ProposeCommit(q) \/ ReplaceFails(q)
  <2>1. op[q].phase \notin Unrecorded
    BY <1>1 DEF ProposeCommit, ReplaceFails, FileInv, OpsFounded, Founded, Unrecorded
  <2> QED BY <1>0, <1>1, <2>1, SerialEnd DEF ProposeCommit, ReplaceFails, Goes, Becomes
<1>2. CASE ApproveCommit(q)
  <2>1. op[q].phase \notin Unrecorded
    BY <1>2 DEF ApproveCommit, FileInv, OpsFounded, Founded
  <2> QED BY <1>0, <1>2, <2>1, SerialEnd DEF ApproveCommit, Goes, Becomes
<1>3. CASE Crash(q)
  <2>1. Becomes(q, Idle) /\ (serial' => UNCHANGED ledger /\ op[q].phase \notin Unrecorded)
    BY <1>3 DEF Crash, Breaks, StaysSerial, Becomes, Unrecorded
  <2> QED BY <1>0, <2>1, SerialEnd
<1>4. CASE WritebackCheck(q)
  <2>0. op[q].phase = "deciding" /\ op[q].phase \notin Unrecorded
    BY <1>4 DEF WritebackCheck, Unrecorded
  <2>1. op[q] \in Under
    BY <2>0, UnderWay
  <2> DEFINE o == [op[q] EXCEPT !.phase = "replacing", !.before = Text(file)]
  <2>2. o.phase = "replacing" /\ o.before = Text(file)
    BY <2>1 DEF Under
  <2>3. Goes(q, o) \/ Goes(q, Idle)
    BY <1>4 DEF WritebackCheck, BeforeFound
  <2> HIDE DEF o
  <2>4. CASE Goes(q, o)
    BY <1>0, <2>0, <2>2, <2>4, SerialMove DEF Goes, Becomes, Unrecorded
  <2>5. CASE Goes(q, Idle)
    BY <1>0, <2>0, <2>5, SerialEnd DEF Goes, Becomes
  <2> QED BY <2>3, <2>4, <2>5
<1> QED BY <1>1, <1>2, <1>3, <1>4

LEMMA NextKeepsSerialInv ==
  ASSUME FileInv, SerialInv, FixtureAssumption, [Next]_vars PROVE SerialInv'
<1>1. ASSUME NEW q \in Procs, NEW p \in Proposals, Tombstone(q, p) \/ WritebackRefused(q, p)
      PROVE  SerialInv'
  <2>1. UNCHANGED <<file, op, receipts>> /\ (serial' => UNCHANGED ledger)
    BY <1>1 DEF Tombstone, WritebackRefused, StaysSerial, ledger
  <2> QED BY <2>1, SerialStill
<1>2. CASE UNCHANGED vars
  BY <1>2, SerialStill DEF vars, ledger
<1>3. ASSUME NEW q \in Procs, Step(q) PROVE SerialInv'
  BY <1>1, <1>3, SerialBegins, SerialContinues, SerialReplace, SerialReadBack, SerialRecord
     DEF Step
<1> QED BY <1>2, <1>3, SerialEdit DEF Next

LEMMA InitSerialInv == ASSUME Init PROVE SerialInv
<1>1. Alone
  BY DEF Init, Alone
<1>2. Len(receipts) = 0 /\ trail = 0 /\ owner = file
  BY DEF Init
<1>3. Chained /\ Text(file) = LastKnown
  BY <1>2 DEF Chained, LastKnown, Predecessor
<1>4. \A q \in Procs : op[q] = Idle
  BY DEF Init
<1>5. Explained
  BY <1>3, <1>4, IdleIsFounded DEF Explained, Explains, Unrecorded
<1> QED BY <1>1, <1>3, <1>5 DEF SerialInv

\* Operations that did not overlap leave receipts from which the file follows,
\* for any number of them, of dry runs, denials, failures and crashes between.
THEOREM ReceiptsExplainTheFile == Spec => []ReceiptsExplainFile
<1>1. Init => SerialInv
  BY InitSerialInv
<1>2. FileInv /\ SerialInv /\ [Next]_vars => SerialInv'
  BY NextKeepsSerialInv, FixtureAssumption
<1>3. SerialInv => ReceiptsExplainFile
  BY DEF SerialInv, ReceiptsExplainFile, Chained, Explained, LastKnown, Unrecorded
<1> QED BY <1>1, <1>2, <1>3, FileInvariant, PTL DEF Spec

=============================================================================
