-------------------------- MODULE FixtureWriteback --------------------------
(***************************************************************************)
(* The policy guard's writeback of one Markdown file of a fixture root     *)
(* (policy_guard.py): proposals, their approval, the replacement of the    *)
(* file with its read-back and receipt, rollback and tombstone.  Each      *)
(* operation is a command of its own process, with a connection of its own *)
(* that commits as it goes; nothing locks the file or the proposal between *)
(* an operation's reads and its writes.                                    *)
(*                                                                         *)
(* A content stands for itself and for its hash.  The validation of the    *)
(* root is left out (a root that fails it changes nothing); authorization, *)
(* an argument or a marker file that its owner may edit at any time, is    *)
(* represented by what its validation returns.  Audit events that record   *)
(* no replacement of the file are left out.                                *)
(***************************************************************************)
EXTENDS Integers, Sequences

CONSTANTS
  Proposals, Procs,
  Contents,      \* what a file holds
  Empty,         \* the content of an empty file
  Missing,       \* no file
  NoHash,        \* an expected hash that is not given
  NoProposal, NoContent,
  BodyOf,        \* the content a proposal proposes
  File,          \* the policy target of a new proposal: the file
  PendingRoot,   \* TRUE: the root is the one that accepts proposals to be approved later
  MaxReceipts,   \* bound: mutation receipts
  MaxEdits       \* bound: edits by the owner of the file

ASSUME FixtureAssumption ==
  /\ Empty \in Contents /\ Missing \notin Contents /\ NoHash \notin Contents
  /\ NoProposal \notin Proposals /\ NoContent \notin Contents
  /\ BodyOf \in [Proposals -> Contents]
  /\ PendingRoot \in BOOLEAN
  /\ MaxReceipts \in Nat /\ MaxEdits \in Nat

VARIABLES
  file,          \* the file
  status,        \* memory_proposals.status
  expected,      \* the before hash that a proposal names
  decisions,     \* policy_decisions: the targets that need an approval
  receipts,      \* the receipts of replacements, in the order of their commits
  op,            \* what each process is doing
  edits,         \* edits by the owner so far
  owner,         \* history: what the owner put into the file last
  trail,         \* history: the receipts that precede the owner's last edit
  serial         \* history: no operation has overlapped another or died half done;
                 \* owner and trail are kept while it is TRUE

vars == <<file, status, expected, decisions, receipts, op, edits, owner, trail, serial>>
ledger == <<owner, trail, serial>>

Statuses == {"none", "proposed", "approved", "written", "rolled_back", "tombstoned"}
Kinds == {"propose", "approve", "write", "rollback"}
Auths == {"granted", "missing", "refused"}

Idle == [kind |-> "idle", phase |-> "idle", p |-> NoProposal, content |-> NoContent,
         before |-> NoContent, ok |-> FALSE]

Ops == [kind : Kinds, phase : {"deciding", "replacing", "verifying", "recording"},
        p : Proposals, content : Contents \cup {NoContent},
        before : Contents \cup {NoContent, NoHash}, ok : BOOLEAN] \cup {Idle}

Receipts == [kind : {"written", "rollback"}, p : Proposals, before : Contents,
             after : Contents \cup {NoContent}]

FixtureTypeOK ==
  /\ file \in Contents \cup {Missing}
  /\ status \in [Proposals -> Statuses]
  /\ expected \in [Proposals -> Contents \cup {NoHash}]
  /\ decisions \subseteq Proposals \cup {File}
  /\ receipts \in Seq(Receipts)
  /\ op \in [Procs -> Ops]
  /\ edits \in 0..MaxEdits
  /\ owner \in Contents \cup {Missing}
  /\ trail \in 0..Len(receipts)
  /\ serial \in BOOLEAN

\* Mutant: a missing file has no text.
TextOrNone(f) == f

\* The text read from a file: a missing one reads as an empty one.
Text(f) == IF f = Missing THEN Empty ELSE f

\* The snapshot a proposal is made against has no hash for a missing file.
SnapshotHash(f) == IF f = Missing THEN NoHash ELSE f

Init ==
  /\ file \in Contents \cup {Missing}
  /\ status = [p \in Proposals |-> "none"]
  /\ expected = [p \in Proposals |-> NoHash]
  /\ decisions = {}
  /\ receipts = <<>>
  /\ op = [q \in Procs |-> Idle]
  /\ edits = 0
  /\ owner = file
  /\ trail = 0
  /\ serial = TRUE

Others(q) == {r \in Procs \ {q} : op[r] # Idle}

StaysSerial(cond) ==
  IF serial /\ cond THEN UNCHANGED ledger
  ELSE serial' = FALSE /\ owner' = Missing /\ trail' = 0

Begins(q, o) == op' = [op EXCEPT ![q] = o] /\ StaysSerial(Others(q) = {})

Goes(q, o) == op' = [op EXCEPT ![q] = o] /\ UNCHANGED ledger

\* A process stops without having recorded what it did.
Breaks(q) ==
  /\ op' = [op EXCEPT ![q] = Idle]
  /\ StaysSerial(op[q].phase \notin {"verifying", "recording"})

----------------------------------------------------------------------------
(* Proposals *)

\* What authorization lets a proposal through: without one, only in the root
\* whose proposals wait for an approval.
MayPropose(auth) == auth = "granted" \/ (auth = "missing" /\ PendingRoot)

\* The file is read, and the policy decision is committed before the proposal.
\* A decision id is the same within a second: a second one is not inserted.
ProposeRead(q, p) ==
  /\ op[q] = Idle
  /\ status[p] = "none"
  /\ decisions' = decisions \cup {File}
  /\ \E auth \in Auths :
       IF MayPropose(auth)
       THEN Begins(q, [Idle EXCEPT !.kind = "propose", !.phase = "deciding", !.p = p,
                                   !.before = SnapshotHash(file)])
       ELSE UNCHANGED <<op, ledger>>
  /\ UNCHANGED <<file, status, expected, receipts, edits>>

ProposeCommit(q) ==
  LET p == op[q].p
  IN /\ op[q].kind = "propose"
     /\ status[p] = "none"     \* a second proposal of the same text has an id of its own
     /\ status' = [status EXCEPT ![p] = "proposed"]
     /\ expected' = [expected EXCEPT ![p] = op[q].before]
     /\ Goes(q, Idle)
     /\ UNCHANGED <<file, decisions, receipts, edits>>

\* Mutant: a withdrawn proposal can be approved again.
ApprovableAgain == {"proposed", "edited", "rolled_back"}

\* A proposal becomes edited by a review of curation, which is left out.
Approvable == {"proposed", "edited"}

ApproveRead(q, p) ==
  /\ op[q] = Idle
  /\ status[p] \in Approvable
  /\ Begins(q, [Idle EXCEPT !.kind = "approve", !.phase = "deciding", !.p = p])
  /\ UNCHANGED <<file, status, expected, decisions, receipts, edits>>

\* The update does not look at the status again.
ApproveCommit(q) ==
  /\ op[q].kind = "approve"
  /\ status' = [status EXCEPT ![op[q].p] = "approved"]
  /\ Goes(q, Idle)
  /\ UNCHANGED <<file, expected, decisions, receipts, edits>>

Tombstone(q, p) ==
  /\ op[q] = Idle
  /\ status[p] # "none"
  /\ status' = [status EXCEPT ![p] = "tombstoned"]
  /\ StaysSerial(Others(q) = {})
  /\ UNCHANGED <<file, expected, decisions, receipts, op, edits>>

----------------------------------------------------------------------------
(* The replacement of the file *)

WritebackRefused(q, p) ==
  /\ op[q] = Idle
  /\ status[p] \notin {"none", "approved"}
  /\ decisions' = decisions \cup {p}
  /\ UNCHANGED <<file, status, expected, receipts, op, ledger, edits>>

WritebackRead(q, p) ==
  /\ op[q] = Idle
  /\ status[p] = "approved"
  /\ Begins(q, [Idle EXCEPT !.kind = "write", !.phase = "deciding", !.p = p,
                            !.content = BodyOf[p]])
  /\ UNCHANGED <<file, status, expected, decisions, receipts, edits>>

\* An authorized write must name the content it replaces; an approved one
\* without a marker may leave it out.
WritePermitted(auth, hash) ==
  /\ auth # "refused"
  /\ auth = "granted" => hash # NoHash
  /\ hash # NoHash => hash = Text(file)

\* Mutant: the receipt's before hash is the one the proposal was made against.
ProposedBefore(q, hash) == IF hash = NoHash THEN Empty ELSE hash

\* The content that the operation finds, which its receipt will name.
BeforeFound(q, hash) == Text(file)

WritebackCheck(q) ==
  /\ op[q].kind = "write" /\ op[q].phase = "deciding"
  /\ \E auth \in Auths, hash \in {NoHash, expected[op[q].p]} :
       Goes(q, IF WritePermitted(auth, hash)
               THEN [op[q] EXCEPT !.phase = "replacing", !.before = BeforeFound(q, hash)]
               ELSE Idle)
  /\ UNCHANGED <<file, status, expected, decisions, receipts, edits>>

\* A rollback reads no status: it puts the given content in place of the
\* current one, whose hash the caller may name, for any proposal id.
RollbackCheck(q, p) ==
  /\ op[q] = Idle
  /\ \E auth \in Auths, hash \in {NoHash, Text(file)}, c \in Contents :
       IF auth # "refused"
       THEN Begins(q, [Idle EXCEPT !.kind = "rollback", !.phase = "replacing", !.p = p,
                                   !.content = c, !.before = BeforeFound(q, hash)])
       ELSE UNCHANGED <<op, ledger>>
  /\ UNCHANGED <<file, status, expected, decisions, receipts, edits>>

\* A temporary file is written, synced and renamed over the target.
Replace(q) ==
  /\ op[q].phase = "replacing"
  /\ file' = op[q].content
  /\ Goes(q, [op[q] EXCEPT !.phase = "verifying"])
  /\ UNCHANGED <<status, expected, decisions, receipts, edits>>

\* The temporary file cannot be written: it is removed and the error raised.
ReplaceFails(q) ==
  /\ op[q].phase = "replacing"
  /\ Goes(q, Idle)
  /\ UNCHANGED <<file, status, expected, decisions, receipts, edits>>

ReadBack(q) ==
  /\ op[q].phase = "verifying"
  /\ IF file = Missing THEN Breaks(q)
     ELSE Goes(q, [op[q] EXCEPT !.phase = "recording", !.ok = (file = op[q].content),
                                !.content = file])
  /\ UNCHANGED <<file, status, expected, decisions, receipts, edits>>

Receipt(q, kind) == [kind |-> kind, p |-> op[q].p, before |-> op[q].before,
                     after |-> op[q].content]

RecordWrite(q) ==
  LET p == op[q].p
  IN /\ op[q].kind = "write" /\ op[q].phase = "recording"
     /\ status' = [status EXCEPT ![p] = IF op[q].ok THEN "written" ELSE @]
     /\ receipts' = Append(receipts, Receipt(q, "written"))
     /\ Goes(q, Idle)
     /\ UNCHANGED <<file, expected, decisions, edits>>

\* A rollback of a proposal that does not exist updates no row.
RecordRollback(q) ==
  LET p == op[q].p
  IN /\ op[q].kind = "rollback" /\ op[q].phase = "recording"
     /\ status' = [status EXCEPT ![p] = IF @ = "none" THEN @ ELSE "rolled_back"]
     /\ receipts' = Append(receipts, Receipt(q, "rollback"))
     /\ Goes(q, Idle)
     /\ UNCHANGED <<file, expected, decisions, edits>>

----------------------------------------------------------------------------
(* The environment *)

\* The owner of the file edits or removes it.
Edit ==
  /\ edits < MaxEdits    \* bound
  /\ edits' = edits + 1
  /\ \E c \in Contents \cup {Missing} :
       /\ file' = c
       /\ IF serial /\ \A q \in Procs : op[q] = Idle
          THEN owner' = c /\ trail' = Len(receipts) /\ UNCHANGED serial
          ELSE StaysSerial(FALSE)
  /\ UNCHANGED <<status, expected, decisions, receipts, op>>

Crash(q) ==
  /\ op[q] # Idle
  /\ Breaks(q)
  /\ UNCHANGED <<file, status, expected, decisions, receipts, edits>>

Bounded == Len(receipts) < MaxReceipts

Step(q) ==
  \/ \E p \in Proposals :
       \/ ProposeRead(q, p) \/ ApproveRead(q, p) \/ Tombstone(q, p)
       \/ WritebackRefused(q, p) \/ WritebackRead(q, p)
       \/ Bounded /\ RollbackCheck(q, p)
  \/ ProposeCommit(q) \/ ApproveCommit(q) \/ WritebackCheck(q)
  \/ Replace(q) \/ ReplaceFails(q) \/ ReadBack(q)
  \/ Bounded /\ RecordWrite(q)
  \/ Bounded /\ RecordRollback(q)
  \/ Crash(q)

Next == Edit \/ \E q \in Procs : Step(q)

Spec == Init /\ [][Next]_vars

----------------------------------------------------------------------------
(* Properties *)

Withdrawn(p) == status[p] \in {"rolled_back", "tombstoned"}

\* No operation that has found p approvable or approved is still under way.
Quiet(p) == \A q \in Procs : op[q].p = p => op[q].kind \notin {"approve", "write"}

\* A proposal that was rolled back or tombstoned while no operation on it was
\* under way is never approved or written again, although rollback, tombstone
\* and the final updates of approval and writeback set the status unread.
WithdrawnStaysWithdrawn ==
  \A p \in Proposals : [](Withdrawn(p) /\ Quiet(p) => []Withdrawn(p))

\* What the receipt i says was in the file before it.
Predecessor(i) == IF i = trail + 1 THEN Text(owner) ELSE receipts[i - 1].after

\* Operations that ran one after the other leave receipts that chain: each
\* names the content that its predecessor, or the owner, had left, and the last
\* one names what the file holds.  A dry run, denial, failed replacement or
\* crash before the replacement leaves no receipt and no change.
ReceiptsExplainFile ==
  serial =>
    /\ \A i \in (trail + 1)..Len(receipts) : receipts[i].before = Predecessor(i)
    /\ (\A q \in Procs : op[q].phase \notin {"verifying", "recording"}) =>
          Text(file) = Predecessor(Len(receipts) + 1)
=============================================================================
