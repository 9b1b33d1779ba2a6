---------------------------- MODULE StoreProofs ----------------------------
(***************************************************************************)
(* Proofs about MemoryLifecycle and about Worker, which extends it, for    *)
(* any number of proposals, sessions, contents, versions, seconds, workers *)
(* and attempts: of the store (types, current versions, index), of the     *)
(* canonical history (it is what was approved, an unbroken chain, and only *)
(* grows), of the lifecycle events, which account for the store when hosts *)
(* roll back after an error, and of the worker (types, one verdict and one *)
(* receipt of a job, and that worker and store implement PromotionLedger). *)
(*                                                                         *)
(* Type correctness is not inductive: whether UpdateMemory indexes a       *)
(* version that exists depends on the current version of every stored      *)
(* memory existing, in the open transaction as well as on disk, and on a   *)
(* pending rollback naming a version that exists.  StoreInv adds these.    *)
(*                                                                         *)
(* The worker's invariant adds to the types and to OneVerdictPerJob that   *)
(* an invocation that is promoting or failing has a job and an attempt.    *)
(* What makes a receipt the only one is then that its job is running,      *)
(* which Owns shows inside the transaction that settles it.                *)
(***************************************************************************)
EXTENDS Worker, FiniteSetTheorems, WellFoundedInduction, TLAPS

Stored(m) == \E v \in Versions : versions[m][v] # NoRow

\* An image d of the memories table and its index agrees with the versions.
Sound(d) ==
  \A m \in Proposals :
    IF d.status[m] = "absent"
    THEN d.current[m] = 0 /\ d.index[m] = {} /\ ~ Stored(m)
    ELSE /\ d.current[m] \in Versions
         /\ versions[m][d.current[m]] # NoRow
         /\ d.index[m] = IF d.status[m] \in Unindexed THEN {} ELSE {d.current[m]}

\* What a session has read stays true: versions are never deleted.
PendingFounded ==
  \A s \in Sessions :
    pc[s] # NoRead =>
      IF pc[s].op = "tombstone" THEN Stored(pc[s].mem)
      ELSE pc[s].version \in Versions /\ versions[pc[s].mem][pc[s].version] # NoRow

StoreInv == TypeOK /\ Sound(db) /\ Sound(disk) /\ PendingFounded

\* An UPDATE of a memories row keeps the image sound when it names a version
\* that exists.
LEMMA UpdateKeepsSound ==
  ASSUME TypeOK, NEW d \in Image, Sound(d), NEW m \in Proposals,
         NEW st \in MemoryStatuses \ {"absent"},
         NEW v \in Versions, versions[m][v] # NoRow
  PROVE  UpdateMemory(d, m, st, v) \in Image /\ Sound(UpdateMemory(d, m, st, v))
<1> DEFINE i == IF st \notin Unindexed THEN {v} ELSE {}
           e == [status |-> [d.status EXCEPT ![m] = st],
                 current |-> [d.current EXCEPT ![m] = v],
                 index |-> [d.index EXCEPT ![m] = i]]
<1>1. UpdateMemory(d, m, st, v) = e
  BY DEF UpdateMemory
<1>2. /\ d.status \in [Proposals -> MemoryStatuses]
      /\ d.current \in [Proposals -> 0..MaxVersion]
      /\ d.index \in [Proposals -> SUBSET Versions]
  BY DEF Image
<1>3. i \in SUBSET Versions /\ v \in 0..MaxVersion
  BY DEF Versions
<1>4. e \in Image
  BY <1>2, <1>3 DEF Image
<1>5. Sound(e)
  BY <1>2 DEF Sound
<1> QED BY <1>1, <1>4, <1>5

\* A pending tombstone or rollback names a memory and a version that exist.
LEMMA PendKeepsSound ==
  ASSUME StoreInv, ConstantsAssumption, NEW s \in Sessions, pc[s] # NoRead
  PROVE  Pend(pc[s]) \in Image /\ Sound(Pend(pc[s]))
<1> DEFINE q == pc[s]
           v == IF q.op = "tombstone" THEN db.current[q.mem] ELSE q.version
<1>1. q \in Pending /\ db \in Image
  BY DEF StoreInv, TypeOK
<1>2. q.mem \in Proposals /\ StatusAfter(q.op) \in MemoryStatuses \ {"absent"}
  BY <1>1 DEF Pending, StatusAfter, MemoryStatuses
<1>3. v \in Versions /\ versions[q.mem][v] # NoRow
  BY <1>1, <1>2 DEF StoreInv, PendingFounded, Sound, Stored
<1>4. Pend(q) = UpdateMemory(db, q.mem, StatusAfter(q.op), v)
  BY DEF Pend
<1> HIDE DEF q, v
<1>5. Pend(q) \in Image /\ Sound(Pend(q))
  BY <1>1, <1>2, <1>3, <1>4, UpdateKeepsSound DEF StoreInv
<1> QED BY <1>5 DEF q

----------------------------------------------------------------------------
(* StoreInv is inductive: one lemma per kind of step *)

LEMMA InitStoreInv == ASSUME ConstantsAssumption, Init PROVE StoreInv
<1>1. EmptyImage \in Image /\ Sound(EmptyImage)
  BY DEF Init, EmptyImage, Image, Sound, Stored, MemoryStatuses, ConstantsAssumption
<1>2. TypeOK
  BY <1>1 DEF Init, TypeOK, ConstantsAssumption, ProposalStatuses, Seconds
<1> QED BY <1>1, <1>2 DEF Init, StoreInv, PendingFounded

ImagesSound == db \in Image /\ disk \in Image /\ Sound(db) /\ Sound(disk)

\* Committing a sound image, or leaving it in an open transaction, keeps both
\* images sound as long as no version is stored.
LEMMA CommitKeepsSound ==
  ASSUME NEW d \in Image, Sound(d), Commit(d), UNCHANGED versions
  PROVE  ImagesSound' /\ writer' \in Sessions \cup {NoSession}
BY DEF ImagesSound, Commit, Sound, Stored

LEMMA LeaveOpenKeepsSound ==
  ASSUME NEW d \in Image, Sound(d), ImagesSound, NEW s \in Sessions, LeaveOpen(s, d),
         UNCHANGED versions
  PROVE  ImagesSound' /\ writer' \in Sessions \cup {NoSession}
BY DEF ImagesSound, LeaveOpen, Sound, Stored

\* What is left to show of a step that stores no version.
LEMMA SameVersionsStep ==
  ASSUME StoreInv, UNCHANGED versions, ImagesSound',
         writer' \in Sessions \cup {NoSession},
         proposal' \in [Proposals -> [status : ProposalStatuses, content : Contents,
                                      signed : SUBSET Contents]],
         lifecycle' \in [Proposals -> Seq(Event)],
         pc' \in [Sessions -> Pending \cup {NoRead}],
         \A s \in Sessions : pc'[s] # NoRead /\ pc'[s] # pc[s] =>
            IF pc'[s].op = "tombstone" THEN Stored(pc'[s].mem)
            ELSE pc'[s].version \in Versions /\ versions[pc'[s].mem][pc'[s].version] # NoRow,
         now' \in Seconds
  PROVE  StoreInv'
<1>1. TypeOK'
  BY DEF StoreInv, TypeOK, ImagesSound
<1>2. ASSUME NEW s \in Sessions, pc'[s] # NoRead
      PROVE  (IF pc[s].op = "tombstone" THEN Stored(pc[s].mem)
              ELSE pc[s].version \in Versions /\ versions[pc[s].mem][pc[s].version] # NoRow)'
  <2>1. CASE pc'[s] = pc[s]
    BY <1>2, <2>1 DEF StoreInv, PendingFounded, Stored
  <2>2. CASE pc'[s] # pc[s]
    BY <1>2, <2>2 DEF Stored
  <2> QED BY <2>1, <2>2
<1>3. PendingFounded'
  BY <1>2 DEF PendingFounded
<1> QED BY <1>1, <1>3 DEF StoreInv, ImagesSound

LEMMA EditIsTyped ==
  ASSUME TypeOK, NEW s \in Sessions, NEW p \in Proposals, NEW c \in Contents, Edit(s, p, c)
  PROVE  proposal' \in [Proposals -> [status : ProposalStatuses, content : Contents,
                                      signed : SUBSET Contents]]
BY DEF TypeOK, ProposalStatuses, Edit

\* Create, review and edit change the proposals alone.
LEMMA ProposalKeepsStoreInv ==
  ASSUME StoreInv, ConstantsAssumption, NEW s \in Sessions, NEW p \in Proposals,
         \/ CreateProposal(s, p) \/ Approve(s, p) \/ Reject(s, p)
         \/ \E c \in Contents : Edit(s, p, c)
  PROVE  StoreInv'
<1> DEFINE Typed == [Proposals -> [status : ProposalStatuses, content : Contents,
                                   signed : SUBSET Contents]]
<1>1. Commit(db) /\ UNCHANGED <<versions, lifecycle, pc, now>>
  BY DEF CreateProposal, Approve, Reject, Edit
<1>2. proposal' \in Typed
  <2>1. ASSUME CreateProposal(s, p) PROVE proposal' \in Typed
    BY <2>1 DEF CreateProposal, StoreInv, TypeOK, ProposalStatuses
  <2>2. ASSUME Approve(s, p) PROVE proposal' \in Typed
    BY <2>2 DEF Approve, StoreInv, TypeOK, ProposalStatuses
  <2>3. ASSUME Reject(s, p) PROVE proposal' \in Typed
    BY <2>3 DEF Reject, StoreInv, TypeOK, ProposalStatuses
  <2>4. CASE \E c \in Contents : Edit(s, p, c)
    BY <2>4, EditIsTyped DEF StoreInv
  <2> QED BY <2>1, <2>2, <2>3, <2>4
<1>3. ImagesSound' /\ writer' \in Sessions \cup {NoSession}
  BY <1>1, CommitKeepsSound DEF StoreInv, TypeOK
<1> QED BY <1>1, <1>2, <1>3, SameVersionsStep DEF StoreInv, TypeOK

LEMMA RecordIsTyped ==
  ASSUME TypeOK, NEW m \in Proposals, NEW e \in Event, Record(m, e)
  PROVE  lifecycle' \in [Proposals -> Seq(Event)]
BY DEF TypeOK, Record

\* The columns of the memories table of m in a sound image.
LEMMA ImageAt ==
  ASSUME NEW d \in Image, NEW m \in Proposals
  PROVE  d.status[m] \in MemoryStatuses /\ d.current[m] \in 0..MaxVersion
BY DEF Image

\* A successful write: the new version is the current and the indexed one.
LEMMA StoreVersionKeepsStoreInv ==
  ASSUME StoreInv, ConstantsAssumption, NEW p \in Proposals, StoreVersion(p),
         UNCHANGED <<pc, now>>
  PROVE  StoreInv'
<1> DEFINE m == MemoryOf(p)
           v == NextVersion(p)
           row == [content |-> proposal[p].content, by |-> p, prev |-> db.current[m]]
           e == [status |-> [db.status EXCEPT ![m] = "active"],
                 current |-> [db.current EXCEPT ![m] = v],
                 index |-> [db.index EXCEPT ![m] = {v}]]
<1>1. m \in Proposals /\ v \in Versions /\ versions[m][v] = NoRow
  BY DEF MemoryOf, Revises, ConstantsAssumption, StoreVersion
<1>2. db \in Image /\ Sound(db)
  BY DEF StoreInv, TypeOK
<1>3. /\ db.status \in [Proposals -> MemoryStatuses]
      /\ db.current \in [Proposals -> 0..MaxVersion]
      /\ db.index \in [Proposals -> SUBSET Versions]
  BY <1>2 DEF Image
<1>4. row \in Row
  BY <1>1, <1>3 DEF Row, StoreInv, TypeOK
<1>5. versions' = [versions EXCEPT ![m][v] = row]
  BY DEF StoreVersion
<1>6. versions' \in [Proposals -> [Versions -> Row \cup {NoRow}]]
  BY <1>1, <1>4, <1>5 DEF StoreInv, TypeOK
<1>7. /\ versions'[m][v] # NoRow
      /\ \A n \in Proposals, w \in Versions :
           n # m \/ w # v => versions'[n][w] = versions[n][w]
  BY <1>1, <1>4, <1>5, NullAssumption DEF StoreInv, TypeOK
<1> HIDE DEF row
<1>8. IndexVersion(UpdateMemory(db, m, "active", v), m, v) = e
  BY <1>1, <1>3 DEF IndexVersion, UpdateMemory, Unindexed
<1>9. e \in Image
  BY <1>1, <1>3 DEF Image, MemoryStatuses, Versions
<1>10. db' = e /\ disk' = e /\ writer' = NoSession
  BY <1>8 DEF StoreVersion, Commit
<1>11. Sound(db)'
  <2>1. /\ db'.status[m] = "active" /\ db'.current[m] = v /\ db'.index[m] = {v}
        /\ \A n \in Proposals \ {m} : /\ db'.status[n] = db.status[n]
                                      /\ db'.current[n] = db.current[n]
                                      /\ db'.index[n] = db.index[n]
    BY <1>1, <1>3, <1>10
  <2> HIDE DEF e, m, v
  <2>2. ASSUME NEW k \in Proposals
        PROVE  (IF db.status[k] = "absent"
                THEN db.current[k] = 0 /\ db.index[k] = {} /\ ~ Stored(k)
                ELSE /\ db.current[k] \in Versions
                     /\ versions[k][db.current[k]] # NoRow
                     /\ db.index[k] = IF db.status[k] \in Unindexed THEN {}
                                      ELSE {db.current[k]})'
    <3>1. CASE k = m
      BY <1>1, <1>7, <2>1, <3>1 DEF Unindexed
    <3>2. CASE k # m
      <4>1. Stored(k)' <=> Stored(k)
        BY <1>1, <1>7, <3>2 DEF Stored
      <4>2. /\ db'.status[k] = db.status[k]
            /\ db'.current[k] = db.current[k]
            /\ db'.index[k] = db.index[k]
        BY <2>1, <3>2
      <4>3. \A w \in Versions : versions'[k][w] = versions[k][w]
        BY <1>7, <3>2
      <4> QED BY <1>2, <4>1, <4>2, <4>3 DEF Sound, Unindexed
    <3> QED BY <3>1, <3>2
  <2> QED BY <2>2 DEF Sound
<1>12. lifecycle' \in [Proposals -> Seq(Event)]
  <2>1. NewEvent("write", v, db.status[m], "active", now) \in Event
    BY <1>1, <1>3 DEF NewEvent, Event, Versions, MemoryStatuses, StoreInv, TypeOK
  <2> QED BY <1>1, <2>1, RecordIsTyped DEF StoreVersion, StoreInv
<1>13. TypeOK'
  <2>1. proposal' \in [Proposals -> [status : ProposalStatuses, content : Contents,
                                     signed : SUBSET Contents]]
    BY DEF StoreVersion, StoreInv, TypeOK, ProposalStatuses
  <2> QED BY <1>6, <1>9, <1>10, <1>12, <2>1 DEF StoreInv, TypeOK
<1>14. Sound(disk)'
  BY <1>10, <1>11 DEF Sound, Stored
<1>15. PendingFounded'
  <2>1. \A n \in Proposals, w \in Versions : versions[n][w] # NoRow => versions'[n][w] # NoRow
    BY <1>1, <1>7
  <2>2. \A n \in Proposals : Stored(n) => Stored(n)'
    BY <2>1 DEF Stored
  <2>3. \A s \in Sessions : pc[s] # NoRead => pc[s].mem \in Proposals
    BY DEF StoreInv, TypeOK, Pending
  <2> QED BY <2>1, <2>2, <2>3 DEF StoreInv, PendingFounded
<1> QED BY <1>11, <1>13, <1>14, <1>15 DEF StoreInv

\* A write that fails on an existing version leaves a sound image open.
LEMMA WriteCollidesKeepsStoreInv ==
  ASSUME StoreInv, ConstantsAssumption, NEW s \in Sessions, NEW p \in Proposals,
         WriteCollides(s, p)
  PROVE  StoreInv'
<1> DEFINE m == MemoryOf(p)
           v == NextVersion(p)
<1>1. m \in Proposals /\ v \in Versions /\ versions[m][v] # NoRow
  BY DEF MemoryOf, Revises, ConstantsAssumption, WriteCollides, VersionTaken
<1>2. "active" \in MemoryStatuses \ {"absent"}
  BY DEF MemoryStatuses
<1>3. LeaveOpen(s, UpdateMemory(db, m, "active", v))
      /\ UNCHANGED <<proposal, versions, lifecycle, pc, now>>
  BY DEF WriteCollides
<1> HIDE DEF m, v
<1>4. UpdateMemory(db, m, "active", v) \in Image /\ Sound(UpdateMemory(db, m, "active", v))
  BY <1>1, <1>2, UpdateKeepsSound DEF StoreInv, TypeOK
<1>5. ImagesSound' /\ writer' \in Sessions \cup {NoSession}
  BY <1>3, <1>4, LeaveOpenKeepsSound DEF StoreInv, TypeOK, ImagesSound
<1> QED BY <1>3, <1>5, SameVersionsStep DEF StoreInv, TypeOK

\* A read records a memory, or a version, that exists.
LEMMA ReadKeepsStoreInv ==
  ASSUME StoreInv, ConstantsAssumption, NEW s \in Sessions, NEW m \in Proposals,
         NEW v \in Versions, TombstoneRead(s, m) \/ RollbackRead(s, m, v)
  PROVE  StoreInv'
<1> DEFINE seen == Visible(s).status[m]
<1>1. seen \in MemoryStatuses /\ (seen # "absent" => Stored(m))
  BY DEF Visible, StoreInv, TypeOK, Image, Sound, Stored
<1> HIDE DEF seen
<1>2. UNCHANGED <<proposal, versions, lifecycle, db, disk, writer, now>>
  BY DEF TombstoneRead, RollbackRead
<1>3. ImagesSound' /\ writer' \in Sessions \cup {NoSession}
  BY <1>2 DEF ImagesSound, Sound, Stored, StoreInv, TypeOK
<1>4. \E q \in Pending : /\ pc' = [pc EXCEPT ![s] = q]
                         /\ IF q.op = "tombstone" THEN Stored(q.mem)
                            ELSE q.version \in Versions /\ versions[q.mem][q.version] # NoRow
  <2>1. CASE TombstoneRead(s, m)
    <3> DEFINE q == [op |-> "tombstone", mem |-> m, version |-> 0, seen |-> seen]
    <3>1. q \in Pending
      BY <1>1, ConstantsAssumption DEF Pending, ConstantsAssumption
    <3> QED BY <1>1, <2>1, <3>1 DEF TombstoneRead, seen
  <2>2. CASE RollbackRead(s, m, v)
    <3> DEFINE q == [op |-> "rollback", mem |-> m, version |-> v, seen |-> seen]
    <3>1. q \in Pending
      BY <1>1 DEF Pending, Versions
    <3>2. pc' = [pc EXCEPT ![s] = q] /\ versions[m][v] # NoRow
      BY <2>2 DEF RollbackRead, seen
    <3> QED BY <3>1, <3>2
  <2> QED BY <2>1, <2>2
<1>5. pc' \in [Sessions -> Pending \cup {NoRead}]
  BY <1>4 DEF StoreInv, TypeOK
<1>6. \A r \in Sessions : pc'[r] # NoRead /\ pc'[r] # pc[r] =>
        IF pc'[r].op = "tombstone" THEN Stored(pc'[r].mem)
        ELSE pc'[r].version \in Versions /\ versions[pc'[r].mem][pc'[r].version] # NoRow
  BY <1>4 DEF StoreInv, TypeOK
<1> QED BY <1>2, <1>3, <1>5, <1>6, SameVersionsStep DEF StoreInv, TypeOK

\* The second half of a tombstone or rollback.
LEMMA FinishKeepsStoreInv ==
  ASSUME StoreInv, ConstantsAssumption, NEW s \in Sessions,
         FinishPending(s) \/ PendingCollides(s)
  PROVE  StoreInv'
<1>1. pc[s] \in Pending /\ pc[s] # NoRead
  BY DEF FinishPending, PendingCollides, StoreInv, TypeOK
<1>2. Pend(pc[s]) \in Image /\ Sound(Pend(pc[s]))
  BY <1>1, PendKeepsSound
<1>3. /\ Commit(Pend(pc[s])) \/ LeaveOpen(s, Pend(pc[s]))
      /\ pc' = [pc EXCEPT ![s] = NoRead]
      /\ UNCHANGED <<proposal, versions, now>>
  BY DEF FinishPending, PendingCollides
<1>4. ImagesSound' /\ writer' \in Sessions \cup {NoSession}
  BY <1>2, <1>3, CommitKeepsSound, LeaveOpenKeepsSound DEF StoreInv, TypeOK, ImagesSound
<1>5. lifecycle' \in [Proposals -> Seq(Event)]
  <2>1. CASE FinishPending(s)
    <3> DEFINE q == pc[s]
               e == NewEvent(q.op, q.version, q.seen, StatusAfter(q.op), now)
    <3>1. e \in Event /\ q.mem \in Proposals
      BY <1>1 DEF NewEvent, Event, Pending, StatusAfter, MemoryStatuses, StoreInv, TypeOK
    <3>2. Record(q.mem, e)
      BY <2>1 DEF FinishPending
    <3> HIDE DEF e, q
    <3> QED BY <3>1, <3>2, RecordIsTyped DEF StoreInv
  <2>2. CASE PendingCollides(s)
    BY <2>2 DEF PendingCollides, StoreInv, TypeOK
  <2> QED BY <2>1, <2>2
<1>6. /\ pc' \in [Sessions -> Pending \cup {NoRead}]
      /\ \A r \in Sessions : pc'[r] = NoRead \/ pc'[r] = pc[r]
  BY <1>3 DEF StoreInv, TypeOK
<1> QED BY <1>3, <1>4, <1>5, <1>6, SameVersionsStep DEF StoreInv, TypeOK

LEMMA ScoredStatusIsStored ==
  ASSUME ConstantsAssumption, NEW scenario \in Scenarios,
         NEW before \in MemoryStatuses \ {"absent"}
  PROVE  ScoredStatus(scenario, before) \in MemoryStatuses \ {"absent"}
BY DEF ScoredStatus, Reweighing, MemoryStatuses, ConstantsAssumption

LEMMA ScoreKeepsStoreInv ==
  ASSUME StoreInv, ConstantsAssumption, NEW s \in Sessions, NEW m \in Proposals,
         NEW scenario \in Scenarios, NEW at \in Seconds,
         ScoreMemory(s, m, scenario, at) \/ ScoreCollides(s, m, scenario, at)
  PROVE  StoreInv'
<1> DEFINE before == db.status[m]
           after == ScoredStatus(scenario, before)
           d == UpdateMemory(db, m, after, db.current[m])
<1>1. before \in MemoryStatuses \ {"absent"}
  BY DEF ScoreMemory, ScoreCollides, StoreInv, TypeOK, Image
<1>2. after \in MemoryStatuses \ {"absent"}
  BY <1>1, ScoredStatusIsStored
<1>3. db.current[m] \in Versions /\ versions[m][db.current[m]] # NoRow
  BY <1>1 DEF StoreInv, Sound
<1>4. /\ Commit(d) \/ LeaveOpen(s, d) \/ LeaveOpen(s, db)
      /\ UNCHANGED <<proposal, versions, pc, now>>
  BY DEF ScoreMemory, ScoreCollides
<1>5. lifecycle' \in [Proposals -> Seq(Event)]
  <2>1. NewEvent(scenario, 0, before, after, at) \in Event
    BY <1>1, <1>2 DEF NewEvent, Event, ConstantsAssumption
  <2>2. Record(m, NewEvent(scenario, 0, before, after, at)) \/ UNCHANGED lifecycle
    BY DEF ScoreMemory, ScoreCollides
  <2> QED BY <2>1, <2>2, RecordIsTyped DEF StoreInv, TypeOK
<1> HIDE DEF after, before
<1>6. d \in Image /\ Sound(d)
  BY <1>2, <1>3, UpdateKeepsSound DEF StoreInv, TypeOK
<1> HIDE DEF d
<1>7. ImagesSound' /\ writer' \in Sessions \cup {NoSession}
  <2>1. db \in Image /\ Sound(db)
    BY DEF StoreInv, TypeOK
  <2> QED BY <1>4, <1>6, <2>1, CommitKeepsSound, LeaveOpenKeepsSound DEF StoreInv, TypeOK, ImagesSound
<1> QED BY <1>4, <1>5, <1>7, SameVersionsStep DEF StoreInv, TypeOK

\* Refusals, and what the surfaces do after an operation.
LEMMA SessionKeepsStoreInv ==
  ASSUME StoreInv, ConstantsAssumption, NEW s \in Sessions,
         Refused(s) \/ HostCommits(s) \/ HostRollsBack(s) \/ Crash(s)
  PROVE  StoreInv'
<1>1. UNCHANGED <<proposal, versions, lifecycle, now>>
  BY DEF Refused, HostCommits, HostRollsBack, Crash
<1>2. /\ pc' \in [Sessions -> Pending \cup {NoRead}]
      /\ \A r \in Sessions : pc'[r] = NoRead \/ pc'[r] = pc[r]
  BY DEF Refused, HostCommits, HostRollsBack, Crash, StoreInv, TypeOK
<1>3. \/ Commit(db) \/ Commit(disk) \/ LeaveOpen(s, db) \/ UNCHANGED <<db, disk, writer>>
  BY DEF Refused, HostCommits, HostRollsBack, Crash
<1>4. ImagesSound
  BY DEF ImagesSound, StoreInv, TypeOK
<1>5. ImagesSound' /\ writer' \in Sessions \cup {NoSession}
  <2>1. CASE UNCHANGED <<db, disk, writer>>
    BY <1>1, <2>1 DEF ImagesSound, Sound, Stored, StoreInv, TypeOK
  <2> QED BY <1>1, <1>3, <1>4, <2>1, CommitKeepsSound, LeaveOpenKeepsSound
          DEF ImagesSound
<1> QED BY <1>1, <1>2, <1>5, SameVersionsStep DEF StoreInv, TypeOK

LEMMA TickKeepsStoreInv == ASSUME StoreInv, ConstantsAssumption, Tick PROVE StoreInv'
<1>1. ImagesSound' /\ writer' \in Sessions \cup {NoSession}
  BY DEF Tick, ImagesSound, Sound, Stored, StoreInv, TypeOK
<1>2. now' \in Seconds
  BY DEF Tick, StoreInv, TypeOK, Seconds, ConstantsAssumption
<1>3. UNCHANGED <<proposal, versions, lifecycle, pc>>
  BY DEF Tick
<1> QED BY <1>1, <1>2, <1>3, SameVersionsStep DEF StoreInv, TypeOK

LEMMA NextKeepsStoreInv ==
  ASSUME StoreInv, ConstantsAssumption, [Next]_vars
  PROVE  StoreInv'
<1>1. CASE ProposalStep
  BY <1>1, ProposalKeepsStoreInv DEF ProposalStep
<1>2. CASE WriteStep
  <2>1. ASSUME NEW s \in Sessions, NEW p \in Proposals, WriteMemory(s, p)
        PROVE  StoreInv'
    BY <2>1, StoreVersionKeepsStoreInv DEF WriteMemory
  <2> QED BY <1>2, <2>1, WriteCollidesKeepsStoreInv DEF WriteStep
<1>3. CASE StatusStep
  <2> SUFFICES ASSUME NEW s \in Sessions, NEW m \in Proposals,
                      \/ TombstoneRead(s, m)
                      \/ \E v \in Versions : RollbackRead(s, m, v)
                      \/ \E scenario \in Scenarios, at \in Seconds :
                           ScoreMemory(s, m, scenario, at) \/ ScoreCollides(s, m, scenario, at)
               PROVE  StoreInv'
    BY <1>3 DEF StatusStep
  <2>1. CASE TombstoneRead(s, m)
    <3>1. CASE Versions = {}
      BY <2>1, <3>1 DEF TombstoneRead, Visible, StoreInv, TypeOK, Sound
    <3> QED BY <2>1, <3>1, ReadKeepsStoreInv
  <2>2. CASE \E v \in Versions : RollbackRead(s, m, v)
    BY <2>2, ReadKeepsStoreInv
  <2>3. CASE \E scenario \in Scenarios, at \in Seconds :
               ScoreMemory(s, m, scenario, at) \/ ScoreCollides(s, m, scenario, at)
    BY <2>3, ScoreKeepsStoreInv
  <2> QED BY <2>1, <2>2, <2>3
<1>4. CASE SessionStep
  BY <1>4, FinishKeepsStoreInv, SessionKeepsStoreInv DEF SessionStep
<1>5. CASE Tick
  BY <1>5, TickKeepsStoreInv
<1>6. CASE UNCHANGED vars
  BY <1>6 DEF vars, StoreInv, TypeOK, Sound, Stored, PendingFounded
<1> QED BY <1>1, <1>2, <1>3, <1>4, <1>5, <1>6 DEF Next

THEOREM StoreInvariant == Spec => []StoreInv
<1>1. Init => StoreInv
  BY InitStoreInv, ConstantsAssumption
<1>2. StoreInv /\ [Next]_vars => StoreInv'
  BY NextKeepsStoreInv, ConstantsAssumption
<1> QED BY <1>1, <1>2, PTL DEF Spec

----------------------------------------------------------------------------
(* What follows from StoreInv *)

\* The state of the store keeps its types, for every size of the system: in
\* particular no operation indexes or makes current a version out of range.
THEOREM TypeCorrect == Spec => []TypeOK
<1>1. StoreInv => TypeOK
  BY DEF StoreInv
<1> QED BY <1>1, StoreInvariant, PTL

\* Every stored memory has its current version, in what is committed and in
\* what a failed write leaves open.
THEOREM CurrentVersionStored == Spec => []CurrentVersionExists
<1>1. StoreInv => CurrentVersionExists
  BY DEF StoreInv, Sound, CurrentVersionExists
<1> QED BY <1>1, StoreInvariant, PTL

\* The FTS triggers keep one row for each memory that may be searched and none
\* for the others, whatever order the writes come in.
THEOREM IndexIsExact == Spec => []IndexMirrorsStore
<1>1. StoreInv => IndexMirrorsStore
  <2> SUFFICES ASSUME StoreInv, NEW d \in {db, disk}, NEW m \in Proposals
               PROVE  d.index[m] = IF d.status[m] \in Unindexed THEN {} ELSE {d.current[m]}
    BY DEF IndexMirrorsStore
  <2>1. Sound(d)
    BY DEF StoreInv
  <2> QED BY <2>1 DEF Sound, Unindexed
<1> QED BY <1>1, StoreInvariant, PTL

----------------------------------------------------------------------------
(* The canonical history *)

\* How a step changes the versions and the proposals: it stores a version, or
\* it leaves the versions alone and does not write a proposal.
SomethingStored == \E p \in Proposals : StoreVersion(p)
NothingStored ==
  /\ UNCHANGED versions
  /\ \A p \in Proposals :
       \/ proposal'[p] = proposal[p]
       \/ /\ proposal[p].status \notin {"rejected", "written"}
          /\ proposal'[p].status # "written"
          /\ proposal'[p].status = "approved" => proposal'[p].signed = {proposal'[p].content}

LEMMA StepStoresOrNot ==
  ASSUME TypeOK, [Next]_vars
  PROVE  SomethingStored \/ NothingStored
<1>1. CASE ProposalStep
  <2>1. ASSUME NEW s \in Sessions, NEW p \in Proposals, CreateProposal(s, p)
        PROVE  NothingStored
    BY <2>1 DEF CreateProposal, NothingStored, TypeOK
  <2>2. ASSUME NEW s \in Sessions, NEW p \in Proposals, Approve(s, p)
        PROVE  NothingStored
    BY <2>2 DEF Approve, NothingStored, TypeOK, Open
  <2>3. ASSUME NEW s \in Sessions, NEW p \in Proposals, Reject(s, p)
        PROVE  NothingStored
    BY <2>3 DEF Reject, NothingStored, TypeOK, Open
  <2>4. ASSUME NEW s \in Sessions, NEW p \in Proposals, NEW x \in Contents, Edit(s, p, x)
        PROVE  NothingStored
    BY <2>4 DEF Edit, NothingStored, TypeOK, Open
  <2> QED BY <1>1, <2>1, <2>2, <2>3, <2>4 DEF ProposalStep
<1>2. CASE WriteStep
  BY <1>2 DEF WriteStep, WriteMemory, WriteCollides, SomethingStored, NothingStored
<1>3. CASE StatusStep
  BY <1>3 DEF StatusStep, TombstoneRead, RollbackRead, ScoreMemory, ScoreCollides, NothingStored
<1>4. CASE SessionStep
  BY <1>4 DEF SessionStep, Refused, FinishPending, PendingCollides, HostCommits,
              HostRollsBack, Crash, NothingStored
<1>5. CASE Tick
  BY <1>5 DEF Tick, NothingStored
<1>6. CASE UNCHANGED vars
  BY <1>6 DEF vars, NothingStored
<1> QED BY <1>1, <1>2, <1>3, <1>4, <1>5, <1>6 DEF Next

\* A memory that has a version has its first one: with it, a creation that
\* finds no version 1 finds no memory.
FirstVersionFirst ==
  \A m \in Proposals, v \in Versions :
    versions[m][v] # NoRow => 1 \in Versions /\ versions[m][1] # NoRow

\* A step that writes p adds row as version v of m, after the current one.
Adds(p, m, v, row) ==
  /\ m = MemoryOf(p) /\ v = db.current[m] + 1
  /\ row.by = p /\ row.prev = v - 1 /\ row.content = proposal[p].content
  /\ proposal[p].status = "approved"
  /\ proposal' = [proposal EXCEPT ![p].status = "written"]
  /\ versions[m][v] = NoRow
  /\ versions' = [versions EXCEPT ![m][v] = row]
  /\ db.status[m] # "absent" \/ v = 1

\* What a write does to the versions and to its proposal.
LEMMA StoreVersionEffect ==
  ASSUME StoreInv, FirstVersionFirst, ConstantsAssumption,
         NEW p \in Proposals, StoreVersion(p)
  PROVE  \E m \in Proposals, v \in Versions, row \in Row : Adds(p, m, v, row)
<1> DEFINE m == MemoryOf(p)
           v == NextVersion(p)
           row == [content |-> proposal[p].content, by |-> p, prev |-> db.current[m]]
<1>1. m \in Proposals /\ v \in Versions /\ versions[m][v] = NoRow
  BY DEF MemoryOf, Revises, ConstantsAssumption, StoreVersion
<1>2. db.current[m] \in 0..MaxVersion
  BY <1>1, ImageAt DEF StoreInv, TypeOK
<1>3. v = db.current[m] + 1 /\ (db.status[m] # "absent" \/ v = 1)
  <2>1. CASE Revises(p)
    BY <2>1 DEF NextVersion, MemoryOf, StoreVersion, Writable, TargetExists
  <2>2. CASE ~ Revises(p)
    <3>1. v = 1
      BY <2>2 DEF NextVersion
    <3>2. db.current[m] = 0
      BY <1>1, <3>1 DEF StoreInv, Sound, FirstVersionFirst
    <3> QED BY <3>1, <3>2
  <2> QED BY <2>1, <2>2
<1>4. row \in Row
  BY <1>1, <1>2 DEF Row, StoreInv, TypeOK
<1>5. row.prev = v - 1
  BY <1>2, <1>3
<1>6. Adds(p, m, v, row)
  BY <1>1, <1>3, <1>5 DEF Adds, StoreVersion, Writable
<1> HIDE DEF m, v, row
<1> QED BY <1>1, <1>4, <1>6

ApprovedIsSigned ==
  \A p \in Proposals : proposal[p].status = "approved" => proposal[p].signed = {proposal[p].content}

HistoryInv ==
  /\ StoreInv
  /\ FirstVersionFirst
  /\ VersionChainUnbroken
  /\ ApprovedIsSigned
  /\ WrittenIsWhatWasApproved

LEMMA InitHistoryInv == ASSUME ConstantsAssumption, Init PROVE HistoryInv
<1>1. StoreInv
  BY InitStoreInv
<1>2. FirstVersionFirst /\ VersionChainUnbroken
  BY DEF Init, FirstVersionFirst, VersionChainUnbroken
<1>3. ApprovedIsSigned
  BY DEF Init, ApprovedIsSigned
<1>4. WrittenIsWhatWasApproved
  BY DEF Init, WrittenIsWhatWasApproved, RowsBy
<1> QED BY <1>1, <1>2, <1>3, <1>4 DEF HistoryInv

\* A step that stores nothing leaves the rows alone, and a written proposal.
LEMMA NothingStoredKeepsHistory ==
  ASSUME HistoryInv, ConstantsAssumption, NothingStored
  PROVE  FirstVersionFirst' /\ VersionChainUnbroken' /\ ApprovedIsSigned'
         /\ WrittenIsWhatWasApproved'
<1>1. FirstVersionFirst' /\ VersionChainUnbroken'
  BY DEF HistoryInv, NothingStored, FirstVersionFirst, VersionChainUnbroken
<1>2. ApprovedIsSigned'
  BY DEF HistoryInv, NothingStored, ApprovedIsSigned
<1>3. \A p \in Proposals :
        /\ RowsBy(p)' = RowsBy(p)
        /\ (proposal'[p].status = "written") <=> (proposal[p].status = "written")
        /\ proposal[p].status = "written" => proposal'[p] = proposal[p]
  BY DEF NothingStored, RowsBy
<1>4. WrittenIsWhatWasApproved'
  <2> SUFFICES ASSUME NEW p \in Proposals
               PROVE  (IF proposal[p].status = "written"
                       THEN \E r \in RowsBy(p) :
                              /\ RowsBy(p) = {r}
                              /\ r[1] = MemoryOf(p)
                              /\ {versions[r[1]][r[2]].content} = proposal[p].signed
                       ELSE RowsBy(p) = {})'
    BY DEF WrittenIsWhatWasApproved
  <2>1. CASE proposal[p].status = "written"
    <3>1. PICK r \in RowsBy(p) : /\ RowsBy(p) = {r}
                                 /\ r[1] = MemoryOf(p)
                                 /\ {versions[r[1]][r[2]].content} = proposal[p].signed
      BY <2>1 DEF HistoryInv, WrittenIsWhatWasApproved
    <3> QED BY <1>3, <2>1, <3>1 DEF NothingStored, MemoryOf, Revises
  <2>2. CASE proposal[p].status # "written"
    BY <1>3, <2>2 DEF HistoryInv, WrittenIsWhatWasApproved
  <2> QED BY <2>1, <2>2
<1> QED BY <1>1, <1>2, <1>4

\* A write adds one row, to its own proposal, after the current version.
LEMMA StoreVersionKeepsHistory ==
  ASSUME HistoryInv, ConstantsAssumption, NEW p \in Proposals, StoreVersion(p)
  PROVE  FirstVersionFirst' /\ VersionChainUnbroken' /\ ApprovedIsSigned'
         /\ WrittenIsWhatWasApproved'
<1> PICK m \in Proposals, v \in Versions, row \in Row : Adds(p, m, v, row)
  <2>1. StoreInv /\ FirstVersionFirst
    BY DEF HistoryInv
  <2> QED BY <2>1, StoreVersionEffect
<1> /\ m = MemoryOf(p) /\ v = db.current[m] + 1
    /\ row.by = p /\ row.prev = v - 1 /\ row.content = proposal[p].content
    /\ proposal[p].status = "approved"
    /\ proposal' = [proposal EXCEPT ![p].status = "written"]
    /\ versions[m][v] = NoRow
    /\ versions' = [versions EXCEPT ![m][v] = row]
    /\ db.status[m] # "absent" \/ v = 1
  BY DEF Adds
<1>1. row # NoRow
  BY NullAssumption
<1>2. /\ versions'[m][v] = row
      /\ \A n \in Proposals, w \in Versions :
           n # m \/ w # v => versions'[n][w] = versions[n][w]
  BY DEF HistoryInv, StoreInv, TypeOK
<1>3. v > 1 => v - 1 \in Versions /\ versions[m][v - 1] # NoRow
  <2>1. v - 1 = db.current[m]
    BY ImageAt DEF HistoryInv, StoreInv, TypeOK
  <2>2. db.status[m] # "absent" => db.current[m] \in Versions /\ versions[m][db.current[m]] # NoRow
    BY DEF HistoryInv, StoreInv, Sound
  <2> QED BY <2>1, <2>2
<1>4. FirstVersionFirst'
  BY <1>1, <1>2, <1>3 DEF HistoryInv, FirstVersionFirst, Versions
<1>5. VersionChainUnbroken'
  <2> SUFFICES ASSUME NEW n \in Proposals, NEW w \in Versions, versions'[n][w] # NoRow
               PROVE  /\ versions'[n][w].prev = w - 1
                      /\ w > 1 => versions'[n][w - 1] # NoRow
    BY DEF VersionChainUnbroken
  <2>1. CASE n = m /\ w = v
    BY <1>1, <1>2, <1>3, <2>1
  <2>2. CASE n # m \/ w # v
    <3>1. versions[n][w].prev = w - 1 /\ (w > 1 => versions[n][w - 1] # NoRow)
      BY <1>2, <2>2 DEF HistoryInv, VersionChainUnbroken
    <3>2. w > 1 => w - 1 \in Versions
      BY DEF Versions
    <3> QED BY <1>1, <1>2, <2>2, <3>1, <3>2
  <2> QED BY <2>1, <2>2
<1>6. \A q \in Proposals :
        /\ q # p => proposal'[q] = proposal[q]
        /\ proposal'[q].signed = proposal[q].signed
        /\ q = p => proposal'[q].status = "written"
  BY DEF HistoryInv, StoreInv, TypeOK
<1>7. ApprovedIsSigned'
  BY <1>6 DEF HistoryInv, ApprovedIsSigned
<1>8. RowsBy(p) = {} /\ proposal[p].signed = {row.content}
  BY DEF HistoryInv, WrittenIsWhatWasApproved, ApprovedIsSigned
<1>9. RowsBy(p)' = {<<m, v>>}
  BY <1>1, <1>2, <1>8 DEF RowsBy
<1>10. \A q \in Proposals \ {p} : RowsBy(q)' = RowsBy(q)
  BY <1>1, <1>2 DEF RowsBy
<1>11. WrittenIsWhatWasApproved'
  <2> SUFFICES ASSUME NEW q \in Proposals
               PROVE  (IF proposal[q].status = "written"
                       THEN \E r \in RowsBy(q) :
                              /\ RowsBy(q) = {r}
                              /\ r[1] = MemoryOf(q)
                              /\ {versions[r[1]][r[2]].content} = proposal[q].signed
                       ELSE RowsBy(q) = {})'
    BY DEF WrittenIsWhatWasApproved
  <2>1. CASE q = p
    <3> DEFINE r == <<m, v>>
    <3>1. r[1] = m /\ r[2] = v /\ RowsBy(p)' = {r}
      BY <1>9
    <3>2. {versions'[m][v].content} = proposal'[p].signed
      BY <1>2, <1>6, <1>8
    <3>3. m = MemoryOf(p)'
      BY DEF MemoryOf, Revises
    <3> HIDE DEF r
    <3> QED BY <1>6, <2>1, <3>1, <3>2, <3>3
  <2>2. CASE q # p /\ proposal[q].status = "written"
    <3>1. PICK r \in RowsBy(q) : /\ RowsBy(q) = {r}
                                 /\ r[1] = MemoryOf(q)
                                 /\ {versions[r[1]][r[2]].content} = proposal[q].signed
      BY <2>2 DEF HistoryInv, WrittenIsWhatWasApproved
    <3>2. versions'[r[1]][r[2]] = versions[r[1]][r[2]]
      BY <1>2 DEF RowsBy
    <3> QED BY <1>6, <1>10, <2>2, <3>1, <3>2 DEF MemoryOf, Revises
  <2>3. CASE q # p /\ proposal[q].status # "written"
    BY <1>6, <1>10, <2>3 DEF HistoryInv, WrittenIsWhatWasApproved
  <2> QED BY <2>1, <2>2, <2>3
<1> QED BY <1>4, <1>5, <1>7, <1>11

THEOREM HistoryInvariant == Spec => []HistoryInv
<1>1. Init => HistoryInv
  BY InitHistoryInv, ConstantsAssumption
<1>2. HistoryInv /\ [Next]_vars => HistoryInv'
  <2> SUFFICES ASSUME HistoryInv, [Next]_vars PROVE HistoryInv'
    OBVIOUS
  <2>1. StoreInv'
    BY NextKeepsStoreInv, ConstantsAssumption DEF HistoryInv
  <2>2. SomethingStored \/ NothingStored
    BY StepStoresOrNot DEF HistoryInv, StoreInv
  <2>3. CASE SomethingStored
    BY <2>1, <2>3, StoreVersionKeepsHistory, ConstantsAssumption DEF SomethingStored, HistoryInv
  <2>4. CASE NothingStored
    BY <2>1, <2>4, NothingStoredKeepsHistory, ConstantsAssumption DEF HistoryInv
  <2> QED BY <2>2, <2>3, <2>4
<1> QED BY <1>1, <1>2, PTL DEF Spec

\* Whatever edits, re-approvals and failed writes came before, what a written
\* proposal stored is what its last approval was given for, exactly once.
THEOREM OnlyApprovedContentIsWritten == Spec => []WrittenIsWhatWasApproved
<1>1. HistoryInv => WrittenIsWhatWasApproved
  BY DEF HistoryInv
<1> QED BY <1>1, HistoryInvariant, PTL

\* Rollbacks never break the chain of a memory's versions: each follows the
\* one numbered before it, down to the first.
THEOREM VersionsFormAChain == Spec => []VersionChainUnbroken
<1>1. HistoryInv => VersionChainUnbroken
  BY DEF HistoryInv
<1> QED BY <1>1, HistoryInvariant, PTL

----------------------------------------------------------------------------
(* The history only grows *)

Recording == \E m \in Proposals : \E e : Record(m, e)

LEMMA StepRecordsOrNot == ASSUME TypeOK, [Next]_vars PROVE Recording \/ UNCHANGED lifecycle
<1>1. CASE ProposalStep
  BY <1>1 DEF ProposalStep, CreateProposal, Approve, Reject, Edit
<1>2. CASE WriteStep
  <2>1. ASSUME NEW p \in Proposals, StoreVersion(p) PROVE Recording
    BY <2>1, ConstantsAssumption
       DEF StoreVersion, Recording, MemoryOf, Revises, ConstantsAssumption
  <2> QED BY <1>2, <2>1 DEF WriteStep, WriteMemory, WriteCollides
<1>3. CASE StatusStep
  BY <1>3 DEF StatusStep, TombstoneRead, RollbackRead, ScoreMemory, ScoreCollides, Recording
<1>4. CASE SessionStep
  <2>1. ASSUME NEW s \in Sessions, FinishPending(s) PROVE Recording
    <3>1. pc[s].mem \in Proposals
      BY <2>1 DEF FinishPending, TypeOK, Pending
    <3> QED BY <2>1, <3>1 DEF FinishPending, Recording
  <2> QED BY <1>4, <2>1 DEF SessionStep, Refused, PendingCollides, HostCommits,
              HostRollsBack, Crash, Recording
<1>5. CASE Tick
  BY <1>5 DEF Tick
<1>6. CASE UNCHANGED vars
  BY <1>6 DEF vars
<1> QED BY <1>1, <1>2, <1>3, <1>4, <1>5, <1>6 DEF Next

LEMMA AppendKeepsPrefix ==
  ASSUME NEW q \in Seq(Event), NEW e, NEW i \in DOMAIN q
  PROVE  i \in DOMAIN Append(q, e) /\ Append(q, e)[i] = q[i]
OBVIOUS

\* No step changes a stored version, rewrites or shortens a lifecycle, or
\* takes a proposal out of a terminal status.
THEOREM HistoryGrows == Spec => HistoryIsAppendOnly
<1>1. HistoryInv /\ [Next]_vars => OnlyGrows
  <2> SUFFICES ASSUME HistoryInv, [Next]_vars PROVE OnlyGrows
    OBVIOUS
  <2>1. SomethingStored \/ NothingStored
    BY StepStoresOrNot DEF HistoryInv, StoreInv
  <2>2. \A m \in Proposals, v \in Versions :
          versions[m][v] # NoRow => versions'[m][v] = versions[m][v]
    <3>1. CASE SomethingStored
      <4>1. PICK p \in Proposals : StoreVersion(p)
        BY <3>1 DEF SomethingStored
      <4> QED BY <4>1 DEF StoreVersion, HistoryInv, StoreInv, TypeOK
    <3> QED BY <2>1, <3>1 DEF NothingStored
  <2>3. \A p \in Proposals :
          proposal[p].status \in {"rejected", "written"} => proposal'[p] = proposal[p]
    BY <2>1 DEF SomethingStored, NothingStored, StoreVersion, Writable, HistoryInv,
                      StoreInv, TypeOK
  <2>4. \A m \in Proposals : \A i \in DOMAIN lifecycle[m] :
          i \in DOMAIN lifecycle'[m] /\ lifecycle'[m][i] = lifecycle[m][i]
    <3>1. CASE Recording
      <4>0. PICK n \in Proposals :
              \E e : lifecycle' = [lifecycle EXCEPT ![n] = Append(@, e)]
        BY <3>1 DEF Recording, Record
      <4>1. PICK e : lifecycle' = [lifecycle EXCEPT ![n] = Append(@, e)]
        BY <4>0
      <4>2. \A m \in Proposals : lifecycle[m] \in Seq(Event)
        BY DEF HistoryInv, StoreInv, TypeOK
      <4>3. \A m \in Proposals :
              lifecycle'[m] = IF m = n THEN Append(lifecycle[m], e) ELSE lifecycle[m]
        BY <4>1 DEF HistoryInv, StoreInv, TypeOK
      <4>4. ASSUME NEW m \in Proposals, NEW i \in DOMAIN lifecycle[m]
            PROVE  i \in DOMAIN lifecycle'[m] /\ lifecycle'[m][i] = lifecycle[m][i]
        <5>1. i \in DOMAIN Append(lifecycle[m], e) /\ Append(lifecycle[m], e)[i] = lifecycle[m][i]
          BY <4>2, AppendKeepsPrefix
        <5>2. lifecycle'[m] = Append(lifecycle[m], e) \/ lifecycle'[m] = lifecycle[m]
          BY <4>3
        <5> QED BY <5>1, <5>2
      <4> QED BY <4>4
    <3>2. CASE UNCHANGED lifecycle
      BY <3>2
    <3> QED BY <3>1, <3>2, StepRecordsOrNot DEF HistoryInv, StoreInv
  <2> QED BY <2>2, <2>3, <2>4 DEF OnlyGrows
<1> QED BY <1>1, HistoryInvariant, PTL DEF Spec, HistoryIsAppendOnly

----------------------------------------------------------------------------
(* The lifecycle events account for what is committed *)

\* A transaction starts from what is committed.
FreshWhenFree == writer = NoSession => db = disk

StoryInv ==
  /\ StoreInv
  /\ FreshWhenFree
  /\ HistoryExplainsStore
  /\ TransactionalEventsAreCurrent

\* A step that changes neither what is committed nor the events.
Silent ==
  /\ UNCHANGED lifecycle
  /\ disk'.status = disk.status /\ disk'.current = disk.current

\* A confirmed preference, which turns a stale memory active without an event.
Confirms(m) ==
  /\ UNCHANGED lifecycle
  /\ disk.status[m] = "stale"
  /\ disk'.status = [disk.status EXCEPT ![m] = "active"] /\ disk'.current = disk.current

\* A step that commits what its event says.
Tells(m, e) ==
  /\ e \in Event
  /\ Record(m, e)
  /\ disk'.status = [disk.status EXCEPT ![m] = e.to]
  /\ IF e.kind \in {"write", "rollback"}
     THEN disk'.current = [disk.current EXCEPT ![m] = e.version]
     ELSE disk'.current = disk.current /\ disk.status[m] # "absent"
  /\ e.kind \notin {"tombstone", "rollback"} => e.from = disk.status[m]

Accounted ==
  \/ Silent
  \/ \E m \in Proposals : Confirms(m) \/ \E e \in Event : Tells(m, e)

LEMMA WriteIsAccounted ==
  ASSUME StoryInv, ConstantsAssumption, NEW p \in Proposals, StoreVersion(p), db = disk
  PROVE  Accounted
<1> DEFINE m == MemoryOf(p)
           v == NextVersion(p)
           e == NewEvent("write", v, db.status[m], "active", now)
           d == UpdateMemory(db, m, "active", v)
<1>1. m \in Proposals /\ v \in Versions
  BY DEF MemoryOf, Revises, ConstantsAssumption, StoreVersion
<1>2. e \in Event
  BY <1>1, ImageAt DEF NewEvent, Event, Versions, MemoryStatuses, StoryInv, StoreInv, TypeOK
<1>3. Record(m, e) /\ disk' = IndexVersion(d, m, v)
  BY DEF StoreVersion, Commit
<1>4. disk'.status = d.status /\ disk'.current = d.current
  <2>1. disk' = [d EXCEPT !.index = [d.index EXCEPT ![m] = d.index[m] \cup {v}]] \/ disk' = d
    BY <1>3 DEF IndexVersion
  <2> QED BY <2>1 DEF UpdateMemory
<1>5. Tells(m, e)
  <2>1. d.status = [db.status EXCEPT ![m] = "active"] /\ d.current = [db.current EXCEPT ![m] = v]
    BY DEF UpdateMemory
  <2>2. /\ e.kind = "write" /\ e.version = v /\ e.to = "active"
        /\ e.from = db.status[m]
    BY DEF NewEvent
  <2> HIDE DEF m, v, d, e
  <2> QED BY <1>2, <1>3, <1>4, <2>1, <2>2 DEF Tells
<1> HIDE DEF m, e
<1> QED BY <1>1, <1>2, <1>5 DEF Accounted

LEMMA FinishIsAccounted ==
  ASSUME StoryInv, ConstantsAssumption, NEW s \in Sessions, FinishPending(s), db = disk
  PROVE  Accounted
<1> DEFINE q == pc[s]
           e == NewEvent(q.op, q.version, q.seen, StatusAfter(q.op), now)
           v == IF q.op = "tombstone" THEN db.current[q.mem] ELSE q.version
<1>1. q \in Pending /\ q # NoRead
  BY DEF FinishPending, StoryInv, StoreInv, TypeOK
<1>2. e \in Event /\ q.mem \in Proposals
  BY <1>1 DEF NewEvent, Event, Pending, StatusAfter, MemoryStatuses, StoryInv, StoreInv, TypeOK
<1>3. Record(q.mem, e) /\ disk' = Pend(q)
  BY DEF FinishPending, Commit
<1>4. /\ disk'.status = [disk.status EXCEPT ![q.mem] = e.to]
      /\ disk'.current = [disk.current EXCEPT ![q.mem] = v]
  <2>1. disk' = UpdateMemory(db, q.mem, StatusAfter(q.op), v) /\ e.to = StatusAfter(q.op)
    BY <1>3 DEF Pend, NewEvent
  <2> HIDE DEF v, e
  <2> QED BY <2>1 DEF UpdateMemory
<1>5. CASE q.op = "rollback"
  <2>1. Tells(q.mem, e)
    BY <1>2, <1>3, <1>4, <1>5 DEF Tells, NewEvent
  <2> QED BY <1>2, <2>1 DEF Accounted
<1>6. CASE q.op = "tombstone"
  <2>1. disk.status[q.mem] # "absent"
    BY <1>1, <1>2, <1>6 DEF StoryInv, StoreInv, PendingFounded, Sound
  <2>2. disk'.current = disk.current
    BY <1>2, <1>4, <1>6 DEF StoryInv, StoreInv, TypeOK, Image
  <2>3. Tells(q.mem, e)
    BY <1>2, <1>3, <1>4, <1>6, <2>1, <2>2 DEF Tells, NewEvent
  <2> QED BY <1>2, <2>3 DEF Accounted
<1> QED BY <1>1, <1>5, <1>6 DEF Pending

LEMMA ScoreIsAccounted ==
  ASSUME StoryInv, ConstantsAssumption, NEW s \in Sessions, NEW m \in Proposals,
         NEW scenario \in Scenarios, NEW at \in Seconds,
         ScoreMemory(s, m, scenario, at), db = disk
  PROVE  Accounted
<1> DEFINE before == db.status[m]
           after == ScoredStatus(scenario, before)
           e == NewEvent(scenario, 0, before, after, at)
<1>1. before \in MemoryStatuses \ {"absent"}
  BY DEF ScoreMemory, StoryInv, StoreInv, TypeOK, Image
<1>2. after \in MemoryStatuses \ {"absent"}
  BY <1>1, ScoredStatusIsStored
<1>3. e \in Event
  BY <1>1, <1>2 DEF NewEvent, Event, ConstantsAssumption
<1>4. disk' = UpdateMemory(db, m, after, db.current[m])
  BY DEF ScoreMemory, Commit
<1>5. disk'.status = [disk.status EXCEPT ![m] = after] /\ disk'.current = disk.current
  <2>1. /\ disk'.status = [db.status EXCEPT ![m] = after]
        /\ disk'.current = [db.current EXCEPT ![m] = db.current[m]]
    <3> HIDE DEF after
    <3> QED BY <1>4 DEF UpdateMemory
  <2> HIDE DEF after
  <2> QED BY <2>1 DEF StoryInv, StoreInv, TypeOK, Image
<1>6. CASE Recorded(scenario)
  <2>1. Record(m, e)
    BY <1>6 DEF ScoreMemory
  <2>2. scenario \notin {"write", "rollback"}
    BY DEF ConstantsAssumption
  <2>3. e.kind = scenario /\ e.from = before /\ e.to = after
    BY DEF NewEvent
  <2> HIDE DEF e, before, after
  <2>4. Tells(m, e)
    BY <1>1, <1>3, <1>5, <2>1, <2>2, <2>3 DEF Tells, before
  <2> QED BY <1>3, <2>4 DEF Accounted
<1>7. CASE ~ Recorded(scenario)
  <2>1. UNCHANGED lifecycle /\ (after = before \/ (before = "stale" /\ after = "active"))
    BY <1>7 DEF ScoreMemory, Recorded, Reweighing, ScoredStatus
  <2>2. CASE before = "stale" /\ after = "active"
    BY <1>5, <2>1, <2>2 DEF Accounted, Confirms
  <2>3. CASE after = before
    <3>1. disk'.status = disk.status
      BY <1>5, <2>1, <2>3 DEF StoryInv, StoreInv, TypeOK, Image
    <3> QED BY <1>5, <2>1, <3>1 DEF Accounted, Silent
  <2> QED BY <2>1, <2>2, <2>3
<1> QED BY <1>6, <1>7

\* When hosts roll back after an error, every step is accounted for: an
\* operation starts from what is committed, and a failed one is not committed.
LEMMA StepIsAccounted ==
  ASSUME StoryInv, ConstantsAssumption, Continues = {}, [Next]_vars
  PROVE  Accounted
<1>1. \A s \in Sessions : MayWrite(s) => db = disk
  BY DEF MayWrite, StoryInv, FreshWhenFree
<1>2. CASE ProposalStep
  BY <1>1, <1>2 DEF ProposalStep, CreateProposal, Approve, Reject, Edit, Begin, Commit,
     Accounted, Silent
<1>3. CASE WriteStep
  <2>1. ASSUME NEW s \in Sessions, NEW p \in Proposals, WriteMemory(s, p)
        PROVE  Accounted
    BY <1>1, <2>1, WriteIsAccounted DEF WriteMemory, Begin
  <2>2. ASSUME NEW s \in Sessions, NEW p \in Proposals, WriteCollides(s, p)
        PROVE  Accounted
    BY <2>2 DEF WriteCollides, LeaveOpen, Accounted, Silent
  <2> QED BY <1>3, <2>1, <2>2 DEF WriteStep
<1>4. CASE StatusStep
  <2>1. ASSUME NEW s \in Sessions, NEW m \in Proposals, NEW scenario \in Scenarios,
               NEW at \in Seconds, ScoreMemory(s, m, scenario, at)
        PROVE  Accounted
    BY <1>1, <2>1, ScoreIsAccounted DEF ScoreMemory, Begin
  <2>2. ASSUME NEW s \in Sessions, NEW m \in Proposals,
               \/ TombstoneRead(s, m) \/ \E v \in Versions : RollbackRead(s, m, v)
               \/ \E scenario \in Scenarios, at \in Seconds : ScoreCollides(s, m, scenario, at)
        PROVE  Accounted
    BY <2>2 DEF TombstoneRead, RollbackRead, ScoreCollides, LeaveOpen, Accounted, Silent
  <2> QED BY <1>4, <2>1, <2>2 DEF StatusStep
<1>5. CASE SessionStep
  <2>1. ASSUME NEW s \in Sessions, FinishPending(s) PROVE Accounted
    BY <1>1, <2>1, FinishIsAccounted DEF FinishPending
  <2>2. ASSUME NEW s \in Sessions,
               Refused(s) \/ PendingCollides(s) \/ HostCommits(s) \/ HostRollsBack(s) \/ Crash(s)
        PROVE  Accounted
    BY <2>2 DEF Refused, PendingCollides, HostCommits, NothingFailed, HostRollsBack, Crash,
       Commit, LeaveOpen, Accounted, Silent
  <2> QED BY <1>5, <2>1, <2>2 DEF SessionStep
<1>6. CASE Tick \/ UNCHANGED vars
  BY <1>6 DEF Tick, vars, Accounted, Silent
<1> QED BY <1>2, <1>3, <1>4, <1>5, <1>6 DEF Next

LEMMA NextKeepsFreshWhenFree ==
  ASSUME StoreInv, ConstantsAssumption, FreshWhenFree, [Next]_vars
  PROVE  FreshWhenFree'
<1> DEFINE Kept == \/ UNCHANGED <<db, disk, writer>>
                   \/ \E d : Commit(d) \/ \E s \in Sessions : LeaveOpen(s, d)
<1>1. Kept
  <2>1. CASE ProposalStep
    BY <2>1 DEF ProposalStep, CreateProposal, Approve, Reject, Edit
  <2>2. CASE WriteStep
    <3>1. ASSUME NEW p \in Proposals, StoreVersion(p) PROVE \E d : Commit(d)
      BY <3>1 DEF StoreVersion
    <3> QED BY <2>2, <3>1 DEF WriteStep, WriteMemory, WriteCollides
  <2>3. CASE StatusStep
    BY <2>3 DEF StatusStep, TombstoneRead, RollbackRead, ScoreMemory, ScoreCollides
  <2>4. CASE SessionStep
    <3>1. ASSUME NEW s \in Sessions, FinishPending(s) PROVE \E d : Commit(d)
      BY <3>1 DEF FinishPending
    <3> QED BY <2>4, <3>1 DEF SessionStep, Refused, PendingCollides, HostCommits,
            HostRollsBack, Crash
  <2>5. CASE Tick \/ UNCHANGED vars
    BY <2>5 DEF Tick, vars
  <2> QED BY <2>1, <2>2, <2>3, <2>4, <2>5 DEF Next
<1> QED BY <1>1 DEF FreshWhenFree, Commit, LeaveOpen, ConstantsAssumption

\* The events of m say what is committed of it.
Explained(m) ==
  IF lifecycle[m] = <<>> THEN disk.status[m] = "absent"
  ELSE /\ \/ disk.status[m] = LastEvent(m).to
          \/ LastEvent(m).to = "stale" /\ disk.status[m] = "active"
       /\ \E i \in Versioned(m) :
            /\ \A j \in Versioned(m) : j <= i
            /\ disk.current[m] = lifecycle[m][i].version

\* A step that leaves the events, the status and the current version of m
\* alone leaves its account alone.
LEMMA ExplainedKept ==
  ASSUME NEW m \in Proposals, Explained(m), lifecycle'[m] = lifecycle[m],
         disk'.status[m] = disk.status[m], disk'.current[m] = disk.current[m]
  PROVE  Explained(m)'
BY DEF Explained, LastEvent, Versioned

\* What an appended event does to the events of its memory.
LEMMA RecordEffect ==
  ASSUME TypeOK, NEW m \in Proposals, NEW e \in Event, Record(m, e)
  PROVE  /\ Len(lifecycle[m]) \in Nat
         /\ DOMAIN lifecycle[m] = 1..Len(lifecycle[m])
         /\ Len(lifecycle'[m]) = Len(lifecycle[m]) + 1
         /\ DOMAIN lifecycle'[m] = 1..(Len(lifecycle[m]) + 1)
         /\ lifecycle'[m] # <<>>
         /\ lifecycle'[m][Len(lifecycle[m]) + 1] = e
         /\ \A i \in DOMAIN lifecycle[m] : lifecycle'[m][i] = lifecycle[m][i]
         /\ \A n \in Proposals \ {m} : lifecycle'[n] = lifecycle[n]
<1>1. lifecycle \in [Proposals -> Seq(Event)]
  BY DEF TypeOK
<1>2. lifecycle'[m] = Append(lifecycle[m], e)
      /\ \A n \in Proposals \ {m} : lifecycle'[n] = lifecycle[n]
  BY <1>1 DEF Record
<1>3. lifecycle[m] \in Seq(Event)
  BY <1>1
<1> QED BY <1>2, <1>3

LEMMA TellsExplains ==
  ASSUME TypeOK, NEW m \in Proposals, Explained(m), NEW e \in Event, Tells(m, e)
  PROVE  Explained(m)'
<1> DEFINE n == Len(lifecycle[m]) + 1
<1>1. /\ n \in Nat /\ DOMAIN lifecycle[m] = 1..(n - 1)
      /\ DOMAIN lifecycle'[m] = 1..n /\ Len(lifecycle'[m]) = n
      /\ lifecycle'[m] # <<>> /\ lifecycle'[m][n] = e
      /\ \A i \in 1..(n - 1) : lifecycle'[m][i] = lifecycle[m][i]
  BY RecordEffect DEF Tells
<1> HIDE DEF n
<1>2. LastEvent(m)' = e
  BY <1>1 DEF LastEvent
<1>3. disk'.status[m] = e.to
  BY DEF Tells, TypeOK, Image
<1>4. \E i \in Versioned(m)' : /\ \A j \in Versioned(m)' : j <= i
                              /\ disk'.current[m] = lifecycle'[m][i].version
  <2>1. CASE e.kind \in {"write", "rollback"}
    <3>1. n \in Versioned(m)' /\ \A j \in Versioned(m)' : j <= n
      BY <1>1, <2>1 DEF Versioned
    <3>2. disk'.current[m] = lifecycle'[m][n].version
      BY <1>1, <2>1 DEF Tells, TypeOK, Image
    <3> QED BY <3>1, <3>2
  <2>2. CASE e.kind \notin {"write", "rollback"}
    <3>1. Versioned(m)' = Versioned(m)
      BY <1>1, <2>2 DEF Versioned
    <3>2. disk'.current[m] = disk.current[m] /\ disk.status[m] # "absent"
      BY <2>2 DEF Tells
    <3>3. PICK i \in Versioned(m) : /\ \A j \in Versioned(m) : j <= i
                                    /\ disk.current[m] = lifecycle[m][i].version
      BY <3>2 DEF Explained
    <3>4. lifecycle'[m][i] = lifecycle[m][i]
      BY <1>1 DEF Versioned
    <3> QED BY <3>1, <3>2, <3>3, <3>4
  <2> QED BY <2>1, <2>2
<1> QED BY <1>1, <1>2, <1>3, <1>4 DEF Explained

LEMMA AccountedKeepsExplained ==
  ASSUME TypeOK, \A m \in Proposals : Explained(m), Accounted
  PROVE  \A m \in Proposals : Explained(m)'
<1> SUFFICES ASSUME NEW n \in Proposals PROVE Explained(n)'
  OBVIOUS
<1>1. CASE Silent
  BY <1>1, ExplainedKept DEF Silent
<1>2. ASSUME NEW m \in Proposals, Confirms(m) PROVE Explained(n)'
  <2>1. CASE n = m
    <3>1. disk'.status[m] = "active" /\ disk'.current[m] = disk.current[m]
      BY <1>2 DEF Confirms, TypeOK, Image
    <3>2. LastEvent(m).to = "stale" /\ lifecycle[m] # <<>>
      BY <1>2 DEF Confirms, Explained
    <3> QED BY <1>2, <2>1, <3>1, <3>2 DEF Confirms, Explained, LastEvent, Versioned
  <2>2. CASE n # m
    BY <1>2, <2>2, ExplainedKept DEF Confirms, TypeOK, Image
  <2> QED BY <2>1, <2>2
<1>3. ASSUME NEW m \in Proposals, NEW e \in Event, Tells(m, e) PROVE Explained(n)'
  <2>1. CASE n = m
    BY <1>3, <2>1, TellsExplains
  <2>2. CASE n # m
    <3>1. lifecycle'[n] = lifecycle[n]
      BY <1>3, <2>2, RecordEffect DEF Tells
    <3>2. disk'.status[n] = disk.status[n] /\ disk'.current[n] = disk.current[n]
      BY <1>3, <2>2 DEF Tells, TypeOK, Image
    <3> QED BY <3>1, <3>2, ExplainedKept
  <2> QED BY <2>1, <2>2
<1> QED BY <1>1, <1>2, <1>3 DEF Accounted

\* Event i of m, unless a tombstone or a rollback, leaves the status that the
\* one before it set.
Current(m, i) ==
  LET e == lifecycle[m][i]
      before == IF i = 1 THEN "absent" ELSE lifecycle[m][i - 1].to
  IN e.kind \notin {"tombstone", "rollback"} =>
       \/ e.from = before
       \/ before = "stale" /\ e.from = "active"

LEMMA AccountedKeepsCurrent ==
  ASSUME TypeOK, \A m \in Proposals : Explained(m), Accounted,
         \A m \in Proposals : \A i \in DOMAIN lifecycle[m] : Current(m, i)
  PROVE  \A m \in Proposals : \A i \in DOMAIN lifecycle'[m] : Current(m, i)'
<1> SUFFICES ASSUME NEW k \in Proposals, NEW i \in DOMAIN lifecycle'[k] PROVE Current(k, i)'
  OBVIOUS
<1>1. CASE UNCHANGED lifecycle
  BY <1>1 DEF Current
<1>2. ASSUME NEW m \in Proposals, NEW e \in Event, Tells(m, e) PROVE Current(k, i)'
  <2> DEFINE n == Len(lifecycle[m]) + 1
  <2>1. /\ n \in Nat \ {0} /\ DOMAIN lifecycle[m] = 1..(n - 1)
        /\ DOMAIN lifecycle'[m] = 1..n /\ lifecycle'[m][n] = e
        /\ \A j \in 1..(n - 1) : lifecycle'[m][j] = lifecycle[m][j]
        /\ \A j \in Proposals \ {m} : lifecycle'[j] = lifecycle[j]
    BY <1>2, RecordEffect DEF Tells
  <2>2. n = 1 => lifecycle[m] = <<>>
    BY <2>1 DEF TypeOK
  <2>3. n # 1 => lifecycle[m] # <<>> /\ LastEvent(m) = lifecycle[m][n - 1]
    BY <2>1 DEF LastEvent
  <2> HIDE DEF n
  <2>4. CASE k # m
    BY <2>1, <2>4 DEF Current
  <2>5. CASE k = m /\ i # n
    BY <2>1, <2>5 DEF Current
  <2>6. CASE k = m /\ i = n
    <3>1. e.kind \notin {"tombstone", "rollback"} => e.from = disk.status[m]
      BY <1>2 DEF Tells
    <3>2. CASE n = 1
      BY <2>1, <2>2, <2>6, <3>1, <3>2 DEF Current, Explained
    <3>3. CASE n # 1
      <4>1. lifecycle'[m][n - 1] = LastEvent(m)
        BY <2>1, <2>3, <3>3
      <4>2. \/ disk.status[m] = LastEvent(m).to
            \/ LastEvent(m).to = "stale" /\ disk.status[m] = "active"
        BY <2>3, <3>3 DEF Explained
      <4> QED BY <2>1, <2>6, <3>1, <3>3, <4>1, <4>2 DEF Current
    <3> QED BY <3>2, <3>3
  <2> QED BY <2>4, <2>5, <2>6
<1> QED BY <1>1, <1>2 DEF Accounted, Silent, Confirms

LEMMA StoryParts ==
  /\ HistoryExplainsStore <=> (Continues = {} => \A m \in Proposals : Explained(m))
  /\ TransactionalEventsAreCurrent <=>
       (Continues = {} => \A m \in Proposals : \A i \in DOMAIN lifecycle[m] : Current(m, i))
BY DEF HistoryExplainsStore, Explained, TransactionalEventsAreCurrent, Current

THEOREM StoryInvariant == Spec => []StoryInv
<1>1. Init => StoryInv
  <2> SUFFICES ASSUME Init PROVE StoryInv
    OBVIOUS
  <2>1. StoreInv /\ FreshWhenFree
    BY InitStoreInv, ConstantsAssumption DEF Init, FreshWhenFree
  <2>2. \A m \in Proposals : lifecycle[m] = <<>> /\ disk.status[m] = "absent"
    BY DEF Init, EmptyImage
  <2> QED BY <2>1, <2>2 DEF StoryInv, HistoryExplainsStore, TransactionalEventsAreCurrent
<1>2. StoryInv /\ [Next]_vars => StoryInv'
  <2> SUFFICES ASSUME StoryInv, [Next]_vars PROVE StoryInv'
    OBVIOUS
  <2>1. StoreInv' /\ FreshWhenFree'
    BY NextKeepsStoreInv, NextKeepsFreshWhenFree, ConstantsAssumption DEF StoryInv
  <2>2. ASSUME Continues = {}
        PROVE  /\ \A m \in Proposals : Explained(m)'
               /\ \A m \in Proposals : \A i \in DOMAIN lifecycle'[m] : Current(m, i)'
    <3>1. /\ TypeOK /\ Accounted
          /\ \A m \in Proposals : Explained(m)
          /\ \A m \in Proposals : \A i \in DOMAIN lifecycle[m] : Current(m, i)
      BY <2>2, StoryParts, StepIsAccounted, ConstantsAssumption DEF StoryInv, StoreInv
    <3> QED BY <3>1, AccountedKeepsExplained, AccountedKeepsCurrent
  <2>3. HistoryExplainsStore' /\ TransactionalEventsAreCurrent'
    BY <2>2 DEF HistoryExplainsStore, Explained, TransactionalEventsAreCurrent, Current
  <2> QED BY <2>1, <2>3 DEF StoryInv
<1> QED BY <1>1, <1>2, PTL DEF Spec

\* With hosts that roll back after an error, the lifecycle of a memory leads to
\* its committed status and current version, whatever raced, collided or
\* crashed on the way.
THEOREM EventsExplainTheStore == Spec => []HistoryExplainsStore
<1>1. StoryInv => HistoryExplainsStore
  BY DEF StoryInv
<1> QED BY <1>1, StoryInvariant, PTL

\* With such hosts a write or a score records the status it really left.
THEOREM EventsOfTransactionsAreCurrent == Spec => []TransactionalEventsAreCurrent
<1>1. StoryInv => TransactionalEventsAreCurrent
  BY DEF StoryInv
<1> QED BY <1>1, StoryInvariant, PTL

----------------------------------------------------------------------------
(* The worker *)

Busy(w) == work[w].phase \in {"promoting", "failing"}

BusyHasJob ==
  \A w \in Workers : Busy(w) => work[w].job \in Proposals /\ work[w].attempt \in 1..MaxAttempts

WorkerInv == StoreInv /\ WorkerTypeOK /\ OneVerdictPerJob /\ BusyHasJob

----------------------------------------------------------------------------
(* The attempts of a job have a highest one *)

\* A set of naturals below a bound has a maximum: the element with the fewest
\* numbers above it.
LEMMA HasMaximum ==
  ASSUME NEW N \in Nat, NEW S \in SUBSET (0..N), NEW e \in S
  PROVE  \E a \in S : \A b \in S : b <= a
<1> DEFINE Above(a) == (a + 1)..N
           T == {U \in SUBSET (0..N) : \E a \in S : U = Above(a)}
           R == StrictSubsetOrdering(0..N)
<1>1. T \subseteq FiniteSubsetsOf(0..N) /\ Above(e) \in T
  BY FS_FiniteSubsetsOfFinite, FS_Interval DEF FiniteSubsetsOf
<1>2. PICK x \in T : \A y \in T : <<y, x>> \notin R
  <2>1. IsWellFoundedOn(R, FiniteSubsetsOf(0..N))
    BY FS_StrictSubsetOrderingWellFounded
  <2> HIDE DEF T, R
  <2> QED BY <1>1, <2>1, WFMin
<1>3. PICK a \in S : x = Above(a)
  OBVIOUS
<1>4. ASSUME NEW b \in S, a < b
      PROVE  FALSE
  <2>1. Above(b) \in T
    OBVIOUS
  <2>2. Above(b) \subseteq x /\ b \in x /\ b \notin Above(b)
    BY <1>3, <1>4
  <2>3. <<Above(b), x>> \in R
    BY <2>1, <2>2 DEF StrictSubsetOrdering
  <2> QED BY <1>2, <2>1, <2>3
<1> QED BY <1>4

LEMMA NextAttemptIsPositive ==
  ASSUME WorkerTypeOK, WorkerAssumption, NEW j \in Proposals
  PROVE  NextAttempt(j) \in Nat \ {0}
<1>1. Attempts(j) \in SUBSET (0..MaxAttempts) /\ 0 \in Attempts(j)
  BY DEF Attempts, WorkerTypeOK, WorkerAssumption, ClaimRow
<1>2. \E a \in Attempts(j) : \A b \in Attempts(j) : b <= a
  BY <1>1, HasMaximum DEF WorkerAssumption
<1>3. (CHOOSE a \in Attempts(j) : \A b \in Attempts(j) : b <= a) \in Attempts(j)
  BY <1>2
<1> QED BY <1>1, <1>3 DEF NextAttempt

----------------------------------------------------------------------------
(* The invariant *)

\* The tables of jobs, claims and receipts.
RowsTyped ==
  /\ job \in [Proposals -> {"none", "queued", "running"} \cup Verdicts]
  /\ queue \in Seq(Proposals)
  /\ claim \in [Proposals -> ClaimRow \cup {NoClaim}]
  /\ receipts \subseteq [job : Proposals, attempt : 1..MaxAttempts, worker : Workers,
                         status : Verdicts]

\* Where the invocations stand, and the stop request.
WorkTyped ==
  /\ work \in [Workers -> [phase : Phases, job : Proposals \cup {NoJob},
                           attempt : 0..MaxAttempts, left : 0..BatchLimit]]
  /\ stop \in BOOLEAN
  /\ stops \in 0..MaxStops

LEMMA WorkerInvParts ==
  WorkerInv <=> StoreInv /\ RowsTyped /\ WorkTyped /\ OneVerdictPerJob /\ BusyHasJob
BY DEF WorkerInv, WorkerTypeOK, RowsTyped, WorkTyped, StoreInv

LEMMA PartsMakeWorkerInv ==
  ASSUME StoreInv', RowsTyped', WorkTyped', OneVerdictPerJob', BusyHasJob'
  PROVE  WorkerInv'
BY DEF WorkerInv, WorkerTypeOK, RowsTyped, WorkTyped, StoreInv

LEMMA InitWorkerInv ==
  ASSUME ConstantsAssumption, WorkerAssumption, WorkerInit PROVE WorkerInv
<1>1. StoreInv
  BY InitStoreInv DEF WorkerInit
<1>2. RowsTyped
  BY DEF WorkerInit, RowsTyped
<1>3. WorkTyped /\ BusyHasJob
  <2>1. /\ Idle \in [phase : Phases, job : Proposals \cup {NoJob}, attempt : 0..MaxAttempts,
                     left : 0..BatchLimit]
        /\ Idle.phase = "idle"
    BY DEF Idle, Phases, WorkerAssumption
  <2>2. work = [w \in Workers |-> Idle] /\ stop = FALSE /\ stops = 0
    BY DEF WorkerInit
  <2>3. stops \in 0..MaxStops
    BY <2>2 DEF WorkerAssumption
  <2>4. WorkTyped
    BY <2>1, <2>2, <2>3 DEF WorkTyped
  <2>5. BusyHasJob
    BY <2>1, <2>2 DEF BusyHasJob, Busy
  <2> QED BY <2>4, <2>5
<1>4. OneVerdictPerJob
  BY DEF WorkerInit, OneVerdictPerJob, Verdicts
<1> QED BY <1>1, <1>2, <1>3, <1>4, WorkerInvParts

\* The end of an iteration and of an invocation.
LEMMA NextIterationIsTyped ==
  ASSUME WorkTyped, BusyHasJob, WorkerAssumption, NEW w \in Workers,
         work' = NextIteration(w), UNCHANGED <<stop, stops>>
  PROVE  WorkTyped' /\ BusyHasJob'
<1> DEFINE Stand == [phase : Phases, job : Proposals \cup {NoJob}, attempt : 0..MaxAttempts,
                     left : 0..BatchLimit]
           rest == [work[w] EXCEPT !.phase = "claiming", !.job = NoJob, !.attempt = 0]
<1>1. rest \in Stand /\ rest.phase = "claiming"
  <2>1. work[w] \in Stand
    BY DEF WorkTyped
  <2>2. "claiming" \in Phases /\ 0 \in 0..MaxAttempts
    BY DEF Phases, WorkerAssumption
  <2> QED BY <2>1, <2>2
<1>2. work' = [work EXCEPT ![w] = rest]
  BY DEF NextIteration
<1> HIDE DEF rest
<1>3. work \in [Workers -> Stand]
  BY DEF WorkTyped
<1> HIDE DEF Stand
<1>4. \A x \in Workers : work'[x] = IF x = w THEN rest ELSE work[x]
  BY <1>2, <1>3
<1>5. work' \in [Workers -> Stand]
  BY <1>1, <1>2, <1>3
<1>6. WorkTyped'
  BY <1>5 DEF WorkTyped, Stand
<1>7. BusyHasJob'
  BY <1>1, <1>4 DEF BusyHasJob, Busy
<1> QED BY <1>6, <1>7

\* What Owns shows inside a transaction: the job is still running.
LEMMA OwnedIsRunning ==
  ASSUME WorkerInv, NEW w \in Workers, Busy(w), Owns(w)
  PROVE  /\ work[w].job \in Proposals /\ work[w].attempt \in 1..MaxAttempts
         /\ job[work[w].job] = "running"
BY DEF WorkerInv, BusyHasJob, Owns, OneVerdictPerJob

\* The transaction that settles a job gives it its only receipt.
LEMMA SettleKeepsRows ==
  ASSUME WorkerInv, NEW w \in Workers, NEW verdict \in Verdicts,
         Busy(w), Owns(w), Settle(w, verdict)
  PROVE  RowsTyped' /\ OneVerdictPerJob'
<1> DEFINE j == work[w].job
           r == [job |-> j, attempt |-> work[w].attempt, worker |-> w, status |-> verdict]
<1>1. j \in Proposals /\ work[w].attempt \in 1..MaxAttempts /\ job[j] = "running"
  BY OwnedIsRunning
<1>2. /\ receipts' = receipts \cup {r}
      /\ job' = [job EXCEPT ![j] = verdict]
      /\ claim' = [claim EXCEPT ![j] = NoClaim]
      /\ UNCHANGED queue
  BY DEF Settle
<1>3. r \in [job : Proposals, attempt : 1..MaxAttempts, worker : Workers, status : Verdicts]
      /\ r.job = j /\ r.status = verdict
  BY <1>1
<1> HIDE DEF j, r
<1>4. RowsTyped
  BY WorkerInvParts
<1>5. RowsTyped'
  BY <1>1, <1>2, <1>3, <1>4 DEF RowsTyped
<1>6. ASSUME NEW k \in Proposals
      PROVE  LET own == {x \in receipts' : x.job = k}
             IN /\ (job'[k] = "running") <=> (claim'[k] # NoClaim)
                /\ IF job'[k] \in Verdicts THEN \E x \in own : own = {x} /\ x.status = job'[k]
                   ELSE own = {}
  <2>1. CASE k = j
    <3>1. {x \in receipts : x.job = j} = {}
      BY <1>1 DEF WorkerInv, OneVerdictPerJob, Verdicts
    <3>2. {x \in receipts' : x.job = j} = {r}
      BY <1>2, <1>3, <3>1
    <3>3. job'[j] = verdict /\ claim'[j] = NoClaim
      BY <1>1, <1>2, <1>4 DEF RowsTyped
    <3> QED BY <1>3, <2>1, <3>2, <3>3 DEF Verdicts
  <2>2. CASE k # j
    <3>1. {x \in receipts' : x.job = k} = {x \in receipts : x.job = k}
      BY <1>2, <1>3, <2>2
    <3>2. job'[k] = job[k] /\ claim'[k] = claim[k]
      BY <1>2, <1>4, <2>2 DEF RowsTyped
    <3> QED BY <3>1, <3>2 DEF WorkerInv, OneVerdictPerJob
  <2> QED BY <2>1, <2>2
<1> QED BY <1>5, <1>6 DEF OneVerdictPerJob

LEMMA SettleKeepsInv ==
  ASSUME WorkerInv, WorkerAssumption, StoreInv', NEW w \in Workers, NEW verdict \in Verdicts,
         Busy(w), Owns(w), Settle(w, verdict)
  PROVE  WorkerInv'
<1>1. WorkTyped' /\ BusyHasJob'
  BY NextIterationIsTyped, WorkerInvParts DEF Settle
<1> QED BY <1>1, SettleKeepsRows, PartsMakeWorkerInv

\* A step that touches neither the store nor the rows of jobs.
LEMMA WorkChangesKeepInv ==
  ASSUME WorkerInv, UNCHANGED <<vars, job, queue, claim, receipts>>, WorkTyped', BusyHasJob'
  PROVE  WorkerInv'
<1>1. StoreInv'
  BY DEF WorkerInv, StoreInv, TypeOK, Sound, Stored, PendingFounded, vars
<1>2. RowsTyped' /\ OneVerdictPerJob'
  BY WorkerInvParts DEF RowsTyped, OneVerdictPerJob
<1> QED BY <1>1, <1>2, PartsMakeWorkerInv

----------------------------------------------------------------------------
(* The steps *)

Assumptions == ConstantsAssumption /\ WorkerAssumption

\* The invocation w now stands at x.
MovesTo(w, x) == work' = [work EXCEPT ![w] = x]

LEMMA MoveKeepsInv ==
  ASSUME WorkerInv, NEW w \in Workers, NEW x, MovesTo(w, x),
         x \in [phase : Phases, job : Proposals \cup {NoJob}, attempt : 0..MaxAttempts,
                left : 0..BatchLimit],
         x.phase \in {"promoting", "failing"} =>
           x.job \in Proposals /\ x.attempt \in 1..MaxAttempts,
         UNCHANGED <<vars, job, queue, claim, receipts, stops>>, stop' \in BOOLEAN
  PROVE  WorkerInv'
<1>1. WorkTyped' /\ BusyHasJob'
  BY WorkerInvParts DEF WorkTyped, BusyHasJob, Busy, MovesTo
<1> QED BY <1>1, WorkChangesKeepInv

LEMMA EnqueueKeepsInv ==
  ASSUME WorkerInv, NEW p \in Proposals, Enqueue(p) PROVE WorkerInv'
<1>1. StoreInv' /\ WorkTyped' /\ BusyHasJob'
  BY WorkerInvParts DEF Enqueue, StoreInv, TypeOK, Sound, Stored, PendingFounded, vars,
                        WorkTyped, BusyHasJob, Busy
<1>2. RowsTyped
  BY WorkerInvParts
<1>3. RowsTyped'
  BY <1>2 DEF Enqueue, RowsTyped
<1>4. OneVerdictPerJob'
  BY <1>2 DEF Enqueue, RowsTyped, WorkerInv, OneVerdictPerJob, Verdicts
<1> QED BY <1>1, <1>3, <1>4, PartsMakeWorkerInv

LEMMA ExpireKeepsInv ==
  ASSUME WorkerInv, NEW p \in Proposals, Expire(p) PROVE WorkerInv'
<1> DEFINE c == [claim[p] EXCEPT !.live = FALSE]
<1>1. StoreInv' /\ WorkTyped' /\ BusyHasJob'
  BY WorkerInvParts DEF Expire, StoreInv, TypeOK, Sound, Stored, PendingFounded, vars,
                        WorkTyped, BusyHasJob, Busy
<1>2. RowsTyped
  BY WorkerInvParts
<1>3. claim[p] \in ClaimRow
  BY <1>2 DEF RowsTyped, Expire
<1>4. c \in ClaimRow /\ claim' = [claim EXCEPT ![p] = c]
  BY <1>3 DEF ClaimRow, Expire
<1>5. c # NoClaim
  BY <1>4, NoClaimAssumption
<1> HIDE DEF c
<1>6. RowsTyped'
  BY <1>2, <1>4 DEF Expire, RowsTyped
<1>7. \A k \in Proposals : (claim'[k] # NoClaim) <=> (claim[k] # NoClaim)
  BY <1>2, <1>4, <1>5 DEF RowsTyped, Expire
<1>8. OneVerdictPerJob'
  BY <1>7 DEF Expire, WorkerInv, OneVerdictPerJob
<1> QED BY <1>1, <1>6, <1>8, PartsMakeWorkerInv

LEMMA ClaimKeepsInv ==
  ASSUME WorkerInv, Assumptions, NEW w \in Workers, Claim(w) PROVE WorkerInv'
<1>1. PICK i \in DOMAIN queue :
         /\ Oldest(i)
         /\ NextAttempt(queue[i]) <= MaxAttempts
         /\ claim' = [claim EXCEPT ![queue[i]] =
              [worker |-> w, attempt |-> NextAttempt(queue[i]), live |-> TRUE]]
         /\ job' = [job EXCEPT ![queue[i]] = "running"]
         /\ work' = [work EXCEPT ![w] =
              [phase |-> "promoting", job |-> queue[i], attempt |-> NextAttempt(queue[i]),
               left |-> @.left - 1]]
  BY DEF Claim
<1>2. RowsTyped /\ WorkTyped /\ OneVerdictPerJob /\ BusyHasJob
  BY WorkerInvParts
<1> DEFINE j == queue[i]
           a == NextAttempt(j)
           c == [worker |-> w, attempt |-> a, live |-> TRUE]
           x == [phase |-> "promoting", job |-> j, attempt |-> a, left |-> work[w].left - 1]
<1>3. j \in Proposals
  BY <1>2 DEF RowsTyped
<1>4. a \in 1..MaxAttempts
  <2>1. a \in Nat \ {0}
    BY <1>3, NextAttemptIsPositive DEF WorkerInv, Assumptions
  <2> QED BY <1>1, <2>1 DEF Assumptions, WorkerAssumption
<1>5. c \in ClaimRow /\ c # NoClaim
  <2> HIDE DEF a, j
  <2>1. c \in ClaimRow
    BY <1>4 DEF ClaimRow
  <2> HIDE DEF c
  <2> QED BY <2>1, NoClaimAssumption
<1>6. work[w].left \in 0..BatchLimit /\ work[w].left > 0
  BY <1>2 DEF WorkTyped, Claim
<1>7. x \in [phase : Phases, job : Proposals \cup {NoJob}, attempt : 0..MaxAttempts,
             left : 0..BatchLimit]
  BY <1>3, <1>4, <1>6 DEF Phases, Assumptions, WorkerAssumption
<1>8. /\ claim' = [claim EXCEPT ![j] = c]
      /\ job' = [job EXCEPT ![j] = "running"]
      /\ work' = [work EXCEPT ![w] = x]
      /\ UNCHANGED <<vars, queue, receipts, stop, stops>>
      /\ Claimable(j)
  BY <1>1 DEF Claim, Oldest
<1>9. x.job = j /\ x.attempt = a
  OBVIOUS
<1> HIDE DEF j, a, c, x
<1>10. RowsTyped'
  <2>1. job' \in [Proposals -> {"none", "queued", "running"} \cup Verdicts]
    BY <1>2, <1>8 DEF RowsTyped
  <2>2. claim' \in [Proposals -> ClaimRow \cup {NoClaim}]
    BY <1>2, <1>5, <1>8 DEF RowsTyped
  <2> QED BY <1>2, <1>8, <2>1, <2>2 DEF RowsTyped
<1>11. WorkTyped' /\ BusyHasJob'
  <2>1. \A y \in Workers : work'[y] = IF y = w THEN x ELSE work[y]
    BY <1>2, <1>8 DEF WorkTyped
  <2>2. WorkTyped'
    BY <1>2, <1>7, <1>8 DEF WorkTyped
  <2>3. BusyHasJob'
    BY <1>2, <1>3, <1>4, <1>9, <2>1 DEF BusyHasJob, Busy
  <2> QED BY <2>2, <2>3
<1>12. OneVerdictPerJob'
  <2>1. {r \in receipts : r.job = j} = {}
    BY <1>2, <1>3, <1>8 DEF Claimable, OneVerdictPerJob, Verdicts
  <2>2. \A k \in Proposals : /\ job'[k] = IF k = j THEN "running" ELSE job[k]
                             /\ claim'[k] = IF k = j THEN c ELSE claim[k]
    BY <1>2, <1>3, <1>8 DEF RowsTyped
  <2> QED BY <1>2, <1>5, <1>8, <2>1, <2>2 DEF OneVerdictPerJob, Verdicts
<1>13. StoreInv'
  BY <1>8 DEF WorkerInv, StoreInv, TypeOK, Sound, Stored, PendingFounded, vars
<1> QED BY <1>10, <1>11, <1>12, <1>13, PartsMakeWorkerInv

LEMMA PromoteKeepsInv ==
  ASSUME WorkerInv, Assumptions, NEW w \in Workers,
         Promote(w) \/ PromoteExisting(w) \/ RecordFailure(w)
  PROVE  WorkerInv'
<1>1. Busy(w) /\ Owns(w)
  BY DEF Promote, PromoteExisting, RecordFailure, Promoting, Busy
<1>2. Settle(w, "succeeded") \/ Settle(w, "failed")
  BY DEF Promote, PromoteExisting, RecordFailure
<1>3. StoreInv'
  <2>1. CASE Promote(w)
    <3>1. work[w].job \in Proposals
      BY <1>1 DEF WorkerInv, BusyHasJob
    <3> QED BY <2>1, <3>1, StoreVersionKeepsStoreInv DEF Promote, Assumptions, WorkerInv
  <2>2. CASE UNCHANGED vars
    BY <2>2 DEF WorkerInv, StoreInv, TypeOK, Sound, Stored, PendingFounded, vars
  <2> QED BY <2>1, <2>2 DEF PromoteExisting, RecordFailure
<1>4. "succeeded" \in Verdicts /\ "failed" \in Verdicts
  BY DEF Verdicts
<1> QED BY <1>1, <1>2, <1>3, <1>4, SettleKeepsInv DEF Assumptions

LEMMA MovesKeepInv ==
  ASSUME WorkerInv, Assumptions, NEW w \in Workers,
         Start(w) \/ Finish(w) \/ PromoteRaises(w) \/ Discard(w) \/ WorkerCrash(w)
  PROVE  WorkerInv'
<1> DEFINE Stand == [phase : Phases, job : Proposals \cup {NoJob}, attempt : 0..MaxAttempts,
                     left : 0..BatchLimit]
<1>1. WorkTyped /\ BusyHasJob
  BY WorkerInvParts
<1>2. work[w] \in Stand
  BY <1>1 DEF WorkTyped
<1>3. Phases = {"idle", "claiming", "promoting", "failing"} /\ 0 \in 0..MaxAttempts
      /\ 0 \in 0..BatchLimit /\ BatchLimit \in 0..BatchLimit
  BY DEF Phases, Assumptions, WorkerAssumption
<1>4. Idle \in Stand /\ Idle.phase = "idle"
  BY <1>3 DEF Idle
<1>5. CASE Start(w)
  <2> DEFINE x == [Idle EXCEPT !.phase = "claiming", !.left = BatchLimit]
  <2>1. x \in Stand /\ x.phase = "claiming"
    BY <1>3, <1>4
  <2>2. MovesTo(w, x) /\ UNCHANGED <<vars, job, queue, claim, receipts, stops>>
        /\ stop' \in BOOLEAN
    BY <1>5 DEF Start, MovesTo
  <2> HIDE DEF x
  <2> QED BY <2>1, <2>2, MoveKeepsInv
<1>6. CASE Finish(w) \/ WorkerCrash(w)
  <2>1. MovesTo(w, Idle) /\ UNCHANGED <<vars, job, queue, claim, receipts, stops>>
        /\ stop' \in BOOLEAN
    BY <1>1, <1>6 DEF Finish, WorkerCrash, MovesTo, WorkTyped
  <2> QED BY <1>4, <2>1, MoveKeepsInv
<1>7. CASE PromoteRaises(w)
  <2> DEFINE x == [work[w] EXCEPT !.phase = "failing"]
  <2>1. x \in Stand /\ x.job = work[w].job /\ x.attempt = work[w].attempt
    BY <1>2, <1>3
  <2>2. MovesTo(w, x) /\ UNCHANGED <<vars, job, queue, claim, receipts, stops>>
        /\ stop' \in BOOLEAN
    BY <1>1, <1>7 DEF PromoteRaises, MovesTo, WorkTyped
  <2>3. x.job \in Proposals /\ x.attempt \in 1..MaxAttempts
    BY <1>1, <1>7, <2>1 DEF PromoteRaises, Promoting, BusyHasJob, Busy
  <2> HIDE DEF x
  <2> QED BY <2>1, <2>2, <2>3, MoveKeepsInv
<1>8. CASE Discard(w)
  <2>1. WorkTyped' /\ BusyHasJob'
    BY <1>1, <1>8, NextIterationIsTyped DEF Discard, Assumptions
  <2> QED BY <1>8, <2>1, WorkChangesKeepInv DEF Discard
<1> QED BY <1>5, <1>6, <1>7, <1>8

LEMMA NextKeepsWorkerInv ==
  ASSUME WorkerInv, Assumptions, [WorkerNext]_allVars PROVE WorkerInv'
<1>1. CASE Next /\ UNCHANGED workerVars
  <2>1. StoreInv'
    BY <1>1, NextKeepsStoreInv DEF WorkerInv, Assumptions
  <2>2. RowsTyped' /\ WorkTyped' /\ OneVerdictPerJob' /\ BusyHasJob'
    BY <1>1, WorkerInvParts
       DEF workerVars, RowsTyped, WorkTyped, OneVerdictPerJob, BusyHasJob, Busy
  <2> QED BY <2>1, <2>2, PartsMakeWorkerInv
<1>2. CASE \E p \in Proposals : Enqueue(p) \/ Expire(p)
  BY <1>2, EnqueueKeepsInv, ExpireKeepsInv
<1>3. CASE RequestStop
  <2>1. WorkTyped' /\ BusyHasJob'
    BY <1>3, WorkerInvParts
       DEF RequestStop, WorkTyped, BusyHasJob, Busy, Assumptions, WorkerAssumption
  <2> QED BY <1>3, <2>1, WorkChangesKeepInv DEF RequestStop
<1>4. ASSUME NEW w \in Workers, Start(w) \/ WorkerStep(w) \/ WorkerCrash(w) PROVE WorkerInv'
  BY <1>4, ClaimKeepsInv, PromoteKeepsInv, MovesKeepInv DEF WorkerStep
<1>5. CASE UNCHANGED allVars
  <2>1. WorkTyped' /\ BusyHasJob'
    BY <1>5, WorkerInvParts DEF allVars, workerVars, WorkTyped, BusyHasJob, Busy
  <2> QED BY <1>5, <2>1, WorkChangesKeepInv DEF allVars, workerVars
<1> QED BY <1>1, <1>2, <1>3, <1>4, <1>5 DEF WorkerNext

THEOREM WorkerInvariant == WorkerSpec => []WorkerInv
<1>1. WorkerInit => WorkerInv
  BY InitWorkerInv, ConstantsAssumption, WorkerAssumption
<1>2. WorkerInv /\ [WorkerNext]_allVars => WorkerInv'
  BY NextKeepsWorkerInv, ConstantsAssumption, WorkerAssumption DEF Assumptions
<1> QED BY <1>1, <1>2, PTL DEF WorkerSpec

\* The tables of the worker and the stand of every invocation keep their types.
THEOREM WorkerTypeCorrect == WorkerSpec => []WorkerTypeOK
<1>1. WorkerInv => WorkerTypeOK
  BY DEF WorkerInv
<1> QED BY <1>1, WorkerInvariant, PTL

\* However many workers claim, stall, lose their lease and come back, a job is
\* settled once: it has one receipt, with its verdict, and no claim any more.
THEOREM OneVerdict == WorkerSpec => []OneVerdictPerJob
<1>1. WorkerInv => OneVerdictPerJob
  BY DEF WorkerInv
<1> QED BY <1>1, WorkerInvariant, PTL

----------------------------------------------------------------------------
(* Worker and store implement the ledger *)

\* What the ledger's variables stand for.
VerdictOf == [j \in Proposals |-> IF job[j] = "running" THEN "queued" ELSE job[j]]
WrittenSet == {p \in Proposals : proposal[p].status = "written"}

LEMMA LedgerSteps ==
  /\ \A j \in Proposals :
       \/ VerdictOf[j] = "none" /\ VerdictOf' = [VerdictOf EXCEPT ![j] = "queued"]
          /\ WrittenSet' = WrittenSet
       \/ VerdictOf[j] = "queued" /\ VerdictOf' = [VerdictOf EXCEPT ![j] = "succeeded"]
          /\ WrittenSet' = WrittenSet \cup {j}
       \/ VerdictOf[j] = "queued" /\ VerdictOf' = [VerdictOf EXCEPT ![j] = "failed"]
          /\ WrittenSet' = WrittenSet
       \/ j \notin WrittenSet /\ WrittenSet' = WrittenSet \cup {j} /\ VerdictOf' = VerdictOf
       => Ledger!Next
  /\ VerdictOf' = VerdictOf /\ WrittenSet' = WrittenSet => UNCHANGED Ledger!ledger
BY DEF Ledger!Next, Ledger!Enqueue, Ledger!Succeed, Ledger!Fail, Ledger!WriteElsewhere,
       Ledger!ledger, VerdictOf, WrittenSet

\* A step that changes one job's status changes one verdict.
LEMMA VerdictChanges ==
  ASSUME RowsTyped, NEW j \in Proposals, NEW st, job' = [job EXCEPT ![j] = st]
  PROVE  VerdictOf' = [VerdictOf EXCEPT ![j] = IF st = "running" THEN "queued" ELSE st]
BY DEF RowsTyped, VerdictOf

LEMMA VarsKeepWritten == ASSUME UNCHANGED vars PROVE WrittenSet' = WrittenSet
BY DEF vars, WrittenSet

\* A stored version writes its own proposal, which was approved before.
LEMMA StoreWritesOne ==
  ASSUME TypeOK, NEW p \in Proposals, StoreVersion(p)
  PROVE  p \notin WrittenSet /\ WrittenSet' = WrittenSet \cup {p}
<1>1. proposal[p].status = "approved" /\ proposal' = [proposal EXCEPT ![p].status = "written"]
  BY DEF StoreVersion, Writable
<1> QED BY <1>1 DEF WrittenSet, TypeOK

LEMMA StoreStepRefines ==
  ASSUME WorkerInv, Next, UNCHANGED workerVars PROVE [Ledger!Next]_(Ledger!ledger)
<1>1. VerdictOf' = VerdictOf
  BY DEF workerVars, VerdictOf
<1>2. TypeOK
  BY DEF WorkerInv, StoreInv
<1>3. CASE SomethingStored
  BY <1>1, <1>2, <1>3, StoreWritesOne, LedgerSteps DEF SomethingStored
<1>4. CASE NothingStored
  BY <1>1, <1>4, LedgerSteps DEF NothingStored, WrittenSet
<1> QED BY <1>2, <1>3, <1>4, StepStoresOrNot

LEMMA SettleRefines ==
  ASSUME WorkerInv, NEW w \in Workers,
         Promote(w) \/ PromoteExisting(w) \/ RecordFailure(w)
  PROVE  Ledger!Next
<1> DEFINE j == work[w].job
<1>1. Busy(w) /\ Owns(w)
  BY DEF Promote, PromoteExisting, RecordFailure, Promoting, Busy
<1>2. j \in Proposals /\ job[j] = "running"
  BY <1>1, OwnedIsRunning
<1>3. VerdictOf[j] = "queued"
  BY <1>2 DEF VerdictOf
<1>4. RowsTyped /\ TypeOK
  BY WorkerInvParts DEF StoreInv
<1>5. CASE Promote(w)
  <2>1. job' = [job EXCEPT ![j] = "succeeded"] /\ StoreVersion(j)
    BY <1>5 DEF Promote, Settle
  <2> HIDE DEF j
  <2>2. VerdictOf' = [VerdictOf EXCEPT ![j] = "succeeded"]
    BY <1>2, <1>4, <2>1, VerdictChanges
  <2> QED BY <1>2, <1>3, <1>4, <2>1, <2>2, StoreWritesOne, LedgerSteps
<1>6. CASE PromoteExisting(w)
  <2>1. job' = [job EXCEPT ![j] = "succeeded"] /\ j \in WrittenSet /\ WrittenSet' = WrittenSet
    BY <1>2, <1>6, VarsKeepWritten DEF PromoteExisting, Settle, WrittenSet
  <2> HIDE DEF j
  <2>2. VerdictOf' = [VerdictOf EXCEPT ![j] = "succeeded"]
    BY <1>2, <1>4, <2>1, VerdictChanges
  <2>3. WrittenSet' = WrittenSet \cup {j}
    BY <2>1
  <2> QED BY <1>2, <1>3, <2>2, <2>3, LedgerSteps
<1>7. CASE RecordFailure(w)
  <2>1. job' = [job EXCEPT ![j] = "failed"] /\ WrittenSet' = WrittenSet
    BY <1>7, VarsKeepWritten DEF RecordFailure, Settle
  <2> HIDE DEF j
  <2>2. VerdictOf' = [VerdictOf EXCEPT ![j] = "failed"]
    BY <1>2, <1>4, <2>1, VerdictChanges
  <2> QED BY <1>2, <1>3, <2>1, <2>2, LedgerSteps
<1> QED BY <1>5, <1>6, <1>7

\* Taking a job, and taking it over, is nothing that the ledger sees.
LEMMA ClaimStutters ==
  ASSUME WorkerInv, NEW w \in Workers, Claim(w) PROVE UNCHANGED Ledger!ledger
<1>1. PICK i \in DOMAIN queue : job' = [job EXCEPT ![queue[i]] = "running"] /\ Oldest(i)
  BY DEF Claim
<1>2. RowsTyped
  BY WorkerInvParts
<1> DEFINE j == queue[i]
<1>3. j \in Proposals
  BY <1>2 DEF RowsTyped
<1>4. VerdictOf[j] = "queued" /\ VerdictOf' = [VerdictOf EXCEPT ![j] = "queued"]
  <2>1. job[j] \in {"queued", "running"}
    BY <1>1 DEF Oldest, Claimable
  <2> HIDE DEF j
  <2>2. VerdictOf[j] = "queued"
    BY <1>3, <2>1 DEF VerdictOf
  <2> QED BY <1>1, <1>2, <1>3, <2>2, VerdictChanges DEF j
<1>5. VerdictOf' = VerdictOf
  BY <1>3, <1>4 DEF VerdictOf
<1> QED BY <1>5, VarsKeepWritten, LedgerSteps DEF Claim

LEMMA EnqueueRefines ==
  ASSUME WorkerInv, NEW p \in Proposals, Enqueue(p) PROVE Ledger!Next
<1>1. job[p] = "none" /\ job' = [job EXCEPT ![p] = "queued"] /\ WrittenSet' = WrittenSet
  BY VarsKeepWritten DEF Enqueue
<1>2. VerdictOf[p] = "none"
  BY <1>1 DEF VerdictOf
<1>3. VerdictOf' = [VerdictOf EXCEPT ![p] = "queued"]
  BY <1>1, VerdictChanges, WorkerInvParts
<1> QED BY <1>1, <1>2, <1>3, LedgerSteps

LEMMA SameJobsStutters ==
  ASSUME UNCHANGED <<vars, job>> PROVE UNCHANGED Ledger!ledger
BY VarsKeepWritten, LedgerSteps DEF VerdictOf

LEMMA StepRefines ==
  ASSUME WorkerInv, [WorkerNext]_allVars PROVE [Ledger!Next]_(Ledger!ledger)
<1>1. CASE Next /\ UNCHANGED workerVars
  BY <1>1, StoreStepRefines
<1>2. ASSUME NEW p \in Proposals, Enqueue(p) \/ Expire(p)
      PROVE  [Ledger!Next]_(Ledger!ledger)
  BY <1>2, EnqueueRefines, SameJobsStutters DEF Expire
<1>3. CASE RequestStop
  BY <1>3, SameJobsStutters DEF RequestStop
<1>4. ASSUME NEW w \in Workers, Start(w) \/ WorkerStep(w) \/ WorkerCrash(w)
      PROVE  [Ledger!Next]_(Ledger!ledger)
  <2>1. CASE Claim(w)
    BY <2>1, ClaimStutters
  <2>2. CASE Promote(w) \/ PromoteExisting(w) \/ RecordFailure(w)
    BY <2>2, SettleRefines
  <2>3. CASE UNCHANGED <<vars, job>>
    BY <2>3, SameJobsStutters
  <2> QED BY <1>4, <2>1, <2>2, <2>3
          DEF WorkerStep, Start, Finish, PromoteRaises, Discard, WorkerCrash
<1>5. CASE UNCHANGED allVars
  BY <1>5, SameJobsStutters DEF allVars, workerVars
<1> QED BY <1>1, <1>2, <1>3, <1>4, <1>5 DEF WorkerNext

\* Every behaviour of workers, operators, leases and crashes over the store is
\* one of the ledger: a verdict is final, and "succeeded" comes with the memory.
THEOREM WorkerImplementsLedger == WorkerSpec => ImplementsLedger
<1>1. WorkerInit => Ledger!Init
  <2> SUFFICES ASSUME WorkerInit PROVE Ledger!Init
    OBVIOUS
  <2>1. \A j \in Proposals : job[j] = "none" /\ proposal[j].status = "none"
    BY DEF WorkerInit, Init
  <2>2. {p \in Proposals : proposal[p].status = "written"} = {}
    BY <2>1
  <2> QED BY <2>1, <2>2 DEF Ledger!Init
<1>2. WorkerInv /\ [WorkerNext]_allVars => [Ledger!Next]_(Ledger!ledger)
  BY StepRefines
<1> QED BY <1>1, <1>2, WorkerInvariant, PTL DEF WorkerSpec, ImplementsLedger, Ledger!Spec

=============================================================================
