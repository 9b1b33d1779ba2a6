----------------------- MODULE MarkdownEvidenceProofs -----------------------
(***************************************************************************)
(* Proofs about MarkdownEvidence, for any blocks, lengths, ages, weights   *)
(* and bounds: types, that an ingestion leaves no block of the file        *)
(* without evidence, that what a trim removes stays citable, and how far   *)
(* the promotion gate can differ from the overflow planner.                *)
(*                                                                         *)
(* Rows of events name the operation that inserted them, and an id that    *)
(* exists is not inserted again: an event of a trim belongs to a trim of   *)
(* the same content, which is pending, completed or rolled back            *)
(* (EventsBelong), so that a rollback leaves the evidence of a file and    *)
(* of trims of other contents alone.  The gate reads the age of memories   *)
(* and the planner that of the event; a memory is no older than the oldest *)
(* event that it cites (Founded).                                          *)
(***************************************************************************)
EXTENDS MarkdownEvidence, FiniteSetTheorems, SequenceTheorems, TLAPS

NothingFromTheFuture == \A e \in events : e.second <= now

\* The events of ingestion have no operation, and so no rollback withdraws
\* them; those of a trim are of a trim of their content.
OfCompleted(e) ==
  /\ e.op \in DOMAIN trims
  /\ trims[e.op].before = e.id.before
  /\ e.status = "committed" \/ trims[e.op].rolled

OfPending(e) ==
  trim # NoTrim /\ e.op = trim.op /\ e.id.before = trim.before /\ e.status = "committed"

EventsBelong ==
  \A e \in events :
    IF e.id.kind = "file" THEN e.op = 0 /\ e.status = "committed"
    ELSE OfCompleted(e) \/ OfPending(e)

Known(x) == \E e \in events : e.id = x

\* A trim that has recorded what it removed has an event for every block of it.
TrimsAreRecorded ==
  /\ \A op \in DOMAIN trims : \A x \in TrimIds(trims[op].removed, trims[op].before) : Known(x)
  /\ trim # NoTrim =>
       /\ trim.op = Len(trims) + 1
       /\ trim.phase # "replaced" => \A x \in TrimIds(trim.removed, trim.before) : Known(x)

\* A memory cites an event that is at least as old: the one it was created on.
Founded ==
  \A m \in memories : \E e \in events : e.id \in m.events /\ e.second <= m.created

EvidenceInv ==
  /\ EvidenceTypeOK
  /\ NothingFromTheFuture
  /\ EventsBelong
  /\ TrimsAreRecorded
  /\ Founded
  /\ IngestIsComplete

----------------------------------------------------------------------------
(* The blocks at some indices *)

LEMMA RangeIsFinite ==
  ASSUME NEW n \in Nat, NEW S \in SUBSET (1..n)
  PROVE  IsFiniteSet(S) /\ Cardinality(S) \in Nat
<1>1. IsFiniteSet(1..n)
  BY FS_Interval
<1>2. IsFiniteSet(S)
  BY <1>1, FS_Subset
<1> QED BY <1>2, FS_CardinalityType

\* The position of an index among others takes each value up to their number
\* once: it grows with the index.
LEMMA EveryRankIsTaken ==
  ASSUME NEW n \in Nat, NEW S \in SUBSET (1..n), NEW k \in 1..Cardinality(S)
  PROVE  \E i \in S : Cardinality({j \in S : j <= i}) = k
<1> DEFINE Upto(i) == {j \in S : j <= i}
           rank == [i \in S |-> Cardinality(Upto(i))]
           N == Cardinality(S)
<1>1. IsFiniteSet(S) /\ N \in Nat
  BY RangeIsFinite
<1>2. \A i \in S : IsFiniteSet(Upto(i)) /\ rank[i] \in 1..N
  <2> TAKE i \in S
  <2>1. IsFiniteSet(Upto(i)) /\ Cardinality(Upto(i)) <= N
    BY <1>1, FS_Subset
  <2>2. i \in Upto(i)
    OBVIOUS
  <2>3. Cardinality(Upto(i)) \in Nat /\ Cardinality(Upto(i)) # 0
    BY <2>1, <2>2, FS_CardinalityType, FS_EmptySet
  <2> QED BY <1>1, <2>1, <2>3
<1>3. ASSUME NEW i \in S, NEW j \in S, i < j
      PROVE  rank[i] < rank[j]
  <2>1. i \in Int /\ j \in Int /\ \A x \in S : x \in Int
    OBVIOUS
  <2>2. Upto(i) \subseteq Upto(j)
    <3> SUFFICES ASSUME NEW x \in S, x <= i
                 PROVE  x <= j
      OBVIOUS
    <3> QED BY <1>3, <2>1
  <2>3. j \in Upto(j) /\ j \notin Upto(i)
    BY <1>3, <2>1
  <2>4. Upto(i) # Upto(j)
    BY <2>3
  <2> QED BY <1>2, <2>2, <2>4, FS_Subset
<1>4. rank \in Injection(S, 1..N)
  <2>1. rank \in [S -> 1..N]
    BY <1>2
  <2>2. \A i, j \in S : rank[i] = rank[j] => i = j
    <3> SUFFICES ASSUME NEW i \in S, NEW j \in S, rank[i] = rank[j], i # j
                 PROVE  FALSE
      OBVIOUS
    <3>1. rank[i] \in 1..N /\ rank[j] \in 1..N /\ (i < j \/ j < i)
      BY <1>2
    <3> HIDE DEF rank, N
    <3> QED BY <1>3, <3>1
  <2> HIDE DEF rank
  <2> QED BY <2>1, <2>2 DEF Injection, IsInjective
<1>5. IsFiniteSet(1..N) /\ Cardinality(1..N) = N
  BY <1>1, FS_Interval
<1>6. rank \in Surjection(S, 1..N)
  <2> HIDE DEF rank
  <2> QED BY <1>1, <1>4, <1>5, FS_Injection
<1> QED BY <1>6 DEF Surjection

LEMMA PartOfContent ==
  ASSUME NEW f \in Contents, NEW indices \in SUBSET (DOMAIN f)
  PROVE  Part(f, indices) \in Contents
<1> DEFINE Kth(k) == CHOOSE i \in indices : Cardinality({j \in indices : j <= i}) = k
           n == Cardinality(indices)
<1> USE DEF Contents
<1>0. Len(f) \in Nat /\ DOMAIN f = 1..Len(f) /\ \A i \in DOMAIN f : f[i] \in Blocks
  OBVIOUS
<1>1. n \in Nat
  BY <1>0, RangeIsFinite
<1>2. \A k \in 1..n : Kth(k) \in indices
  <2>1. Len(f) \in Nat /\ indices \in SUBSET (1..Len(f))
    BY <1>0
  <2>2. \A k \in 1..n : \E i \in indices : Cardinality({j \in indices : j <= i}) = k
    BY <2>1, EveryRankIsTaken
  <2> QED BY <2>2
<1>3. \A k \in 1..n : f[Kth(k)] \in Blocks
  <2> HIDE DEF Kth, n
  <2> QED BY <1>0, <1>2
<1>4. Part(f, indices) = [k \in 1..n |-> f[Kth(k)]]
  BY DEF Part
<1> HIDE DEF Kth, n
<1> QED BY <1>1, <1>3, <1>4

LEMMA IdsOfContent ==
  ASSUME NEW f \in Contents, NEW before \in Contents
  PROVE  /\ FileIds(f) \subseteq Ids /\ \A x \in FileIds(f) : x.kind = "file"
         /\ TrimIds(f, before) \subseteq Ids /\ \A x \in TrimIds(f, before) : x.kind = "trim"
<1>1. \A i \in DOMAIN f : i \in Nat /\ f[i] \in Blocks
  BY DEF Contents
<1>2. <<>> \in Contents
  BY DEF Contents
<1>3. FileIds(f) \subseteq Ids /\ \A x \in FileIds(f) : x.kind = "file"
  <2> SUFFICES ASSUME NEW i \in DOMAIN f
               PROVE  [kind |-> "file", pos |-> i, block |-> f[i], before |-> <<>>] \in Ids
    BY DEF FileIds
  <2> QED BY <1>1, <1>2 DEF Ids
<1>4. TrimIds(f, before) \subseteq Ids /\ \A x \in TrimIds(f, before) : x.kind = "trim"
  BY <1>1 DEF TrimIds, Ids, Contents
<1> QED BY <1>3, <1>4

----------------------------------------------------------------------------
(* Inserting events *)

Row(x, op) == [id |-> x, second |-> now, status |-> "committed", op |-> op]

\* An insertion adds rows of this second with ids that had none.
LEMMA InsertAdds ==
  ASSUME NEW ids, NEW op, Insert(ids, op)
  PROVE  /\ events \subseteq events'
         /\ \A e \in events' \ events : \E x \in ids : e = Row(x, op) /\ \A d \in events : d.id # x
         /\ \A x \in Inserted(ids) : Row(x, op) \in events'
BY DEF Insert, Inserted, NewIds, Row

LEMMA InsertKeepsTypes ==
  ASSUME EvidenceInv, NEW ids \in SUBSET Ids, NEW op \in 0..MaxOps, Insert(ids, op)
  PROVE  /\ events' \subseteq EventRows
         /\ \A e \in events' : e.second <= now
         /\ \A d, e \in events' : d.id = e.id => d = e
<1>1. now \in 0..MaxNow /\ MaxNow \in Nat
  BY EvidenceAssumption DEF EvidenceInv, EvidenceTypeOK
<1>2. ASSUME NEW e \in events'
      PROVE  \/ e \in events
             \/ \E x \in ids : e = Row(x, op) /\ \A d \in events : d.id # x
  BY InsertAdds
<1>3. ASSUME NEW e \in events'
      PROVE  e \in EventRows /\ e.second <= now
  <2>1. CASE e \in events
    BY <2>1 DEF EvidenceInv, EvidenceTypeOK, NothingFromTheFuture
  <2>2. CASE \E x \in ids : e = Row(x, op)
    BY <1>1, <2>2 DEF Row, EventRows
  <2> QED BY <1>2, <2>1, <2>2
<1>4. ASSUME NEW d \in events', NEW e \in events', d.id = e.id
      PROVE  d = e
  <2>1. CASE d \in events /\ e \in events
    BY <1>4, <2>1 DEF EvidenceInv, EvidenceTypeOK
  <2>2. CASE d \notin events /\ e \notin events
    BY <1>2, <1>4, <2>2 DEF Row
  <2>3. CASE d \in events /\ e \notin events
    BY <1>2, <1>4, <2>3 DEF Row
  <2>4. CASE d \notin events /\ e \in events
    BY <1>2, <1>4, <2>4 DEF Row
  <2> QED BY <2>1, <2>2, <2>3, <2>4
<1> QED BY <1>3, <1>4

\* Without a clash every id has an event afterwards, its own or an older one.
LEMMA InsertCompletes ==
  ASSUME EvidenceInv, NEW ids \in SUBSET Ids, NEW op, Insert(ids, op), ~ Clash(ids)
  PROVE  \A x \in ids : \E e \in events' :
           e.id = x /\ e.second <= now /\ (e \in events \/ e = Row(x, op))
<1> TAKE x \in ids
<1>1. now \in Int
  BY DEF EvidenceInv, EvidenceTypeOK
<1>2. CASE \E e \in events : e.id = x
  BY <1>2, InsertAdds DEF EvidenceInv, NothingFromTheFuture
<1>3. CASE \A e \in events : e.id # x
  <2>1. x \in NewIds(ids) /\ x.pos \in Nat
    BY <1>3 DEF NewIds, Ids
  <2>2. \A e \in events : ~ (e.id.block = x.block /\ e.second = now)
    BY <2>1 DEF Clash
  <2>3. \A y \in NewIds(ids) : y.block = x.block => y = x
    BY <2>1 DEF Clash
  <2>4. x \in Inserted(ids)
    BY <2>1, <2>2, <2>3 DEF Inserted
  <2>5. Row(x, op) \in events' /\ Row(x, op).id = x /\ Row(x, op).second <= now
    BY <1>1, <2>4, InsertAdds DEF Row
  <2> QED BY <2>5
<1> QED BY <1>2, <1>3

----------------------------------------------------------------------------
(* The gate *)

LEMMA TopIsABand ==
  ASSUME NEW bands
  PROVE  /\ Top(bands) \in Bands
         /\ Top(bands) # "low" => bands # {}
BY DEF Top, Bands

LEMMA SignalsTyped ==
  ASSUME NEW id
  PROVE  Signals(id).stability \in Bands
BY TopIsABand DEF Signals

\* What the gate promotes has a linked memory that is no longer recent.
LEMMA GateSeesAnOldMemory ==
  ASSUME EvidenceInv, NEW id, GatePromotes(id)
  PROVE  \E m \in Linked(id) : now - m.created >= RecentAge
<1>1. Linked(id) # {}
  <2>1. Top({m.stability : m \in Linked(id)}) # "low"
    BY DEF GatePromotes, Signals
  <2> QED BY <2>1, TopIsABand
<1>2. ~ Recent(id)
  BY DEF GatePromotes, Protected
<1>3. PICK m \in Linked(id) : ~ (now - m.created < RecentAge)
  BY <1>1, <1>2 DEF Recent
<1>4. m.created \in Int /\ now \in Int /\ RecentAge \in Int
  BY EvidenceAssumption DEF Linked, EvidenceInv, EvidenceTypeOK, MemoryRows
<1> QED BY <1>3, <1>4

\* Where the planner protects what the gate promotes, and no policy does, it
\* protects the event for its age, which is less than that of the memory.
LEMMA BypassesAreKnown ==
  ASSUME EvidenceInv
  PROVE  BypassNeedsPolicyOrRevision
<1> SUFFICES ASSUME NEW e \in Candidates, GatePromotes(e.id), "protect" \in PlannedActions(e),
                    ~ Signals(e.id).retained
             PROVE  \E m \in Linked(e.id), d \in events :
                      d.id \in m.events /\ d.second < e.second
  BY DEF BypassNeedsPolicyOrRevision
<1>1. now - e.second < RecentAge
  <2>1. SUFFICES ASSUME ~ (now - e.second < RecentAge)
                 PROVE  FALSE
    OBVIOUS
  <2>2. ~ Protected(e.id.block, Signals(e.id), now - e.second < RecentAge)
    BY <2>1 DEF GatePromotes, Protected
  <2>3. \A duplicate \in BOOLEAN :
          CandidateAction(duplicate, e.id.block, Signals(e.id), now - e.second) # "protect"
    BY <2>2 DEF CandidateAction
  <2> QED BY <2>3 DEF PlannedActions
<1>2. PICK m \in Linked(e.id) : now - m.created >= RecentAge
  BY GateSeesAnOldMemory
<1>3. PICK d \in events : d.id \in m.events /\ d.second <= m.created
  BY DEF Linked, EvidenceInv, Founded
<1>4. m \in memories /\ e \in events
  BY DEF Linked, Candidates
<1>5. e.second \in Int /\ d.second \in Int /\ m.created \in Int /\ now \in Int /\ RecentAge \in Int
  BY <1>4, EvidenceAssumption DEF EvidenceInv, EvidenceTypeOK, EventRows, MemoryRows
<1>6. d.second < e.second
  BY <1>1, <1>2, <1>3, <1>5
<1> QED BY <1>3, <1>6

\* An event of a completed trim is committed, or a trim of its content was
\* rolled back.
LEMMA RemovedBlocksAreCitable ==
  ASSUME EvidenceInv
  PROVE  RemovedStaysCitable
<1> SUFFICES ASSUME NEW op \in DOMAIN trims, ~ trims[op].rolled,
                    NEW x \in TrimIds(trims[op].removed, trims[op].before),
                    ~ Committed(x)
             PROVE  \E o \in DOMAIN trims : trims[o].rolled /\ trims[o].before = trims[op].before
  BY DEF RemovedStaysCitable
<1>1. PICK e \in events : e.id = x
  BY DEF EvidenceInv, TrimsAreRecorded, Known
<1>2. e.status # "committed" /\ e.id.kind = "trim" /\ e.id.before = trims[op].before
  BY <1>1 DEF Committed, TrimIds
<1>3. OfCompleted(e)
  BY <1>2 DEF EvidenceInv, EventsBelong, OfPending
<1> QED BY <1>2, <1>3 DEF OfCompleted

----------------------------------------------------------------------------
(* The steps *)

\* What a step keeps that touches neither events, memories nor trims.
LEMMA QuietStep ==
  ASSUME EvidenceInv, UNCHANGED <<events, memories, ingested, trim, trims>>,
         now' \in now..MaxNow, EvidenceTypeOK'
  PROVE  EvidenceInv'
<1>1. EventsBelong' /\ Founded'
  BY DEF EvidenceInv, EventsBelong, OfCompleted, OfPending, Founded
<1>2. TrimsAreRecorded'
  BY DEF EvidenceInv, TrimsAreRecorded, Known, TrimIds
<1>3. NothingFromTheFuture'
  BY DEF EvidenceInv, NothingFromTheFuture, EvidenceTypeOK, EventRows
<1>4. IngestIsComplete'
  BY DEF EvidenceInv, IngestIsComplete, Committed, FileIds
<1> QED BY <1>1, <1>2, <1>3, <1>4 DEF EvidenceInv

\* What a step keeps that changes neither events, ingestion nor the clock.
LEMMA SameEvents ==
  ASSUME EvidenceInv, UNCHANGED <<events, ingested, now>>
  PROVE  NothingFromTheFuture' /\ IngestIsComplete'
<1>1. NothingFromTheFuture'
  BY DEF EvidenceInv, NothingFromTheFuture
<1>2. IngestIsComplete'
  BY DEF EvidenceInv, IngestIsComplete, Committed, FileIds
<1> QED BY <1>1, <1>2

\* Appending a trim keeps the ones before it.
LEMMA TrimsGrow ==
  ASSUME EvidenceInv, NEW t \in Trims
  PROVE  /\ Append(trims, t) \in Seq(Trims)
         /\ Len(trims) \in Nat
         /\ DOMAIN Append(trims, t) = DOMAIN trims \cup {Len(trims) + 1}
         /\ \A i \in DOMAIN trims : Append(trims, t)[i] = trims[i]
         /\ Append(trims, t)[Len(trims) + 1] = t
<1>1. trims \in Seq(Trims)
  BY DEF EvidenceInv, EvidenceTypeOK
<1> HIDE DEF EvidenceInv
<1>2. Append(trims, t) \in Seq(Trims)
  BY <1>1
<1>3. /\ Len(trims) \in Nat /\ DOMAIN trims = 1..Len(trims)
      /\ DOMAIN Append(trims, t) = 1..(Len(trims) + 1)
  BY <1>1
<1>4. \A i \in 1..Len(trims) : Append(trims, t)[i] = trims[i]
  BY <1>1, AppendProperties
<1>5. Append(trims, t)[Len(trims) + 1] = t
  BY <1>1, AppendProperties
<1> QED BY <1>2, <1>3, <1>4, <1>5

LEMMA EvidenceInit ==
  ASSUME Init
  PROVE  EvidenceInv
<1>1. EvidenceTypeOK
  <2>1. Files \subseteq Contents
    BY EvidenceAssumption DEF Contents
  <2> QED BY <2>1, EvidenceAssumption DEF Init, EvidenceTypeOK
<1>2. EventsBelong /\ Founded /\ NothingFromTheFuture
  BY DEF Init, EventsBelong, Founded, NothingFromTheFuture
<1>3. IngestIsComplete /\ TrimsAreRecorded
  BY DEF Init, IngestIsComplete, TrimsAreRecorded
<1> QED BY <1>1, <1>2, <1>3 DEF EvidenceInv

LEMMA ElsewhereKeeps ==
  ASSUME EvidenceInv, IngestMissing \/ IngestUnreadable \/ IngestRaises \/ Edit \/ Tick
  PROVE  EvidenceInv'
<1>1. UNCHANGED <<events, memories, ingested, trim, trims>> /\ now' \in now..MaxNow
  BY EvidenceAssumption
  DEF EvidenceInv, EvidenceTypeOK, IngestMissing, IngestUnreadable, IngestRaises, Edit, Tick
<1>2. Files \subseteq Contents /\ MaxNow \in Nat /\ MaxEdits \in Nat /\ EvidenceTypeOK
  BY EvidenceAssumption DEF EvidenceInv, Contents
<1>3. EvidenceTypeOK'
  <2>1. CASE IngestMissing \/ IngestUnreadable \/ IngestRaises
    BY <1>2, <2>1 DEF EvidenceTypeOK, HealthOf, IngestMissing, IngestUnreadable, IngestRaises
  <2>2. CASE Edit
    BY <1>2, <2>2 DEF EvidenceTypeOK, Edit
  <2>3. CASE Tick
    BY <1>2, <2>3 DEF EvidenceTypeOK, Tick
  <2> QED BY <2>1, <2>2, <2>3
<1> QED BY <1>1, <1>3, QuietStep

LEMMA IngestKeeps ==
  ASSUME EvidenceInv, Ingest
  PROVE  EvidenceInv'
<1> DEFINE ids == FileIds(file)
<1>1. EvidenceTypeOK /\ MaxOps \in Nat
  BY EvidenceAssumption DEF EvidenceInv
<1>2. /\ file \in Contents /\ <<>> \in Contents
      /\ Insert(ids, 0) /\ ~ Clash(ids)
      /\ ingested' = file
      /\ UNCHANGED <<memories, now, trim, trims>>
  BY <1>1 DEF Ingest, EvidenceTypeOK, Contents
<1>3. ids \subseteq Ids /\ \A x \in ids : x.kind = "file"
  BY <1>2, IdsOfContent
<1> HIDE DEF ids
<1>4. /\ events' \subseteq EventRows
      /\ \A d, e \in events' : d.id = e.id => d = e
      /\ NothingFromTheFuture'
  <2>1. 0 \in 0..MaxOps /\ ids \in SUBSET Ids
    BY <1>1, <1>3
  <2>2. /\ events' \subseteq EventRows
        /\ \A e \in events' : e.second <= now
        /\ \A d, e \in events' : d.id = e.id => d = e
    BY <1>2, <2>1, InsertKeepsTypes
  <2> QED BY <1>2, <2>2 DEF NothingFromTheFuture
<1>5. EvidenceTypeOK'
  BY <1>1, <1>2, <1>4 DEF EvidenceTypeOK, Ingest, HealthOf
<1>6. EventsBelong'
  <2> SUFFICES ASSUME NEW e \in events'
               PROVE  IF e.id.kind = "file" THEN e.op = 0 /\ e.status = "committed"
                      ELSE (OfCompleted(e) \/ OfPending(e))'
    BY DEF EventsBelong
  <2>1. CASE e \in events
    BY <1>2, <2>1 DEF EvidenceInv, EventsBelong, OfCompleted, OfPending
  <2>2. CASE e \notin events
    BY <1>2, <1>3, <2>2, InsertAdds DEF Row
  <2> QED BY <2>1, <2>2
<1>7. Founded' /\ TrimsAreRecorded'
  <2>1. events \subseteq events'
    BY <1>2, InsertAdds
  <2> QED BY <1>2, <2>1 DEF EvidenceInv, Founded, TrimsAreRecorded, Known, TrimIds
<1>8. IngestIsComplete'
  <2>1. \A x \in ids : \E e \in events' : e.id = x /\ (e \in events \/ e = Row(x, 0))
    BY <1>2, <1>3, InsertCompletes
  <2>2. \A x \in ids : \E e \in events' : e.id = x /\ e.status = "committed"
    BY <1>3, <2>1 DEF EvidenceInv, EventsBelong, Row
  <2>3. FileIds(ingested)' = ids
    BY <1>2 DEF FileIds, ids
  <2> QED BY <2>2, <2>3 DEF IngestIsComplete, Committed
<1> QED BY <1>4, <1>5, <1>6, <1>7, <1>8 DEF EvidenceInv

LEMMA TrimReplacesKeeps ==
  ASSUME EvidenceInv, TrimReplaces
  PROVE  EvidenceInv'
<1> DEFINE kept == Part(file, DOMAIN file \ RemovedIndices(file))
           removed == Part(file, RemovedIndices(file))
<1>1. EvidenceTypeOK /\ file \in Contents /\ Len(trims) \in Nat /\ MaxOps \in Nat
  BY EvidenceAssumption DEF EvidenceInv, EvidenceTypeOK, TrimReplaces
<1>2. kept \in Contents /\ removed \in Contents
  <2>1. RemovedIndices(file) \in SUBSET (DOMAIN file)
    BY DEF RemovedIndices, Removable
  <2> QED BY <1>1, <2>1, PartOfContent
<1>3. /\ file' = kept
      /\ trim = NoTrim
      /\ trim' = [op |-> Len(trims) + 1, before |-> file, after |-> kept, removed |-> removed,
                  phase |-> "replaced"]
      /\ Len(trims) < MaxOps
      /\ UNCHANGED <<source, health, events, trims, memories, now, edits, ingested>>
  BY DEF TrimReplaces
<1> HIDE DEF kept, removed
<1>4. trim' \in PendingTrims
  BY <1>1, <1>2, <1>3 DEF PendingTrims, Phases
<1>5. EvidenceTypeOK'
  BY <1>1, <1>2, <1>3, <1>4 DEF EvidenceTypeOK
<1>6. EventsBelong'
  BY <1>3 DEF EvidenceInv, EventsBelong, OfCompleted, OfPending
<1>7. TrimsAreRecorded'
  <2>1. trim'.op = Len(trims') + 1 /\ trim'.phase = "replaced"
    BY <1>3
  <2>2. \A op \in DOMAIN trims' :
          \A x \in TrimIds(trims'[op].removed, trims'[op].before) : Known(x)'
    BY <1>3 DEF EvidenceInv, TrimsAreRecorded, Known
  <2> QED BY <2>1, <2>2 DEF TrimsAreRecorded, TrimIds
<1>8. Founded'
  BY <1>3 DEF EvidenceInv, Founded
<1> QED BY <1>3, <1>5, <1>6, <1>7, <1>8, SameEvents DEF EvidenceInv

\* Afterwards every removed block has an event, its own or an older one.
LEMMA RecordRemovedKeeps ==
  ASSUME EvidenceInv, RecordRemoved
  PROVE  EvidenceInv'
<1> DEFINE ids == TrimIds(trim.removed, trim.before)
<1>1. EvidenceTypeOK /\ MaxOps \in Nat
  BY EvidenceAssumption DEF EvidenceInv
<1>2. trim # NoTrim /\ trim \in PendingTrims
  BY <1>1 DEF RecordRemoved, EvidenceTypeOK
<1>3. /\ trim.removed \in Contents /\ trim.before \in Contents /\ trim.after \in Contents
      /\ trim.op \in 1..MaxOps /\ trim.op \in 0..MaxOps
  BY <1>1, <1>2 DEF PendingTrims
<1>4. /\ Insert(ids, trim.op) /\ ~ Clash(ids)
      /\ UNCHANGED <<file, trims, memories, now, edits, ingested>>
  BY DEF RecordRemoved
<1>5. /\ trim' \in PendingTrims
      /\ trim'.op = trim.op /\ trim'.before = trim.before /\ trim'.removed = trim.removed
  BY <1>2 DEF RecordRemoved, PendingTrims, Phases
<1>6. /\ ids \subseteq Ids
      /\ \A x \in ids : x.kind = "trim" /\ x.before = trim.before
  BY <1>3, IdsOfContent DEF TrimIds
<1>7. TrimIds(trim'.removed, trim'.before) = ids
  BY <1>5 DEF TrimIds
<1> HIDE DEF ids
<1>8. /\ events' \subseteq EventRows
      /\ \A d, e \in events' : d.id = e.id => d = e
      /\ NothingFromTheFuture'
  <2>1. ids \in SUBSET Ids
    BY <1>6
  <2>2. /\ events' \subseteq EventRows
        /\ \A e \in events' : e.second <= now
        /\ \A d, e \in events' : d.id = e.id => d = e
    BY <1>3, <1>4, <2>1, InsertKeepsTypes
  <2> QED BY <1>4, <2>2 DEF NothingFromTheFuture
<1>9. EvidenceTypeOK'
  <2>1. source' \in {"none", "profile", "trim"}
        /\ health' \in {"none", "healthy", "unavailable", "degraded"}
    BY <1>1 DEF EvidenceTypeOK, RecordRemoved, TrimSource
  <2> QED BY <1>1, <1>4, <1>5, <1>8, <2>1 DEF EvidenceTypeOK
<1>10. events \subseteq events'
  BY <1>4, InsertAdds
<1>11. EventsBelong'
  <2> SUFFICES ASSUME NEW e \in events'
               PROVE  IF e.id.kind = "file" THEN e.op = 0 /\ e.status = "committed"
                      ELSE (OfCompleted(e) \/ OfPending(e))'
    BY DEF EventsBelong
  <2>1. trim' # NoTrim
    BY <1>5, NoTrimAssumption
  <2>2. CASE e \in events
    BY <1>4, <1>5, <2>1, <2>2 DEF EvidenceInv, EventsBelong, OfCompleted, OfPending
  <2>3. CASE e \notin events
    <3>1. PICK x \in ids : e = Row(x, trim.op)
      BY <1>4, <2>3, InsertAdds
    <3>2. e.id = x /\ e.op = trim.op /\ e.status = "committed"
      BY <3>1 DEF Row
    <3> QED BY <1>5, <1>6, <2>1, <3>1, <3>2 DEF OfPending
  <2> QED BY <2>2, <2>3
<1>12. TrimsAreRecorded'
  <2>1. \A x \in ids : Known(x)'
    BY <1>4, <1>6, InsertCompletes DEF Known
  <2>2. \A op \in DOMAIN trims' :
          \A x \in TrimIds(trims'[op].removed, trims'[op].before) : Known(x)'
    BY <1>4, <1>10 DEF EvidenceInv, TrimsAreRecorded, Known
  <2>3. trim'.op = Len(trims') + 1
    BY <1>2, <1>4, <1>5 DEF EvidenceInv, TrimsAreRecorded
  <2> QED BY <1>7, <2>1, <2>2, <2>3 DEF TrimsAreRecorded, TrimIds
<1>13. Founded'
  BY <1>4, <1>10 DEF EvidenceInv, Founded
<1>14. IngestIsComplete'
  <2>1. FileIds(ingested)' = FileIds(ingested)
    BY <1>4 DEF FileIds
  <2> QED BY <1>4, <1>10, <2>1 DEF EvidenceInv, IngestIsComplete, Committed
<1> QED BY <1>8, <1>9, <1>11, <1>12, <1>13, <1>14 DEF EvidenceInv

\* A promotion rests on the event that the trim has recorded.
LEMMA PromoteRemovedKeeps ==
  ASSUME EvidenceInv, PromoteRemoved
  PROVE  EvidenceInv'
<1> DEFINE ids == TrimIds(trim.removed, trim.before)
<1>1. /\ EvidenceTypeOK
      /\ MaxOps \in Nat /\ MaxNow \in Nat /\ now \in 0..MaxNow
  BY EvidenceAssumption DEF EvidenceInv, EvidenceTypeOK
<1>2. trim # NoTrim /\ trim \in PendingTrims /\ trim.phase = "recorded"
  BY <1>1 DEF PromoteRemoved, EvidenceTypeOK
<1>3. /\ trim.removed \in Contents /\ trim.before \in Contents /\ trim.op \in 0..MaxOps
  BY <1>1, <1>2 DEF PendingTrims
<1>4. /\ trim' \in PendingTrims /\ trim' # NoTrim
      /\ trim'.op = trim.op /\ trim'.before = trim.before /\ trim'.removed = trim.removed
      /\ UNCHANGED <<file, source, health, events, trims, now, edits, ingested>>
  <2>1. trim' = [trim EXCEPT !.phase = "promoted"]
    BY DEF PromoteRemoved
  <2>2. trim' \in PendingTrims
    BY <1>2, <2>1 DEF PendingTrims, Phases
  <2>3. trim'.op = trim.op /\ trim'.before = trim.before /\ trim'.removed = trim.removed
    BY <1>2, <2>1 DEF PendingTrims
  <2> QED BY <2>2, <2>3, NoTrimAssumption DEF PromoteRemoved
<1>5. ids \subseteq Ids
  BY <1>3, IdsOfContent
<1>6. TrimIds(trim'.removed, trim'.before) = ids
  BY <1>4 DEF TrimIds
<1>7. \A m \in memories' \ memories : \E x \in ids : m = Promotion(x)
  BY DEF PromoteRemoved, Promotable
<1>8. \A x \in ids : Known(x)
  BY <1>2 DEF EvidenceInv, TrimsAreRecorded
<1> HIDE DEF ids
<1>9. \A x \in ids : /\ Promotion(x) \in MemoryRows
                     /\ x \in Promotion(x).events /\ Promotion(x).created = now
  <2> TAKE x \in ids
  <2>1. Signals(x).stability \in Bands /\ "low" \in Bands
    BY SignalsTyped DEF Bands
  <2>2. x \in Ids /\ x.pos \in Nat
    BY <1>5 DEF Ids
  <2> QED BY <1>1, <1>3, <2>1, <2>2 DEF Promotion, MemoryRows
<1>10. EvidenceTypeOK'
  <2>1. memories' \subseteq MemoryRows
    BY <1>1, <1>7, <1>9 DEF EvidenceTypeOK
  <2> QED BY <1>1, <1>4, <2>1 DEF EvidenceTypeOK
<1>11. EventsBelong'
  BY <1>4 DEF EvidenceInv, EventsBelong, OfCompleted, OfPending
<1>12. TrimsAreRecorded'
  <2>1. \A x \in ids : Known(x)'
    BY <1>4, <1>8 DEF Known
  <2>2. \A op \in DOMAIN trims' :
          \A x \in TrimIds(trims'[op].removed, trims'[op].before) : Known(x)'
    BY <1>4 DEF EvidenceInv, TrimsAreRecorded, Known
  <2>3. trim'.op = Len(trims') + 1
    BY <1>2, <1>4 DEF EvidenceInv, TrimsAreRecorded
  <2> QED BY <1>6, <2>1, <2>2, <2>3 DEF TrimsAreRecorded, TrimIds
<1>13. Founded'
  <2> SUFFICES ASSUME NEW m \in memories'
               PROVE  \E e \in events : e.id \in m.events /\ e.second <= m.created
    BY <1>4 DEF Founded
  <2>1. CASE m \in memories
    BY <2>1 DEF EvidenceInv, Founded
  <2>2. CASE m \notin memories
    <3>1. PICK x \in ids : m = Promotion(x)
      BY <1>7, <2>2
    <3>2. PICK e \in events : e.id = x
      BY <1>8 DEF Known
    <3>3. e.second <= now
      BY DEF EvidenceInv, NothingFromTheFuture
    <3> QED BY <1>9, <3>1, <3>2, <3>3
  <2> QED BY <2>1, <2>2
<1> QED BY <1>4, <1>10, <1>11, <1>12, <1>13, SameEvents DEF EvidenceInv

\* The trim's events pass from the pending trim to the completed one.
LEMMA CompleteTrimKeeps ==
  ASSUME EvidenceInv, CompleteTrim
  PROVE  EvidenceInv'
<1> DEFINE t == [before |-> trim.before, after |-> trim.after, removed |-> trim.removed,
                 rolled |-> FALSE]
<1>1. EvidenceTypeOK
  BY DEF EvidenceInv
<1>2. /\ trim # NoTrim /\ trim \in PendingTrims /\ trim.phase = "promoted"
      /\ trims' = Append(trims, t) /\ trim' = NoTrim
      /\ UNCHANGED <<file, source, health, events, memories, now, edits, ingested>>
  BY <1>1 DEF CompleteTrim, EvidenceTypeOK
<1>3. /\ t \in Trims /\ t.before = trim.before /\ t.removed = trim.removed
  BY <1>2 DEF PendingTrims, Trims
<1>4. /\ trim.op = Len(trims) + 1
      /\ \A x \in TrimIds(t.removed, t.before) : Known(x)
  BY <1>2, <1>3 DEF EvidenceInv, TrimsAreRecorded
<1> HIDE DEF t
<1>5. /\ trims' \in Seq(Trims)
      /\ DOMAIN trims' = DOMAIN trims \cup {trim.op}
      /\ \A i \in DOMAIN trims : trims'[i] = trims[i]
      /\ trims'[trim.op] = t
  BY <1>2, <1>3, <1>4, TrimsGrow
<1>6. EvidenceTypeOK'
  BY <1>1, <1>2, <1>5 DEF EvidenceTypeOK
<1>7. EventsBelong'
  <2> SUFFICES ASSUME NEW e \in events, e.id.kind # "file"
               PROVE  OfCompleted(e)'
    BY <1>2 DEF EvidenceInv, EventsBelong
  <2>1. CASE OfCompleted(e)
    BY <1>5, <2>1 DEF OfCompleted
  <2>2. CASE OfPending(e)
    BY <1>3, <1>5, <2>2 DEF OfCompleted, OfPending
  <2> QED BY <2>1, <2>2 DEF EvidenceInv, EventsBelong
<1>8. TrimsAreRecorded'
  <2> SUFFICES ASSUME NEW op \in DOMAIN trims', NEW x \in TrimIds(trims'[op].removed, trims'[op].before)
               PROVE  Known(x)
    BY <1>2 DEF TrimsAreRecorded, Known, TrimIds
  <2>1. CASE op \in DOMAIN trims
    BY <1>5, <2>1 DEF EvidenceInv, TrimsAreRecorded
  <2>2. CASE op = trim.op
    BY <1>4, <1>5, <2>2
  <2> QED BY <1>5, <2>1, <2>2
<1>9. Founded'
  BY <1>2 DEF EvidenceInv, Founded
<1> QED BY <1>2, <1>6, <1>7, <1>8, <1>9, SameEvents DEF EvidenceInv

LEMMA TrimBreaksOffKeeps ==
  ASSUME EvidenceInv, TrimBreaksOff
  PROVE  EvidenceInv'
<1>1. EvidenceTypeOK
  BY DEF EvidenceInv
<1>2. trim # NoTrim /\ trim \in PendingTrims
  BY <1>1 DEF TrimBreaksOff, EvidenceTypeOK
<1>3. /\ trim' \in PendingTrims /\ trim' # NoTrim /\ trim'.phase = "replaced"
      /\ trim'.op = trim.op /\ trim'.before = trim.before
      /\ UNCHANGED <<file, source, health, events, trims, memories, now, edits, ingested>>
  <2>1. trim' = [trim EXCEPT !.phase = "replaced"]
    BY DEF TrimBreaksOff
  <2>2. trim' \in PendingTrims
    BY <1>2, <2>1 DEF PendingTrims, Phases
  <2>3. /\ trim'.phase = "replaced" /\ trim'.op = trim.op /\ trim'.before = trim.before
    BY <1>2, <2>1 DEF PendingTrims
  <2> QED BY <2>2, <2>3, NoTrimAssumption DEF TrimBreaksOff
<1>4. EvidenceTypeOK'
  BY <1>1, <1>3 DEF EvidenceTypeOK
<1>5. EventsBelong'
  BY <1>3 DEF EvidenceInv, EventsBelong, OfCompleted, OfPending
<1>6. TrimsAreRecorded'
  <2>1. \A op \in DOMAIN trims' :
          \A x \in TrimIds(trims'[op].removed, trims'[op].before) : Known(x)'
    BY <1>3 DEF EvidenceInv, TrimsAreRecorded, Known
  <2>2. trim'.op = Len(trims') + 1
    BY <1>2, <1>3 DEF EvidenceInv, TrimsAreRecorded
  <2> QED BY <1>3, <2>1, <2>2 DEF TrimsAreRecorded, TrimIds
<1>7. Founded'
  BY <1>3 DEF EvidenceInv, Founded
<1> QED BY <1>3, <1>4, <1>5, <1>6, <1>7, SameEvents DEF EvidenceInv

\* A rollback changes what is committed of its own operation's events only.
LEMMA RollbackTrimKeeps ==
  ASSUME EvidenceInv, NEW op \in 1..MaxOps, RollbackTrim(op)
  PROVE  EvidenceInv'
<1> DEFINE Withdrawn(e) == [e EXCEPT !.status = IF e.op = op THEN "tombstoned" ELSE @]
           t == [trims[op] EXCEPT !.rolled = TRUE]
<1>1. EvidenceTypeOK
  BY DEF EvidenceInv
<1>2. /\ events' = {Withdrawn(e) : e \in events}
      /\ trim = NoTrim
      /\ op \in DOMAIN trims
      /\ file' = trims[op].before
      /\ trims' = [trims EXCEPT ![op] = t]
      /\ UNCHANGED <<source, health, trim, memories, now, edits, ingested>>
  BY DEF RollbackTrim
<1>3. \A e \in events : /\ Withdrawn(e) \in EventRows
                        /\ Withdrawn(e).id = e.id /\ Withdrawn(e).second = e.second
                        /\ Withdrawn(e).op = e.op
                        /\ e.op # op => Withdrawn(e) = e
  BY <1>1 DEF EvidenceTypeOK, EventRows
<1> HIDE DEF Withdrawn
<1>4. /\ events' \subseteq EventRows
      /\ \A d, e \in events' : d.id = e.id => d = e
  BY <1>1, <1>2, <1>3 DEF EvidenceTypeOK
<1>5. trims \in Seq(Trims) /\ trims[op] \in Trims /\ op \in 1..Len(trims)
  <2>1. trims \in Seq(Trims)
    BY <1>1 DEF EvidenceTypeOK
  <2> QED BY <1>2, <2>1
<1>6. /\ file' \in Contents
      /\ t \in Trims /\ t.rolled /\ t.before = trims[op].before /\ t.removed = trims[op].removed
  BY <1>2, <1>5 DEF Trims
<1> HIDE DEF t
<1>7. /\ trims' \in Seq(Trims)
      /\ DOMAIN trims' = DOMAIN trims /\ Len(trims') = Len(trims)
      /\ trims'[op] = t /\ \A i \in DOMAIN trims : i # op => trims'[i] = trims[i]
  <2>1. trims' \in Seq(Trims)
    BY <1>2, <1>5, <1>6, ExceptSeq
  <2>2. Len(trims') = Len(trims)
    BY <1>2, <1>5, <1>6, ExceptSeq
  <2> QED BY <1>2, <2>1, <2>2
<1>8. EvidenceTypeOK'
  BY <1>1, <1>2, <1>4, <1>6, <1>7 DEF EvidenceTypeOK
<1>9. NothingFromTheFuture'
  BY <1>2, <1>3 DEF EvidenceInv, NothingFromTheFuture
<1>10. 0 # op
  OBVIOUS
<1>11. \A e \in events : e.id.kind = "file" => Withdrawn(e) = e
  BY <1>3, <1>10 DEF EvidenceInv, EventsBelong
<1>12. EventsBelong'
  <2> SUFFICES ASSUME NEW e \in events
               PROVE  LET w == Withdrawn(e)
                      IN IF w.id.kind = "file" THEN w.op = 0 /\ w.status = "committed"
                         ELSE OfCompleted(w)'
    BY <1>2 DEF EventsBelong
  <2>1. CASE e.id.kind = "file"
    BY <1>11, <2>1 DEF EvidenceInv, EventsBelong
  <2>2. CASE e.id.kind # "file"
    <3>1. OfCompleted(e)
      BY <1>2, <2>2 DEF EvidenceInv, EventsBelong, OfPending
    <3>2. CASE e.op = op
      BY <1>3, <1>6, <1>7, <2>2, <3>1, <3>2 DEF OfCompleted
    <3>3. CASE e.op # op
      BY <1>3, <1>7, <2>2, <3>1, <3>3 DEF OfCompleted
    <3> QED BY <3>2, <3>3
  <2> QED BY <2>1, <2>2
<1>13. TrimsAreRecorded'
  <2>1. \A x : Known(x) => Known(x)'
    BY <1>2, <1>3 DEF Known
  <2> SUFFICES ASSUME NEW o \in DOMAIN trims,
                      NEW x \in TrimIds(trims'[o].removed, trims'[o].before)
               PROVE  Known(x)
    BY <1>2, <1>7, <2>1 DEF TrimsAreRecorded, TrimIds
  <2>2. trims'[o].removed = trims[o].removed /\ trims'[o].before = trims[o].before
    BY <1>6, <1>7
  <2> QED BY <2>2 DEF EvidenceInv, TrimsAreRecorded
<1>14. Founded'
  BY <1>2, <1>3 DEF EvidenceInv, Founded
<1>15. IngestIsComplete'
  <2> SUFFICES ASSUME ingested # Missing, NEW x \in FileIds(ingested)
               PROVE  \E e \in events' : e.id = x /\ e.status = "committed"
    BY <1>2 DEF IngestIsComplete, Committed, FileIds
  <2>1. PICK e \in events : e.id = x /\ e.status = "committed"
    BY DEF EvidenceInv, IngestIsComplete, Committed
  <2>2. x.kind = "file"
    BY DEF FileIds
  <2> QED BY <1>2, <1>11, <2>1, <2>2
<1> QED BY <1>8, <1>9, <1>12, <1>13, <1>14, <1>15 DEF EvidenceInv

\* What a step keeps that changes the memories alone.
LEMMA MemoriesStep ==
  ASSUME EvidenceInv, memories' \subseteq MemoryRows, Founded',
         UNCHANGED <<file, source, health, events, trim, trims, now, edits, ingested>>
  PROVE  EvidenceInv'
<1>1. EvidenceTypeOK'
  BY DEF EvidenceInv, EvidenceTypeOK
<1>2. EventsBelong'
  BY DEF EvidenceInv, EventsBelong, OfCompleted, OfPending
<1>3. TrimsAreRecorded'
  BY DEF EvidenceInv, TrimsAreRecorded, Known, TrimIds
<1> QED BY <1>1, <1>2, <1>3, SameEvents DEF EvidenceInv

LEMMA CurateKeeps ==
  ASSUME EvidenceInv, NEW e \in events, Curate(e)
  PROVE  EvidenceInv'
<1> DEFINE free == {n \in 1..MaxMemories : \A m \in memories : m.name # [op |-> 0, no |-> n]}
           number == CHOOSE n \in free : TRUE
           M(w) == [name |-> [op |-> 0, no |-> number], events |-> {e.id},
                    stability |-> w.stability, retention |-> w.retention,
                    retained |-> w.retained, disputed |-> w.disputed, created |-> now]
<1>1. EvidenceTypeOK /\ e \in EventRows /\ MaxOps \in Nat /\ MaxMemories \in Nat
  BY EvidenceAssumption DEF EvidenceInv, EvidenceTypeOK
<1>2. PICK w \in Weights : memories' = memories \cup {M(w)}
  BY DEF Curate
<1>3. UNCHANGED <<file, source, health, events, trim, trims, now, edits, ingested>>
  BY DEF Curate
<1>4. number \in Nat
  BY <1>1 DEF Curate
<1> HIDE DEF number
<1>5. M(w) \in MemoryRows /\ e.id \in M(w).events /\ M(w).created = now
  BY <1>1, <1>4, EvidenceAssumption DEF EvidenceTypeOK, EventRows, MemoryRows
<1> HIDE DEF M
<1>6. memories' \subseteq MemoryRows
  BY <1>1, <1>2, <1>5 DEF EvidenceTypeOK
<1>7. Founded'
  BY <1>2, <1>3, <1>5 DEF EvidenceInv, Founded, NothingFromTheFuture
<1> QED BY <1>3, <1>6, <1>7, MemoriesStep

LEMMA ReviseKeeps ==
  ASSUME EvidenceInv, NEW m \in memories, NEW e \in events, Revise(m, e)
  PROVE  EvidenceInv'
<1> DEFINE r == [m EXCEPT !.events = @ \cup {e.id}]
<1>1. EvidenceTypeOK /\ e.id \in Ids /\ m \in MemoryRows
  BY DEF EvidenceInv, EvidenceTypeOK, EventRows
<1>2. /\ memories' = (memories \ {m}) \cup {r}
      /\ UNCHANGED <<file, source, health, events, trim, trims, now, edits, ingested>>
  BY DEF Revise
<1>3. r \in MemoryRows /\ m.events \subseteq r.events /\ r.created = m.created
  BY <1>1 DEF MemoryRows
<1> HIDE DEF r
<1>4. memories' \subseteq MemoryRows
  BY <1>1, <1>2, <1>3 DEF EvidenceTypeOK
<1>5. Founded'
  BY <1>2, <1>3 DEF EvidenceInv, Founded
<1> QED BY <1>2, <1>4, <1>5, MemoriesStep

----------------------------------------------------------------------------
(* The theorems *)

\* The inductive invariant: types, which operation an event belongs to, that a
\* trim's blocks have their events, and what memories were created on, after any
\* ingestions, trims, breakdowns, rollbacks, revisions and edits.
THEOREM EvidenceInvariant == Spec => []EvidenceInv
<1>1. Init => EvidenceInv
  BY EvidenceInit
<1>2. EvidenceInv /\ [Next]_vars => EvidenceInv'
  <2> SUFFICES ASSUME EvidenceInv, [Next]_vars
               PROVE  EvidenceInv'
    OBVIOUS
  <2>1. CASE IngestMissing \/ IngestUnreadable \/ IngestRaises \/ Edit \/ Tick
    BY <2>1, ElsewhereKeeps
  <2>2. CASE Ingest
    BY <2>2, IngestKeeps
  <2>3. CASE TrimReplaces
    BY <2>3, TrimReplacesKeeps
  <2>4. CASE RecordRemoved
    BY <2>4, RecordRemovedKeeps
  <2>5. CASE PromoteRemoved
    BY <2>5, PromoteRemovedKeeps
  <2>6. CASE CompleteTrim
    BY <2>6, CompleteTrimKeeps
  <2>7. CASE TrimBreaksOff
    BY <2>7, TrimBreaksOffKeeps
  <2>8. CASE \E op \in 1..MaxOps : RollbackTrim(op)
    BY <2>8, RollbackTrimKeeps
  <2>9. CASE \E e \in events : Curate(e)
    BY <2>9, CurateKeeps
  <2>10. CASE \E e \in events, m \in memories : Revise(m, e)
    BY <2>10, ReviseKeeps
  <2>11. CASE UNCHANGED vars
    <3>1. EvidenceTypeOK' /\ now' \in now..MaxNow
      BY <2>11, EvidenceAssumption DEF vars, EvidenceInv, EvidenceTypeOK
    <3> QED BY <2>11, <3>1, QuietStep DEF vars
  <2> QED
    BY <2>1, <2>2, <2>3, <2>4, <2>5, <2>6, <2>7, <2>8, <2>9, <2>10, <2>11 DEF Next
<1> QED BY <1>1, <1>2, PTL DEF Spec

\* Type correctness: every variable keeps its type and an id names one event,
\* whatever INSERT OR IGNORE drops (raw_events.event_id).
THEOREM EvidenceTypes == Spec => []EvidenceTypeOK
<1>1. EvidenceInv => EvidenceTypeOK
  BY DEF EvidenceInv
<1> QED BY <1>1, EvidenceInvariant, PTL

\* An ingestion that does not raise (ingest_profile_markdown) leaves every block
\* of its file citable, and no later rollback of a trim takes that away.
THEOREM IngestionIsComplete == Spec => []IngestIsComplete
<1>1. EvidenceInv => IngestIsComplete
  BY DEF EvidenceInv
<1> QED BY <1>1, EvidenceInvariant, PTL

\* What a completed trim has removed (_record_removed_blocks) stays citable: it
\* is withdrawn only by a rollback of a trim of the same content.
THEOREM RemovalsStayCitable == Spec => []RemovedStaysCitable
<1>1. EvidenceInv => RemovedStaysCitable
  BY RemovedBlocksAreCitable
<1> QED BY <1>1, EvidenceInvariant, PTL

\* The gate (evaluate_auto_promote) promotes what the planner
\* (plan_overflow_trim) protects only where a retention policy retains the
\* memory, or an old memory was revised with a newer event.
THEOREM BypassesOfThePlanner == Spec => []BypassNeedsPolicyOrRevision
<1>1. EvidenceInv => BypassNeedsPolicyOrRevision
  BY BypassesAreKnown
<1> QED BY <1>1, EvidenceInvariant, PTL
=============================================================================
