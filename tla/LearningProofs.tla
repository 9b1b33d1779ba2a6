--------------------------- MODULE LearningProofs ---------------------------
(***************************************************************************)
(* Proofs about Learning, for any number of events, clusters and sessions. *)
(*                                                                         *)
(* ClustersCountTheirEvents is not inductive alone: that a listing never   *)
(* counts more than there is depends on what it has read being part of     *)
(* what is recorded, which FoundedListings adds.                           *)
(***************************************************************************)
EXTENDS Learning, FiniteSetTheorems, TLAPS

FoundedListings == \A r \in Readers : listing[r] # Idle => listing[r] \subseteq events

LearningInv ==
  LearningTypeOK /\ FoundedListings /\ ClustersCountTheirEvents /\ DraftsRestOnEvents

\* Counting is finite, and counts no more in fewer events.
LEMMA CountIsMonotone ==
  ASSUME LearningAssumption, NEW E \in SUBSET Events, NEW D \in SUBSET E, NEW c \in Clusters
  PROVE  /\ Count(c, D) \in Nat /\ Count(c, E) \in Nat /\ Count(c, D) <= Count(c, E)
         /\ In(c, D) \subseteq In(c, E)
<1>1. In(c, D) \subseteq In(c, E) /\ In(c, E) \subseteq Events
  BY DEF In
<1>2. IsFiniteSet(In(c, E))
  BY <1>1, FS_Subset DEF LearningAssumption
<1>3. IsFiniteSet(In(c, D)) /\ Cardinality(In(c, D)) <= Cardinality(In(c, E))
  BY <1>1, <1>2, FS_Subset
<1>4. Cardinality(In(c, D)) \in Nat /\ Cardinality(In(c, E)) \in Nat
  BY <1>2, <1>3, FS_CardinalityType
<1> QED BY <1>1, <1>3, <1>4 DEF Count

\* What one row becomes in a count of the events that were seen.
LEMMA RefreshRow ==
  ASSUME LearningAssumption, LearningTypeOK, NEW seen \in SUBSET Events, NEW graded,
         Refresh(seen, graded), NEW c \in Clusters
  PROVE  /\ cluster'[c] \in Row \cup {Absent}
         /\ In(c, seen) # {} =>
              /\ cluster'[c] # Absent /\ cluster'[c].count = Count(c, seen)
              /\ cluster[c] # Absent => cluster'[c].status = cluster[c].status
         /\ In(c, seen) = {} =>
              IF cluster[c] = Absent THEN cluster'[c] = Absent
              ELSE /\ cluster'[c] # Absent /\ cluster'[c].count = cluster[c].count
                   /\ cluster'[c].status = "resolved"
<1>1. cluster[c] \in Row \cup {Absent}
  BY DEF LearningTypeOK
<1>2. Count(c, seen) \in Nat
  BY CountIsMonotone
<1>3. CASE In(c, seen) # {} /\ cluster[c] = Absent
  <2> DEFINE row == [status |-> FirstStatus(c, graded), count |-> Count(c, seen)]
  <2>1. cluster'[c] = row
    BY <1>3 DEF Refresh
  <2>2. FirstStatus(c, graded) \in Statuses
    BY DEF FirstStatus, Statuses
  <2>3. row \in Row /\ row.count = Count(c, seen)
    BY <1>2, <2>2 DEF Row
  <2> HIDE DEF row
  <2> QED BY <1>3, <2>1, <2>3, AbsentAssumption
<1>4. CASE In(c, seen) # {} /\ cluster[c] # Absent
  <2>1. cluster'[c] = Recount(cluster[c], c, seen)
    BY <1>4 DEF Refresh
  <2>2. /\ Recount(cluster[c], c, seen) \in Row
        /\ Recount(cluster[c], c, seen).count = Count(c, seen)
        /\ Recount(cluster[c], c, seen).status = cluster[c].status
    BY <1>1, <1>2, <1>4 DEF Recount, Row
  <2> QED BY <1>4, <2>1, <2>2, AbsentAssumption
<1>5. CASE In(c, seen) = {} /\ cluster[c] # Absent
  <2> DEFINE row == [cluster[c] EXCEPT !.status = "resolved"]
  <2>1. cluster'[c] = row
    BY <1>5 DEF Refresh
  <2>2. row \in Row /\ row.count = cluster[c].count /\ row.status = "resolved"
    BY <1>1, <1>5 DEF Row, Statuses
  <2> HIDE DEF row
  <2> QED BY <1>5, <2>1, <2>2, AbsentAssumption
<1>6. CASE In(c, seen) = {} /\ cluster[c] = Absent
  BY <1>6 DEF Refresh
<1> QED BY <1>3, <1>4, <1>5, <1>6

\* A count of recorded events keeps the rows true.
LEMMA RefreshKeepsCounts ==
  ASSUME LearningAssumption, LearningInv, NEW seen \in SUBSET Events, NEW graded,
         Refresh(seen, graded), events \subseteq events', events' \subseteq Events,
         seen \subseteq events', seen # events' => behind',
         \A c \in Clusters : In(c, seen) = {} /\ cluster[c] = Absent => In(c, events') = {}
  PROVE  ClustersCountTheirEvents' /\ cluster' \in [Clusters -> Row \cup {Absent}]
<1>1. ASSUME NEW c \in Clusters
      PROVE  /\ cluster'[c] = Absent <=> In(c, events') = {}
             /\ cluster'[c] # Absent => cluster'[c].count <= Count(c, events')
             /\ cluster'[c] # Absent /\ ~ behind' => cluster'[c].count = Count(c, events')
  <2>1. /\ In(c, seen) \subseteq In(c, events') /\ Count(c, seen) <= Count(c, events')
        /\ In(c, events) \subseteq In(c, events') /\ Count(c, events) <= Count(c, events')
        /\ Count(c, events) \in Nat /\ Count(c, events') \in Nat
    BY CountIsMonotone
  <2>2. CASE In(c, seen) # {}
    BY <2>1, <2>2, RefreshRow DEF LearningInv
  <2>3. CASE In(c, seen) = {} /\ cluster[c] = Absent
    BY <2>3, RefreshRow DEF LearningInv
  <2>4. CASE In(c, seen) = {} /\ cluster[c] # Absent
    <3>1. In(c, events) # {} /\ cluster[c].count <= Count(c, events)
      BY <2>4 DEF LearningInv, ClustersCountTheirEvents
    <3>2. behind'
      BY <2>1, <2>4, <3>1
    <3>3. cluster'[c] # Absent /\ cluster'[c].count = cluster[c].count
      BY <2>4, RefreshRow DEF LearningInv
    <3>4. cluster[c].count \in Nat
      BY <2>4 DEF LearningInv, LearningTypeOK, Row
    <3> QED BY <2>1, <3>1, <3>2, <3>3, <3>4
  <2> QED BY <2>2, <2>3, <2>4
<1>2. cluster' \in [Clusters -> Row \cup {Absent}]
  <2>1. \A c \in Clusters : cluster'[c] \in Row \cup {Absent}
    BY RefreshRow DEF LearningInv
  <2> QED BY <2>1 DEF Refresh
<1> QED BY <1>1, <1>2 DEF ClustersCountTheirEvents, In, Count

\* Drafts stay founded while events are only added.
LEMMA DraftsStayFounded ==
  ASSUME LearningAssumption, LearningInv, events \subseteq events', events' \subseteq Events
  PROVE  \A d \in drafts : d.count >= MinEvents /\ d.count <= Count(d.cluster, events')
<1> SUFFICES ASSUME NEW d \in drafts
             PROVE  d.count >= MinEvents /\ d.count <= Count(d.cluster, events')
  OBVIOUS
<1>1. d.cluster \in Clusters /\ d.count \in Nat
  BY DEF LearningInv, LearningTypeOK
<1>2. /\ Count(d.cluster, events) \in Nat /\ Count(d.cluster, events') \in Nat
      /\ Count(d.cluster, events) <= Count(d.cluster, events')
  BY <1>1, CountIsMonotone
<1>3. d.count >= MinEvents /\ d.count <= Count(d.cluster, events)
  BY DEF LearningInv, DraftsRestOnEvents
<1> QED BY <1>1, <1>2, <1>3

LEMMA InitLearningInv == ASSUME Init PROVE LearningInv
<1>1. LearningTypeOK /\ FoundedListings /\ DraftsRestOnEvents
  BY DEF Init, LearningTypeOK, FoundedListings, DraftsRestOnEvents
<1>2. ClustersCountTheirEvents
  BY DEF Init, ClustersCountTheirEvents, In
<1> QED BY <1>1, <1>2 DEF LearningInv

LEMMA RecordKeepsInv ==
  ASSUME LearningAssumption, LearningInv, NEW e \in Events, Record(e) PROVE LearningInv'
<1>1. events \subseteq events' /\ events' \subseteq Events
  BY DEF Record, LearningInv, LearningTypeOK
<1>2. Refresh(events', events')
  BY DEF Record
<1>3. ClustersCountTheirEvents' /\ cluster' \in [Clusters -> Row \cup {Absent}]
  BY <1>1, <1>2, RefreshKeepsCounts
<1>4. LearningTypeOK' /\ FoundedListings'
  BY <1>1, <1>3 DEF Record, LearningInv, LearningTypeOK, FoundedListings
<1>5. DraftsRestOnEvents'
  <2>1. \A d \in drafts : d.count >= MinEvents /\ d.count <= Count(d.cluster, events')
    BY <1>1, DraftsStayFounded
  <2>2. drafts' = drafts
    BY DEF Record
  <2> QED BY <2>1, <2>2 DEF DraftsRestOnEvents, Count, In
<1> QED BY <1>3, <1>4, <1>5 DEF LearningInv

\* What a listing writes, whoever recorded events after it had read.
LEMMA WriteClustersKeepsCounts ==
  ASSUME LearningAssumption, LearningInv, NEW r \in Readers, WriteClusters(r)
  PROVE  /\ ClustersCountTheirEvents' /\ cluster' \in [Clusters -> Row \cup {Absent}]
         /\ FoundedListings' /\ listing' \in [Readers -> (SUBSET Events) \cup {Idle}]
         /\ behind' \in BOOLEAN /\ events' = events
<1>1. /\ listing[r] \in SUBSET Events /\ listing[r] \subseteq events /\ events \subseteq Events
      /\ events' = events /\ behind' = (listing[r] # events)
      /\ listing' = [listing EXCEPT ![r] = Idle]
  BY DEF WriteClusters, LearningInv, LearningTypeOK, FoundedListings
<1>2. PICK graded : Refresh(listing[r], graded)
  BY DEF WriteClusters
<1>3. ASSUME NEW c \in Clusters, cluster[c] = Absent PROVE In(c, events') = {}
  BY <1>1, <1>3 DEF LearningInv, ClustersCountTheirEvents
<1>4. ClustersCountTheirEvents' /\ cluster' \in [Clusters -> Row \cup {Absent}]
  BY <1>1, <1>2, <1>3, RefreshKeepsCounts
<1>5. FoundedListings' /\ listing' \in [Readers -> (SUBSET Events) \cup {Idle}]
  BY <1>1 DEF LearningInv, LearningTypeOK, FoundedListings
<1> QED BY <1>1, <1>4, <1>5

LEMMA ListKeepsInv ==
  ASSUME LearningAssumption, LearningInv, NEW r \in Readers, ListClusters(r) \/ Generate(r)
  PROVE  LearningInv'
<1>1. WriteClusters(r)
  BY DEF ListClusters, Generate
<1>2. /\ ClustersCountTheirEvents' /\ cluster' \in [Clusters -> Row \cup {Absent}]
      /\ FoundedListings' /\ listing' \in [Readers -> (SUBSET Events) \cup {Idle}]
      /\ behind' \in BOOLEAN /\ events' = events
  BY <1>1, WriteClustersKeepsCounts
<1>3. PICK from \in SUBSET {c \in Clusters : Draftable(cluster'[c])} :
         drafts' = drafts \cup {[cluster |-> c, count |-> cluster'[c].count] : c \in from}
  <2>1. CASE ListClusters(r)
    <3>1. drafts' = drafts \cup {[cluster |-> c, count |-> cluster'[c].count] : c \in {}}
      BY <2>1 DEF ListClusters
    <3> QED BY <3>1
  <2>2. CASE Generate(r)
    BY <2>2 DEF Generate
  <2> QED BY <2>1, <2>2
<1>4. ASSUME NEW c \in from
      PROVE  /\ c \in Clusters /\ cluster'[c].count \in Nat
             /\ cluster'[c].count >= MinEvents /\ cluster'[c].count <= Count(c, events')
  <2>1. c \in Clusters /\ cluster'[c] # Absent /\ cluster'[c].count >= MinEvents
    BY DEF Draftable
  <2>2. cluster'[c] \in Row
    BY <1>2, <2>1
  <2>3. cluster'[c].count <= Count(c, events')
    BY <1>2, <2>1 DEF ClustersCountTheirEvents, Count, In
  <2> QED BY <2>1, <2>2, <2>3 DEF Row
<1>5. LearningTypeOK'
  <2>1. drafts' \subseteq [cluster : Clusters, count : Nat]
    BY <1>3, <1>4 DEF LearningInv, LearningTypeOK
  <2>2. events' \subseteq Events
    BY <1>2 DEF LearningInv, LearningTypeOK
  <2> QED BY <1>2, <2>1, <2>2 DEF LearningTypeOK
<1>6. DraftsRestOnEvents'
  <2>1. \A d \in drafts : d.count >= MinEvents /\ d.count <= Count(d.cluster, events')
    BY <1>2, DraftsStayFounded DEF LearningInv, LearningTypeOK
  <2>2. \A d \in drafts' : d.count >= MinEvents /\ d.count <= Count(d.cluster, events')
    BY <1>3, <1>4, <2>1
  <2> QED BY <2>2 DEF DraftsRestOnEvents, Count, In
<1> QED BY <1>2, <1>5, <1>6 DEF LearningInv

LEMMA NextKeepsLearningInv ==
  ASSUME LearningAssumption, LearningInv, [Next]_vars PROVE LearningInv'
<1>1. ASSUME NEW r \in Readers, ReadEvents(r) \/ Abandon(r) PROVE LearningInv'
  <2>1. /\ events' = events /\ cluster' = cluster /\ drafts' = drafts /\ behind' = behind
        /\ listing' = [listing EXCEPT ![r] = events] \/ listing' = [listing EXCEPT ![r] = Idle]
    BY <1>1 DEF ReadEvents, Abandon
  <2>2. LearningTypeOK' /\ FoundedListings'
    BY <2>1 DEF LearningInv, LearningTypeOK, FoundedListings
  <2>3. ClustersCountTheirEvents' /\ DraftsRestOnEvents'
    BY <2>1 DEF LearningInv, ClustersCountTheirEvents, DraftsRestOnEvents, Count, In
  <2> QED BY <2>2, <2>3 DEF LearningInv
<1>2. CASE UNCHANGED vars
  BY <1>2 DEF vars, LearningInv, LearningTypeOK, FoundedListings, ClustersCountTheirEvents,
              DraftsRestOnEvents, Count, In
<1> QED BY <1>1, <1>2, RecordKeepsInv, ListKeepsInv DEF Next

THEOREM LearningInvariant == Spec => []LearningInv
<1>1. Init => LearningInv
  BY InitLearningInv
<1>2. LearningInv /\ [Next]_vars => LearningInv'
  BY NextKeepsLearningInv, LearningAssumption
<1> QED BY <1>1, <1>2, PTL DEF Spec

\* The ledger of clusters keeps its types.
THEOREM LearningTypeCorrect == Spec => []LearningTypeOK
<1>1. LearningInv => LearningTypeOK
  BY DEF LearningInv
<1> QED BY <1>1, LearningInvariant, PTL

\* A cluster exists exactly for the recorded failures, and counts none twice or
\* before it is recorded, whatever listings and recordings overlap.
THEOREM ClustersCountTruly == Spec => []ClustersCountTheirEvents
<1>1. LearningInv => ClustersCountTheirEvents
  BY DEF LearningInv
<1> QED BY <1>1, LearningInvariant, PTL

\* A drafted proposal has the recorded events that its evidence counts.
THEOREM DraftsAreFounded == Spec => []DraftsRestOnEvents
<1>1. LearningInv => DraftsRestOnEvents
  BY DEF LearningInv
<1> QED BY <1>1, LearningInvariant, PTL

----------------------------------------------------------------------------
(* Statuses *)

StatusChanged(c) == cluster[c] # Absent /\ cluster'[c].status # cluster[c].status

\* A listing that changes a status had seen no event of the cluster.
LEMMA ListingResolves ==
  ASSUME LearningAssumption, LearningInv, NEW r \in Readers, WriteClusters(r),
         NEW c \in Clusters, StatusChanged(c)
  PROVE  /\ cluster'[c].status = "resolved"
         /\ listing[r] # Idle /\ listing'[r] = Idle /\ In(c, listing[r]) = {}
<1>1. listing[r] \in SUBSET Events /\ listing[r] # Idle /\ listing'[r] = Idle
  BY DEF WriteClusters, LearningInv, LearningTypeOK
<1>2. PICK graded : Refresh(listing[r], graded)
  BY DEF WriteClusters
<1> QED BY <1>1, <1>2, RefreshRow DEF StatusChanged, LearningInv

\* A cluster loses its status to a listing that is older than its first event,
\* and to nothing else.
THEOREM StatusChangesOnce == Spec => OnlyOlderListingsResolve
<1> DEFINE Resolved ==
      \A c \in Clusters :
        cluster[c] # Absent /\ cluster'[c].status # cluster[c].status =>
          /\ cluster'[c].status = "resolved"
          /\ \E r \in Readers : listing[r] # Idle /\ listing'[r] = Idle /\ In(c, listing[r]) = {}
<1>1. LearningInv /\ [Next]_vars => Resolved
  <2> SUFFICES ASSUME LearningInv, [Next]_vars, NEW c \in Clusters, StatusChanged(c)
               PROVE  /\ cluster'[c].status = "resolved"
                      /\ \E r \in Readers :
                           listing[r] # Idle /\ listing'[r] = Idle /\ In(c, listing[r]) = {}
    BY DEF StatusChanged
  <2>1. ASSUME NEW r \in Readers, ListClusters(r) \/ Generate(r)
        PROVE  /\ cluster'[c].status = "resolved"
               /\ listing[r] # Idle /\ listing'[r] = Idle /\ In(c, listing[r]) = {}
    <3>1. WriteClusters(r)
      BY <2>1 DEF ListClusters, Generate
    <3> QED BY <3>1, ListingResolves, LearningAssumption
  <2>2. ASSUME NEW e \in Events, Record(e) PROVE FALSE
    <3>1. events' \subseteq Events /\ events \subseteq events' /\ Refresh(events', events')
      BY <2>2 DEF Record, LearningInv, LearningTypeOK
    <3>2. In(c, events') # {}
      BY <3>1 DEF StatusChanged, LearningInv, ClustersCountTheirEvents, In
    <3> QED BY <3>1, <3>2, RefreshRow, LearningAssumption DEF StatusChanged, LearningInv
  <2>3. ASSUME NEW r \in Readers, ReadEvents(r) \/ Abandon(r) PROVE FALSE
    BY <2>3 DEF ReadEvents, Abandon, StatusChanged
  <2>4. CASE UNCHANGED vars
    BY <2>4 DEF vars, StatusChanged
  <2> QED BY <2>1, <2>2, <2>3, <2>4 DEF Next
<1> QED BY <1>1, LearningInvariant, PTL DEF Spec, OnlyOlderListingsResolve

=============================================================================
