------------------------------ MODULE Learning ------------------------------
(***************************************************************************)
(* The learning ledger (learning.py): outcome events, the clusters of      *)
(* failures counted from them, and the proposals drafted from clusters     *)
(* (generate_improvement_proposals).                                       *)
(*                                                                         *)
(* Recording an event inserts it and counts the clusters anew in one       *)
(* transaction.  A listing counts them too, but what it counts it has read *)
(* before its transaction begins, and sessions record events in between.   *)
(* Events are append-only.                                                 *)
(***************************************************************************)
EXTENDS Naturals, FiniteSets

CONSTANTS
  Events,      \* events that may be recorded, each with the id of its content
  Clusters,    \* failure class, event type, profile and session
  NoCluster,
  ClusterOf,   \* the cluster of an event, NoCluster without a failure class
  Severe,      \* events of severity warning or critical
  Readers,     \* database connections that list clusters
  Idle,
  Absent,
  MinEvents    \* min_cluster_events

ASSUME LearningAssumption ==
  /\ NoCluster \notin Clusters
  /\ ClusterOf \in [Events -> Clusters \cup {NoCluster}]
  /\ Severe \subseteq Events
  /\ IsFiniteSet(Events)
  /\ MinEvents \in Nat

VARIABLES
  events,     \* learning_events
  cluster,    \* learning_failure_clusters
  listing,    \* the events that a listing in progress has read
  drafts,     \* improvement proposals: their cluster and the count in their evidence
  behind      \* history: whether the last count missed an event

vars == <<events, cluster, listing, drafts, behind>>

Statuses == {"open", "watch", "resolved"}
Row == [status : Statuses, count : Nat]

ASSUME AbsentAssumption == Absent \notin Row

LearningTypeOK ==
  /\ events \subseteq Events
  /\ cluster \in [Clusters -> Row \cup {Absent}]
  /\ listing \in [Readers -> (SUBSET Events) \cup {Idle}]
  /\ drafts \subseteq [cluster : Clusters, count : Nat]
  /\ behind \in BOOLEAN

Init ==
  /\ events = {}
  /\ cluster = [c \in Clusters |-> Absent]
  /\ listing = [r \in Readers |-> Idle]
  /\ drafts = {}
  /\ behind = FALSE

In(c, seen) == {e \in seen : ClusterOf[e] = c}
Count(c, seen) == Cardinality(In(c, seen))

\* A new cluster is watched from the start if its worst event is severe.  The
\* severities are read after the counts, so what is graded may be more than seen.
FirstStatus(c, graded) == IF In(c, graded) \cap Severe = {} THEN "open" ELSE "watch"

\* Mutant: the status is part of what a later count overwrites.
RecountWithStatus(row, c, seen) == [status |-> FirstStatus(c, seen), count |-> Count(c, seen)]

\* A later count leaves the status of a cluster as it is.
Recount(row, c, seen) == [row EXCEPT !.count = Count(c, seen)]

\* _refresh_failure_clusters: the clusters without an event that was seen are
\* resolved.
Refresh(seen, graded) ==
  cluster' = [c \in Clusters |->
    CASE In(c, seen) # {} /\ cluster[c] = Absent -> [status |-> FirstStatus(c, graded), count |-> Count(c, seen)]
      [] In(c, seen) # {} /\ cluster[c] # Absent -> Recount(cluster[c], c, seen)
      [] In(c, seen) = {} /\ cluster[c] # Absent -> [cluster[c] EXCEPT !.status = "resolved"]
      [] In(c, seen) = {} /\ cluster[c] = Absent -> Absent]

----------------------------------------------------------------------------
(* record_learning_event, learning_failure_clusters *)

\* Mutant: the clusters are counted before the event is inserted.
RecordAfterCount(e) ==
  /\ events' = events \cup {e}
  /\ Refresh(events, events)
  /\ behind' = FALSE
  /\ UNCHANGED <<listing, drafts>>

\* An event that was recorded before is ignored, and the clusters are counted
\* all the same.
Record(e) ==
  /\ events' = events \cup {e}
  /\ Refresh(events', events')
  /\ behind' = FALSE
  /\ UNCHANGED <<listing, drafts>>

ReadEvents(r) ==
  /\ listing[r] = Idle
  /\ listing' = [listing EXCEPT ![r] = events]
  /\ UNCHANGED <<events, cluster, drafts, behind>>

WriteClusters(r) ==
  /\ listing[r] # Idle
  /\ \E graded \in {E \in SUBSET events : listing[r] \subseteq E} : Refresh(listing[r], graded)
  /\ behind' = (listing[r] # events)
  /\ listing' = [listing EXCEPT ![r] = Idle]
  /\ UNCHANGED events

\* Mutant: clusters with too few events are drafted from.
DraftableAny(row) == row # Absent /\ row.status # "resolved"

Draftable(row) == row # Absent /\ row.count >= MinEvents /\ row.status # "resolved"

ListClusters(r) == WriteClusters(r) /\ UNCHANGED drafts

\* The proposals are drafted from the clusters just counted, each in a
\* transaction of its own: a failure leaves some of them only.
Generate(r) ==
  /\ WriteClusters(r)
  /\ \E from \in SUBSET {c \in Clusters : Draftable(cluster'[c])} :
       drafts' = drafts \cup {[cluster |-> c, count |-> cluster'[c].count] : c \in from}

\* A listing that fails or dies before it has written.
Abandon(r) ==
  /\ listing[r] # Idle
  /\ listing' = [listing EXCEPT ![r] = Idle]
  /\ UNCHANGED <<events, cluster, drafts, behind>>

Next ==
  \/ \E e \in Events : Record(e)
  \/ \E r \in Readers : ReadEvents(r) \/ ListClusters(r) \/ Generate(r) \/ Abandon(r)

Spec == Init /\ [][Next]_vars

----------------------------------------------------------------------------
(* Properties *)

\* A cluster exists exactly if an event of it was recorded, whoever lists and
\* records at once; its count never exceeds the events there are, and it is
\* exact unless the last count missed one (_refresh_failure_clusters).
ClustersCountTheirEvents ==
  \A c \in Clusters :
    /\ cluster[c] = Absent <=> In(c, events) = {}
    /\ cluster[c] # Absent => cluster[c].count <= Count(c, events)
    /\ cluster[c] # Absent /\ ~ behind => cluster[c].count = Count(c, events)

\* A proposal is drafted only from a cluster with enough events, all of them
\* recorded, however old the counts are it was drafted from
\* (generate_improvement_proposals).
DraftsRestOnEvents ==
  \A d \in drafts : d.count >= MinEvents /\ d.count <= Count(d.cluster, events)

\* The status of a cluster changes once at most, to resolved, and only by the
\* listing of a session that had read the events before the first event of the
\* cluster was recorded: no recording, and no listing that saw an event of it,
\* touches its status (the comment in _refresh_failure_clusters says clusters
\* "with no current events").
OnlyOlderListingsResolve ==
  [][ \A c \in Clusters :
        cluster[c] # Absent /\ cluster'[c].status # cluster[c].status =>
          /\ cluster'[c].status = "resolved"
          /\ \E r \in Readers : listing[r] # Idle /\ listing'[r] = Idle /\ In(c, listing[r]) = {} ]_vars
=============================================================================
