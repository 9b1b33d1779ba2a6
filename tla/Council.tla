------------------------------ MODULE Council ------------------------------
(***************************************************************************)
(* The council records of council.py: objectives, assignments under them,  *)
(* and what is filed on an objective (records, evidence packets, reviews   *)
(* and handoffs), each with its lifecycle event.                           *)
(*                                                                         *)
(* Every operation starts with ensure_council_runtime, which commits.  So  *)
(* its checks read outside a transaction, and its rows are written in one  *)
(* that begins later.  Nothing is ever deleted, so a check that a row      *)
(* exists stays true; a status that was read may change before the write.  *)
(***************************************************************************)
EXTENDS Naturals, Sequences

CONSTANTS
  Sessions,       \* database connections
  Objectives, Assignments,
  ObjectiveOf,    \* the objective of each assignment
  Statuses,       \* the statuses that operators set
  Labels,         \* what an entry says: title, actor, outcome, references
  NoAssignment, NoUpdate,
  MaxEvents,      \* bound: lifecycle events of one objective
  MaxSecond       \* bound: the clock, whose resolution is one second

OBJECTIVE_STATUSES == {"open", "in_progress", "blocked", "review", "closed", "archived"}
ASSIGNMENT_STATUSES == {"open", "claimed", "in_progress", "blocked", "complete", "closed"}

ASSUME CouncilAssumption ==
  /\ ObjectiveOf \in [Assignments -> Objectives]
  /\ Objectives \cap Assignments = {}
  /\ Statuses \subseteq OBJECTIVE_STATUSES \cup ASSIGNMENT_STATUSES
  /\ NoAssignment \notin Assignments
  /\ MaxEvents \in Nat /\ MaxSecond \in Nat

Items == Objectives \cup Assignments
Seconds == 0..MaxSecond
OwnObjective(i) == IF i \in Objectives THEN i ELSE ObjectiveOf[i]
ItemStatuses(i) == Statuses \cap (IF i \in Objectives THEN OBJECTIVE_STATUSES
                                                      ELSE ASSIGNMENT_STATUSES)

VARIABLES
  status,     \* of objectives and assignments
  entries,    \* records, packets, reviews and handoffs
  log,        \* council_lifecycle_events of each objective, in commit order, which
              \*   no reader sees: lifecycle() sorts by second, then by hashed id
  pc,         \* the status update a session has read for and not yet written
  now         \* now_utc()

councilVars == <<status, entries, log, pc, now>>

Kinds == {"record", "packet", "review", "handoff"}
Update == [item : Items, seen : Statuses \cup {"open"}, to : Statuses]

CouncilInit ==
  /\ status = [i \in Items |-> "absent"]
  /\ entries = {}
  /\ log = [o \in Objectives |-> <<>>]
  /\ pc = [s \in Sessions |-> NoUpdate]
  /\ now = 0

Exists(i) == status[i] # "absent"

\* The columns of an event tell an event of an item from one of an entry.
Event(type, subject, from, to) ==
  [type |-> type, subject |-> subject, from |-> from, to |-> to, at |-> now]

RoomForEvent(o) == Len(log[o]) < MaxEvents    \* bound
Log(o, e) == RoomForEvent(o) /\ log' = [log EXCEPT ![o] = Append(@, e)]

----------------------------------------------------------------------------
(* create_objective and create_assignment *)

\* An objective may be created in any status, an assignment is created open.
Create(i, st) ==
  /\ ~ Exists(i)
  /\ IF i \in Objectives THEN st \in ItemStatuses(i)
     ELSE st = "open" /\ Exists(ObjectiveOf[i])
  /\ status' = [status EXCEPT ![i] = st]
  /\ Log(OwnObjective(i), Event("item", i, "absent", st))
  /\ UNCHANGED <<entries, pc, now>>

----------------------------------------------------------------------------
(* update_objective_status and update_assignment_status *)

UpdateRead(s, i, to) ==
  /\ pc[s] = NoUpdate
  /\ Exists(i)
  /\ to \in ItemStatuses(i)
  /\ pc' = [pc EXCEPT ![s] = [item |-> i, seen |-> status[i], to |-> to]]
  /\ UNCHANGED <<status, entries, log, now>>

\* The id of an update's event is made of the item, the status and the second.
EventIdTaken(u) ==
  LET events == log[OwnObjective(u.item)]
  IN \E n \in DOMAIN events :
       /\ events[n].type = "item" /\ events[n].subject = u.item
       /\ events[n].from # "absent"
       /\ events[n].to = u.to
       /\ events[n].at = now

\* Mutant: the second is not part of the id, and an event whose id is taken is
\* ignored.
ToldBefore(u) ==
  \E n \in DOMAIN log[OwnObjective(u.item)] :
    LET e == log[OwnObjective(u.item)][n]
    IN e.type = "item" /\ e.subject = u.item /\ e.from # "absent" /\ e.to = u.to
UpdateToldOnce(s) ==
  /\ pc[s] # NoUpdate
  /\ status' = [status EXCEPT ![pc[s].item] = pc[s].to]
  /\ IF ToldBefore(pc[s]) THEN UNCHANGED log
     ELSE Log(OwnObjective(pc[s].item), Event("item", pc[s].item, pc[s].seen, pc[s].to))
  /\ pc' = [pc EXCEPT ![s] = NoUpdate]
  /\ UNCHANGED <<entries, now>>

UpdateWrite(s) ==
  /\ pc[s] # NoUpdate
  /\ ~ EventIdTaken(pc[s])
  /\ status' = [status EXCEPT ![pc[s].item] = pc[s].to]
  /\ Log(OwnObjective(pc[s].item), Event("item", pc[s].item, pc[s].seen, pc[s].to))
  /\ pc' = [pc EXCEPT ![s] = NoUpdate]
  /\ UNCHANGED <<entries, now>>

\* The event's primary key is taken: the exception ends the command, whose
\* connection block rolls the status back.
UpdateCollides(s) ==
  /\ pc[s] # NoUpdate
  /\ EventIdTaken(pc[s])
  /\ pc' = [pc EXCEPT ![s] = NoUpdate]
  /\ UNCHANGED <<status, entries, log, now>>

----------------------------------------------------------------------------
(* create_record, attach_evidence, record_review and create_handoff *)

Entry(kind, o, a, cites, label) ==
  [kind |-> kind, objective |-> o, assignment |-> a, cites |-> cites,
   label |-> label, at |-> now]

EntryIdTaken(e) ==
  \E d \in entries : d.kind = e.kind /\ d.objective = e.objective
                     /\ d.label = e.label /\ d.at = e.at

WellReferred(e) ==
  /\ Exists(e.objective)
  /\ e.assignment # NoAssignment =>
       Exists(e.assignment) /\ ObjectiveOf[e.assignment] = e.objective
  /\ \A c \in e.cites : c \in entries /\ c.kind = "packet" /\ c.objective = e.objective

Insert(e) ==
  /\ WellReferred(e)
  /\ ~ EntryIdTaken(e)
  /\ entries' = entries \cup {e}
  /\ Log(e.objective, Event("entry", e, "absent", "filed"))
  /\ UNCHANGED <<status, pc, now>>

CreateRecord(o, label) == Insert(Entry("record", o, NoAssignment, {}, label))

AttachEvidence(o, a, label) == Insert(Entry("packet", o, a, {}, label))

RecordReview(o, a, cites, label) == Insert(Entry("review", o, a, cites, label))

CreateHandoff(o, cites, label) == Insert(Entry("handoff", o, NoAssignment, cites, label))

----------------------------------------------------------------------------

\* The process of a session dies between the read and the write.
Drop(s) ==
  /\ pc[s] # NoUpdate
  /\ pc' = [pc EXCEPT ![s] = NoUpdate]
  /\ UNCHANGED <<status, entries, log, now>>

Tick ==
  /\ now < MaxSecond    \* bound
  /\ now' = now + 1
  /\ UNCHANGED <<status, entries, log, pc>>

File(o, label) ==
  \/ CreateRecord(o, label)
  \/ \E a \in Assignments \cup {NoAssignment} :
       \/ AttachEvidence(o, a, label)
       \/ \E cites \in {{}} \cup {{c} : c \in entries} : RecordReview(o, a, cites, label)
  \/ \E cites \in SUBSET entries : CreateHandoff(o, cites, label)

CouncilNext ==
  \/ \E i \in Items, st \in Statuses \cup {"open"} : Create(i, st)
  \/ \E s \in Sessions :
       \/ \E i \in Items, to \in Statuses : UpdateRead(s, i, to)
       \/ UpdateWrite(s)
       \/ UpdateCollides(s)
       \/ Drop(s)
  \/ \E o \in Objectives, label \in Labels : File(o, label)
  \/ Tick

----------------------------------------------------------------------------
(* Properties *)

EventsOf(type, x, o) ==
  {n \in DOMAIN log[o] : log[o][n].type = type /\ log[o][n].subject = x}

\* Two updates within a second reach a reader in the order of their hashed ids;
\* when the latest second has one event of the item, that event is the last.
LatestTells(i) ==
  LET o == OwnObjective(i)
      ns == EventsOf("item", i, o)
      latest == {n \in ns : \A k \in ns : log[o][k].at <= log[o][n].at}
  IN IF ns = {} THEN ~ Exists(i)
     ELSE \E n \in latest : log[o][n].to = status[i]

FiledOnce(e) ==
  \E n \in DOMAIN log[e.objective] : EventsOf("entry", e, e.objective) = {n}

\* The lifecycle that an objective's reader is shown tells its state as closely
\* as a clock of seconds can: of the latest second in which something happened
\* to an objective or assignment, some event has its status; what was never
\* created has no event, and what is filed has exactly one.
LogTellsCouncil ==
  /\ \A i \in Items : LatestTells(i)
  /\ \A e \in entries : FiledOnce(e)
=============================================================================
