-------------------------- MODULE MarkdownEvidence --------------------------
(***************************************************************************)
(* The evidence of one bounded Markdown file of a profile: the blocks that *)
(* the Hermes adapter ingests (hermes_provider.py) and those that a live   *)
(* trim removes (live_overflow.py) become raw events of one source, from   *)
(* which the overflow planner proposes and the promotion gate promotes     *)
(* (overflow_policy.py).                                                   *)
(*                                                                         *)
(* The transaction of a trim, its locks, journal and recovery are those of *)
(* Writeback; here a trim replaces the file and then records what it       *)
(* removed.  A file is a sequence of blocks of one size, with its content  *)
(* for its hash; a block's position stands for its lines.  Every event has *)
(* its evidence item, inserted beside it in the same transaction, so that  *)
(* an event stands for both.  The clock counts the seconds of timestamps   *)
(* on a scale on which a few of them make an entry old.                    *)
(***************************************************************************)
EXTENDS Integers, Sequences, FiniteSets

CONSTANTS
  Blocks,
  Files,         \* what the file may hold: sequences of blocks
  Missing,       \* no file
  Sensitive,     \* blocks with credentials
  Substantive,   \* blocks that carry a few long words
  TriggerAt, Limit, Target,    \* lengths: trim trigger, capacity, trim target
  RecentAge,     \* seven days
  StaleAge,      \* thirty days
  Weights,       \* what scoring and operators make of a curated memory
  NoTrim,
  MaxNow, MaxOps, MaxMemories, MaxEdits    \* bounds

Bands == {"low", "mid", "high"}

ASSUME EvidenceAssumption ==
  /\ \A f \in Files : f \in Seq(Blocks)
  /\ Missing \notin Files
  /\ Sensitive \subseteq Blocks /\ Substantive \subseteq Blocks
  /\ TriggerAt \in Nat /\ Limit \in Nat /\ Target \in Nat
  /\ RecentAge \in Nat /\ StaleAge \in Nat
  /\ Weights \subseteq
       [stability : Bands, retention : Bands, retained : BOOLEAN, disputed : BOOLEAN]
  /\ MaxNow \in Nat /\ MaxOps \in Nat /\ MaxMemories \in Nat /\ MaxEdits \in Nat

VARIABLES
  file,       \* the Markdown file
  source,     \* which of its two writers has inserted the file's source row
  health,     \* sources.health
  events,     \* raw_events of the source, with their evidence
  trim,       \* the trim that has replaced the file and is not completed
  trims,      \* the completed trims, by operation
  memories,   \* memories linked to evidence
  now,        \* the clock
  edits,      \* edits by the owner so far
  ingested    \* history: the file as it was last ingested

vars == <<file, source, health, events, trim, trims, memories, now, edits, ingested>>

Contents == Seq(Blocks)

\* What names an event: its file position, or its place in a trim of a content.
Ids == [kind : {"file", "trim"}, pos : Nat, block : Blocks, before : Contents]

EventRows ==
  [id : Ids, second : 0..MaxNow, status : {"committed", "tombstoned"}, op : 0..MaxOps]

\* A pending trim has replaced the file, recorded what it removed, or been
\* through the gate with it.
Phases == {"replaced", "recorded", "promoted"}

PendingTrims ==
  [op : 1..MaxOps, before : Contents, after : Contents, removed : Contents, phase : Phases]

ASSUME NoTrimAssumption == NoTrim \notin PendingTrims

Trims == [before : Contents, after : Contents, removed : Contents, rolled : BOOLEAN]

\* A memory is named by its number, or by the trim and block that the gate has
\* promoted; `events' are those its versions cite.  `retained' says that its
\* retention policy retains it: the column is there for operators to write.
MemoryRows ==
  [name : [op : 0..MaxOps, no : Nat], events : SUBSET Ids, stability : Bands,
   retention : Bands, retained : BOOLEAN, disputed : BOOLEAN, created : 0..MaxNow]

\* Types; an id names one event.
EvidenceTypeOK ==
  /\ file \in Contents \cup {Missing}
  /\ source \in {"none", "profile", "trim"}
  /\ health \in {"none", "healthy", "unavailable", "degraded"}
  /\ events \subseteq EventRows
  /\ \A d, e \in events : d.id = e.id => d = e
  /\ trim \in PendingTrims \cup {NoTrim}
  /\ trims \in Seq(Trims)
  /\ memories \subseteq MemoryRows
  /\ now \in 0..MaxNow
  /\ edits \in 0..MaxEdits
  /\ ingested \in Contents \cup {Missing}

Init ==
  /\ file \in Files \cup {Missing}
  /\ source = "none"
  /\ health = "none"
  /\ events = {}
  /\ trim = NoTrim
  /\ trims = <<>>
  /\ memories = {}
  /\ now = 0
  /\ edits = 0
  /\ ingested = Missing

----------------------------------------------------------------------------
(* Raw events and their keys *)

FileIds(f) == {[kind |-> "file", pos |-> i, block |-> f[i], before |-> <<>>] : i \in DOMAIN f}

TrimIds(removed, before) ==
  {[kind |-> "trim", pos |-> i, block |-> removed[i], before |-> before] : i \in DOMAIN removed}

\* Mutant: events that exist are inserted again.
AllIds(ids) == ids

NewIds(ids) == {x \in ids : \A e \in events : e.id # x}

\* Mutant: an event that is not inserted takes its evidence with it.
NeverClash(ids) == FALSE

\* A source has one event of a block in a second.  INSERT OR IGNORE drops the
\* others, and the evidence that refers to them violates its foreign key: the
\* transaction is lost.
Clash(ids) ==
  \E x \in NewIds(ids) :
    \/ \E e \in events : e.id.block = x.block /\ e.second = now
    \/ \E y \in NewIds(ids) : y # x /\ y.block = x.block

\* Those with a second block of their kind before them are dropped in silence.
Inserted(ids) ==
  {x \in NewIds(ids) :
     /\ \A e \in events : ~ (e.id.block = x.block /\ e.second = now)
     /\ \A y \in NewIds(ids) : y.block = x.block => x.pos <= y.pos}

Insert(ids, op) ==
  events' = events \cup
    {[id |-> x, second |-> now, status |-> "committed", op |-> op] : x \in Inserted(ids)}

----------------------------------------------------------------------------
(* Ingestion by the adapter *)

\* The external reference of a source is unique: once a trim has inserted a
\* row of its own for the file, the adapter's registration raises.
Registers == source # "trim"

HealthOf(f) == IF f = Missing THEN "unavailable" ELSE "healthy"

\* The registration is committed, whatever becomes of the ingestion.
IngestMissing ==
  /\ Registers
  /\ file = Missing
  /\ source' = "profile"
  /\ health' = HealthOf(file)
  /\ UNCHANGED <<file, events, trim, trims, memories, now, edits, ingested>>

IngestUnreadable ==
  /\ Registers
  /\ file # Missing
  /\ source' = "profile"
  /\ health' = "degraded"
  /\ UNCHANGED <<file, events, trim, trims, memories, now, edits, ingested>>

IngestRaises ==
  /\ Registers
  /\ file # Missing /\ Clash(FileIds(file))
  /\ source' = "profile"
  /\ health' = HealthOf(file)
  /\ UNCHANGED <<file, events, trim, trims, memories, now, edits, ingested>>

Ingest ==
  /\ Registers
  /\ file # Missing /\ ~ Clash(FileIds(file))
  /\ source' = "profile"
  /\ health' = HealthOf(file)
  /\ Insert(FileIds(file), 0)
  /\ ingested' = file
  /\ UNCHANGED <<file, trim, trims, memories, now, edits>>

----------------------------------------------------------------------------
(* Decisions of the overflow policy *)

\* The pressure states "trigger" and "over_limit".
Triggers(f) == Len(f) >= TriggerAt \/ Len(f) > Limit

\* Blocks are removed from the front, sensitive ones excepted, until the rest
\* fits; the last block stays.
Excess(f) == IF Target > 1 THEN Len(f) - Target ELSE Len(f) - 1
Removable(f) == {i \in DOMAIN f : f[i] \notin Sensitive}
RemovedIndices(f) ==
  {i \in Removable(f) : Cardinality({j \in Removable(f) : j <= i}) <= Excess(f)}

\* The blocks at some indices, in their order.
Part(f, indices) ==
  LET Kth(k) == CHOOSE i \in indices : Cardinality({j \in indices : j <= i}) = k
  IN [k \in 1..Cardinality(indices) |-> f[Kth(k)]]

Top(bands) == CASE "high" \in bands -> "high"
                [] "mid" \in bands /\ "high" \notin bands -> "mid"
                [] OTHER -> "low"

\* Whichever of its versions cites the event.
Linked(id) == {m \in memories : id \in m.events}

\* What the memories linked to an event say of it; with none, everything is low.
Signals(id) ==
  [stability |-> Top({m.stability : m \in Linked(id)}),
   retention |-> Top({m.retention : m \in Linked(id)}),
   retained |-> \E m \in Linked(id) : m.retained,
   disputed |-> \E m \in Linked(id) : m.disputed]

\* What planner and gate both leave to a human.  (Neither of the writers of
\* events puts the protection flags into provenance that the planner also
\* looks for.)
Protected(block, signals, recent) ==
  \/ block \in Sensitive
  \/ signals.retention = "high" \/ signals.stability = "high"
  \/ signals.disputed
  \/ recent

\* The planner's proposal for one event.
CandidateAction(duplicate, block, signals, age) ==
  LET forgotten == signals.retention = "low" /\ signals.stability = "low"
  IN IF signals.retained \/ Protected(block, signals, age < RecentAge) THEN "protect"
     ELSE IF duplicate THEN "compact"
     ELSE IF age >= StaleAge THEN IF forgotten THEN "remove" ELSE "compact"
     ELSE "retain"

\* Nothing is planned for a file that is not healthy.
Candidates == IF health = "healthy" THEN {e \in events : e.status = "committed"} ELSE {}

\* Blocks that a trim has removed have no lines and come first, in the order of
\* their hashes.
Precedes(d, e) ==
  /\ d.id.block = e.id.block
  /\ \/ d.id.kind = "trim" /\ e.id.kind = "file"
     \/ d.id.kind = "file" /\ e.id.kind = "file" /\ d.id.pos < e.id.pos

\* plan_overflow_trim: a block that comes again is a duplicate.  It may be one
\* for its hash, or because the profile's other file has it.
PlannedActions(e) ==
  {CandidateAction(duplicate, e.id.block, Signals(e.id), now - e.second) :
     duplicate \in {d \in BOOLEAN : (\E c \in Candidates : Precedes(c, e)) => d}}

\* The age that the gate looks at: that of the oldest memory linked to the
\* event.  Without one there is no age and no block is recent.
Recent(id) ==
  /\ Linked(id) # {}
  /\ \A m \in Linked(id) : now - m.created < RecentAge

\* Mutant: the gate forgets that an established memory needs a human.
GateForEstablished(id) ==
  /\ ~ Protected(id.block, [Signals(id) EXCEPT !.stability = "low"], Recent(id))
  /\ id.block \in Substantive \ Sensitive
  /\ Signals(id).stability # "low"

\* evaluate_auto_promote: what is not protected, is substantive and has a
\* stability in the middle band.  It does not ask for retention policies.
GatePromotes(id) ==
  /\ ~ Protected(id.block, Signals(id), Recent(id))
  /\ id.block \in Substantive \ Sensitive
  /\ Signals(id).stability # "low"

----------------------------------------------------------------------------
(* Live trims *)

TrimReplaces ==
  /\ trim = NoTrim
  /\ Len(trims) < MaxOps    \* bound
  /\ file # Missing
  /\ Triggers(file)
  /\ RemovedIndices(file) # {}
  /\ LET kept == Part(file, DOMAIN file \ RemovedIndices(file))
         removed == Part(file, RemovedIndices(file))
     IN /\ file' = kept
        /\ trim' = [op |-> Len(trims) + 1, before |-> file, after |-> kept,
                    removed |-> removed, phase |-> "replaced"]
  /\ UNCHANGED <<source, health, events, trims, memories, now, edits, ingested>>

\* The trim's own source row is ignored where the adapter has inserted one.
TrimSource == IF source = "none" THEN "trim" ELSE source

\* The gate looks for the events of the trim's own source row: where the
\* adapter's row took its place it finds nothing linked to them.
Promotable(ids) ==
  {x \in ids : /\ TrimSource = "trim"
               /\ GatePromotes(x)
               /\ \A y \in ids : y.block = x.block => x.pos <= y.pos}

Promotion(x) ==
  [name |-> [op |-> trim.op, no |-> x.pos], events |-> {x},
   stability |-> Signals(x).stability, retention |-> "low", retained |-> FALSE,
   disputed |-> FALSE, created |-> now]

\* By the trim itself, or by a reconciliation that finds the file as the trim
\* left it.
RecordRemoved ==
  /\ trim # NoTrim /\ trim.phase = "replaced"
  /\ file = trim.after
  /\ LET ids == TrimIds(trim.removed, trim.before)
     IN ~ Clash(ids) /\ Insert(ids, trim.op)
  /\ source' = TrimSource
  /\ health' = IF source = "none" THEN "healthy" ELSE health
  /\ trim' = [trim EXCEPT !.phase = "recorded"]
  /\ UNCHANGED <<file, trims, memories, now, edits, ingested>>

\* A transaction of its own, whose failure the trim survives.  What an earlier
\* attempt has promoted is skipped.
PromoteRemoved ==
  /\ trim # NoTrim /\ trim.phase = "recorded"
  /\ LET ids == TrimIds(trim.removed, trim.before)
         new == {x \in Promotable(ids) : \A m \in memories : m.name # Promotion(x).name}
     IN \/ memories' = memories \cup {Promotion(x) : x \in new}
        \/ UNCHANGED memories
  /\ trim' = [trim EXCEPT !.phase = "promoted"]
  /\ UNCHANGED <<file, source, health, events, trims, now, edits, ingested>>

CompleteTrim ==
  /\ trim # NoTrim /\ trim.phase = "promoted"
  /\ trims' = Append(trims, [before |-> trim.before, after |-> trim.after,
                             removed |-> trim.removed, rolled |-> FALSE])
  /\ trim' = NoTrim
  /\ UNCHANGED <<file, source, health, events, memories, now, edits, ingested>>

\* The process dies, or the operation fails; a reconciliation begins anew.
TrimBreaksOff ==
  /\ trim # NoTrim /\ trim.phase # "replaced"
  /\ trim' = [trim EXCEPT !.phase = "replaced"]
  /\ UNCHANGED <<file, source, health, events, trims, memories, now, edits, ingested>>

\* Mutant: a rollback withdraws by content what its operation has removed.
RollbackByContent(op) ==
  /\ trim = NoTrim
  /\ op \in DOMAIN trims
  /\ ~ trims[op].rolled
  /\ file = trims[op].after
  /\ file' = trims[op].before
  /\ LET content == {trims[op].removed[i] : i \in DOMAIN trims[op].removed}
     IN events' = {[e EXCEPT !.status = IF e.id.kind = "trim" /\ e.id.block \in content
                                        THEN "tombstoned" ELSE @] : e \in events}
  /\ trims' = [trims EXCEPT ![op].rolled = TRUE]
  /\ UNCHANGED <<source, health, trim, memories, now, edits, ingested>>

\* A rollback puts the content back and withdraws the events of its operation.
RollbackTrim(op) ==
  /\ trim = NoTrim
  /\ op \in DOMAIN trims
  /\ ~ trims[op].rolled
  /\ file = trims[op].after
  /\ file' = trims[op].before
  /\ events' = {[e EXCEPT !.status = IF e.op = op THEN "tombstoned" ELSE @] : e \in events}
  /\ trims' = [trims EXCEPT ![op].rolled = TRUE]
  /\ UNCHANGED <<source, health, trim, memories, now, edits, ingested>>

----------------------------------------------------------------------------
(* The environment *)

\* Curation writes a memory on the evidence of an event; its weights are what
\* scoring makes of it.
Curate(e) ==
  LET free == {n \in 1..MaxMemories : \A m \in memories : m.name # [op |-> 0, no |-> n]}
  IN /\ free # {}    \* bound
     /\ e \in events
     /\ \E w \in Weights :
          memories' = memories \cup
            {[name |-> [op |-> 0, no |-> CHOOSE n \in free : TRUE], events |-> {e.id},
              stability |-> w.stability, retention |-> w.retention,
              retained |-> w.retained, disputed |-> w.disputed, created |-> now]}
     /\ UNCHANGED <<file, source, health, events, trim, trims, now, edits, ingested>>

\* A revision cites another event and keeps when the memory was created.
Revise(m, e) ==
  /\ m \in memories
  /\ e \in events
  /\ memories' = (memories \ {m}) \cup {[m EXCEPT !.events = @ \cup {e.id}]}
  /\ UNCHANGED <<file, source, health, events, trim, trims, now, edits, ingested>>

Edit ==
  /\ edits < MaxEdits    \* bound
  /\ file' \in Files \cup {Missing}
  /\ edits' = edits + 1
  /\ UNCHANGED <<source, health, events, trim, trims, memories, now, ingested>>

Tick ==
  /\ now < MaxNow    \* bound
  /\ now' = now + 1
  /\ UNCHANGED <<file, source, health, events, trim, trims, memories, edits, ingested>>

Next ==
  \/ IngestMissing \/ IngestUnreadable \/ IngestRaises \/ Ingest
  \/ TrimReplaces \/ RecordRemoved \/ PromoteRemoved \/ CompleteTrim \/ TrimBreaksOff
  \/ \E op \in 1..MaxOps : RollbackTrim(op)
  \/ \E e \in events : Curate(e) \/ \E m \in memories : Revise(m, e)
  \/ Edit \/ Tick

Spec == Init /\ [][Next]_vars

\* The host runs the coordinator again and again, which reconciles a trim
\* whose evidence is pending.
FairSpec == Spec /\ WF_vars(RecordRemoved) /\ WF_vars(Tick)

----------------------------------------------------------------------------
(* Properties *)

Committed(x) == \E e \in events : e.id = x /\ e.status = "committed"

\* After an ingestion that does not raise, every block of the file is citable
\* evidence, though inserts that collide with a key are ignored in silence.
IngestIsComplete ==
  ingested # Missing => \A x \in FileIds(ingested) : Committed(x)

\* What a trim has removed is citable until the trim is rolled back, though
\* inserts are ignored where an id exists and promotions, breakdowns and other
\* trims and rollbacks come in between.  The one exception is a content that
\* was trimmed and put back before: its events exist, withdrawn for good, and
\* so what is removed from it again is evidence that nobody finds.
RemovedStaysCitable ==
  \A op \in DOMAIN trims : ~ trims[op].rolled =>
    \A x \in TrimIds(trims[op].removed, trims[op].before) :
      \/ Committed(x)
      \/ \E o \in DOMAIN trims : trims[o].rolled /\ trims[o].before = trims[op].before

\* evaluate_auto_promote says that its protection mirrors the planner's
\* (plan_overflow_trim), "so auto-promotion never bypasses a condition that
\* would otherwise require a human".  It does, as retention policies and the
\* ages that the two look at differ, but in no other way: the memory's policy
\* retains it, or an old memory has been revised with this newer event.
BypassNeedsPolicyOrRevision ==
  \A e \in Candidates :
    GatePromotes(e.id) /\ "protect" \in PlannedActions(e) =>
      \/ Signals(e.id).retained
      \/ \E m \in Linked(e.id), d \in events : d.id \in m.events /\ d.second < e.second

\* Whatever a trim removes from the file is recorded as evidence in the end.
RemovedBlocksBecomeEvidence ==
  trim # NoTrim ~> (trim # NoTrim => trim.phase # "replaced")
=============================================================================
