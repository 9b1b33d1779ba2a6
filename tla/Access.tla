------------------------------- MODULE Access -------------------------------
(***************************************************************************)
(* Who may read what, and what a reader is given: profile actors and their *)
(* grants (scope.py), cited recall (recall.py), context packets of the     *)
(* Hermes adapter (hermes_provider.py) and the retrieval index             *)
(* (retrieval.py).                                                         *)
(*                                                                         *)
(* A packet is made in steps: the sources of its profile are authorized    *)
(* and the recall over them is recorded, each in a transaction of its own; *)
(* every event found is then annotated by a look at its row, outside any   *)
(* transaction; the packet is assessed, and delivered with its audit       *)
(* event.  Owners, curators, trims and other readers change the store in   *)
(* between.  A query is represented by what it may match; the length of a  *)
(* snippet, by whether it had to be cut or left out for the budget.  Ranks *)
(* order the items of an answer, which is a set here.  Decisions, audit    *)
(* events and grants of the other scope types, which no reader of sources  *)
(* asks for, are not represented.                                          *)
(***************************************************************************)
EXTENDS Integers, Sequences, FiniteSets

CONSTANTS
  Profiles, Actors, NoActor,
  Derived,       \* the actor id made from a profile's name
  Guests,        \* actor ids that a caller may ask for
  Sources,       \* the sources of the families that profiles read
  Owner,         \* sources.profile_id
  Healths,       \* what sources.health may be
  Readable,      \* sources whose read authority is not none
  Overflow,      \* sources of bounded Markdown files
  BindingOf,     \* the metadata-only source of each profile that may be bound
  Later,         \* sources that are registered by their first use
  Events, SourceOf,
  Spoken,        \* events of completed turns, recorded when a turn is synced
  Imported,      \* events of session and vault exports, recorded by their import
  Trimmed,       \* events made by a live trim: those that its rollback withdraws
  Doubtful,      \* events with a low trust score or contradicting evidence
  Sessions, SessionSource, ProjectOf,
  NoSession, NoProject, Projects,
  Memories,
  Author,        \* memories.owner_actor_id
  Support,       \* the primary evidence of each version of a memory
  ScopeOf,       \* a session, a project, or Wide: global, actor or council
  Wide,
  Limit,         \* results of a query
  MaxChanges     \* bound: changes of the store by others

ASSUME AccessAssumption ==
  /\ NoActor \notin Actors
  /\ Derived \in [Profiles -> Actors]
  /\ Guests \subseteq Actors
  /\ \A p, q \in Profiles : Derived[p] \notin Guests /\ (Derived[p] = Derived[q] => p = q)
  /\ Owner \in [Sources -> Profiles]
  /\ {"healthy", "degraded"} \subseteq Healths
  /\ Healths \subseteq {"healthy", "degraded", "unavailable", "unauthorized"}
  /\ Readable \subseteq Sources /\ Overflow \subseteq Sources
  /\ DOMAIN BindingOf \subseteq Profiles
  /\ \A p \in DOMAIN BindingOf : BindingOf[p] \in Readable \ Overflow /\ Owner[BindingOf[p]] = p /\ BindingOf[p] \in Later
  /\ Later \subseteq Sources
  /\ Spoken \subseteq Events /\ Imported \subseteq Events \ Spoken
  /\ SourceOf \in [Events -> Sources]
  /\ \A e \in Events \ (Spoken \cup Imported) : SourceOf[e] \notin Later
  /\ Trimmed \subseteq Events /\ Doubtful \subseteq Events
  /\ SessionSource \in [Sessions -> Sources]
  /\ ProjectOf \in [Sessions -> Projects \cup {NoProject}]
  /\ NoSession \notin Sessions /\ NoProject \notin Projects
  /\ Author \in [Memories -> Actors]
  /\ Support \in [Memories -> Seq(Events) \ {<<>>}]
  /\ \A m \in Memories : Support[m][1] \notin Spoken \cup Imported
  /\ ScopeOf \in [Memories -> Sessions \cup Projects \cup {Wide}]
  /\ Limit \in Nat /\ MaxChanges \in Nat

VARIABLES
  health,     \* sources.health
  actor,      \* the active actor of each profile
  grants,     \* access_grants, permission read
  asked,      \* history: the grants made by grant_scope
  recorded,   \* raw_events
  withdrawn,  \* raw_events whose write_status is tombstoned
  memory,     \* status and current version of each memory
  index,      \* content_chunks with their embeddings
  request,    \* the packet or the retrieval in progress, or the last one
  changes     \* changes by others so far

store == <<health, actor, grants, asked, recorded, withdrawn, memory, index>>
vars == <<health, actor, grants, asked, recorded, withdrawn, memory, index, request, changes>>

MemoryStatuses == {"absent", "active", "stale", "contradicted", "quarantined", "tombstoned"}

Grants == [actor : Actors, type : {"source"}, id : Sources] \cup
          [actor : Actors, type : {"session"}, id : Sessions] \cup
          [actor : Actors, type : {"project"}, id : Projects]

Raw(e) == [event |-> e]
Version(m, v) == [memory |-> m, version |-> v]
IsRaw(x) == "event" \in DOMAIN x

Targets == {Raw(e) : e \in Events} \cup
           {Version(m, v) : m \in Memories, v \in UNION {DOMAIN Support[m] : m \in Memories}}

\* The event that a target is or rests on, and the source its citation names.
CitedEvent(x) == IF IsRaw(x) THEN x.event ELSE Support[x.memory][x.version]
CitedSource(x) == SourceOf[CitedEvent(x)]

NoRequest == [phase |-> "none"]

AccessTypeOK ==
  /\ health \in [Sources -> Healths \cup {"absent"}]
  /\ actor \in [Profiles -> Actors \cup {NoActor}]
  /\ \A p, q \in Profiles : actor[p] = actor[q] /\ actor[p] # NoActor => p = q
  /\ asked \subseteq grants /\ grants \subseteq Grants
  /\ recorded \subseteq Events /\ withdrawn \subseteq recorded
  /\ \A e \in recorded : health[SourceOf[e]] # "absent"
  /\ memory \in [Memories -> [status : MemoryStatuses, version : Nat]]
  /\ \A m \in Memories : memory[m].status # "absent" => memory[m].version \in DOMAIN Support[m]
  /\ index \subseteq Targets
  /\ request # NoRequest =>
       /\ request.phase \in {"authorized", "recalled", "assessed", "packed", "covered", "answered"}
       /\ request.searched \subseteq Sources
       /\ request.items \subseteq Targets
       /\ Cardinality(request.items) <= Limit
  /\ changes \in 0..MaxChanges

Init ==
  /\ health = [s \in Sources |-> IF s \in Later THEN "absent" ELSE "healthy"]
  /\ actor = [p \in Profiles |-> NoActor]
  /\ grants = {}
  /\ asked = {}
  /\ recorded = Events \ (Spoken \cup Imported)
  /\ withdrawn = {}
  /\ memory \in [Memories -> {[status |-> "absent", version |-> 0], [status |-> "active", version |-> 1]}]
  /\ index = {}
  /\ request = NoRequest
  /\ changes = 0

Change == changes < MaxChanges /\ changes' = changes + 1 /\ UNCHANGED request

----------------------------------------------------------------------------
(* Actors and grants *)

\* An actor that belongs to another profile is refused.
Mismatch(p, a) == \E q \in Profiles \ {p} : actor[q] = a

\* The profile's own actor, else the one asked for, else one of its own name;
\* the actor is bound to the profile from then on.
Resolved(p, a) ==
  IF actor[p] # NoActor THEN actor[p] ELSE IF a # NoActor THEN a ELSE Derived[p]

ReadGrant(a, type, id) == [actor |-> a, type |-> type, id |-> id]

Current(s) == health[s] = "healthy" /\ s \in Readable

SelfGrants(p, a) == {ReadGrant(a, "source", s) : s \in {t \in Sources : Owner[t] = p /\ Current(t)}}

AddGrant(g) ==
  /\ grants' = grants \cup {g}
  /\ asked' = asked \cup {g}

\* grant_scope commits what its caller has written so far (ensure_scope_runtime)
\* before it adds the grant, so a caller that dies then leaves only that.
CommitThenGrant(g) == AddGrant(g) \/ UNCHANGED <<grants, asked>>

\* An actor asked for that does not exist is made.
BindProfile(p, a, h) ==
  /\ Change
  /\ ~ Mismatch(p, a)
  /\ actor' = [actor EXCEPT ![p] = Resolved(p, a)]
  /\ health' = [health EXCEPT ![BindingOf[p]] = h]
  /\ CommitThenGrant(ReadGrant(Resolved(p, a), "source", BindingOf[p]))
  /\ UNCHANGED <<recorded, withdrawn, memory, index>>

GrantScope(g) ==
  /\ Change
  /\ \E p \in Profiles : actor[p] = g.actor
  /\ AddGrant(g)
  /\ UNCHANGED <<health, actor, recorded, withdrawn, memory, index>>

ImportedFrom(s) == {e \in Imported : SourceOf[e] = s}

\* An export is a source of its own with its content, so that importing it again
\* adds what is missing.  Its events remain drafts.
Import(s) ==
  LET a == Resolved(Owner[s], NoActor)
  IN /\ Change
     /\ ImportedFrom(s) # {}
     /\ actor' = [actor EXCEPT ![Owner[s]] = a]
     /\ health' = [health EXCEPT ![s] = "healthy"]
     /\ \/ AddGrant(ReadGrant(a, "source", s)) /\ recorded' = recorded \cup ImportedFrom(s)
        \/ UNCHANGED <<grants, asked, recorded>>
     /\ UNCHANGED <<withdrawn, memory, index>>

HasGrant(a, type, id) == ReadGrant(a, type, id) \in grants

\* decide_visibility of a source that exists, for an actor that does.
Visibility(a, s) ==
  CASE s \notin Readable -> "denied"
    [] s \in Readable /\ health[s] = "unauthorized" -> "unauthorized"
    [] s \in Readable /\ health[s] = "unavailable" -> "unavailable"
    [] s \in Readable /\ health[s] \in {"healthy", "degraded"} ->
         IF ~ HasGrant(a, "source", s) THEN "denied"
         ELSE IF health[s] = "healthy" THEN "allowed" ELSE "degraded"

----------------------------------------------------------------------------
(* Context packets *)

Present == {s \in Sources : health[s] # "absent"}

\* Mutant: the grants of a session or project are read for any actor.
CandidatesOfAnyone(p, a, held, session, project) ==
  {s \in Present :
     \/ Owner[s] = p
     \/ ReadGrant(a, "source", s) \in held
     \/ \E g \in held : /\ g.type = "session" /\ g.id = session /\ SessionSource[session] = s
     \/ \E g \in held, t \in Sessions : /\ g.type = "project" /\ g.id = project
                                        /\ ProjectOf[t] = project /\ SessionSource[t] = s}

Candidates(p, a, held, session, project) ==
  {s \in Present :
     \/ Owner[s] = p
     \/ ReadGrant(a, "source", s) \in held
     \/ /\ session # NoSession /\ ReadGrant(a, "session", session) \in held
        /\ SessionSource[session] = s
     \/ /\ project # NoProject /\ ReadGrant(a, "project", project) \in held
        /\ \E t \in Sessions : ProjectOf[t] = project /\ SessionSource[t] = s}

NotInProgress == request.phase \in {"none", "packed", "answered"}

\* Sources that cannot be read now are reported instead of searched.
Authorize(p, session, project) ==
  LET a == Resolved(p, NoActor)
      held == grants \cup SelfGrants(p, a)
      candidates == Candidates(p, a, held, session, project)
  IN /\ NotInProgress
     /\ actor' = [actor EXCEPT ![p] = a]
     /\ grants' = held
     /\ request' = [phase |-> "authorized", profile |-> p, session |-> session, project |-> project,
                    searched |-> {s \in candidates : Current(s)},
                    impaired |-> \E s \in candidates : s \in Readable /\ health[s] # "healthy",
                    denied |-> \E s \in candidates : s \notin Readable,
                    items |-> {}, status |-> "none", looked |-> {}, flagged |-> {}, gone |-> {}]
     /\ UNCHANGED <<health, asked, recorded, withdrawn, memory, index, changes>>

ScopeMatches(m, r) == ScopeOf[m] \in {Wide, r.session, r.project}

\* The proposal of the current version is written and its provenance complete:
\* the write makes both in its transaction.
Eligible(m, r) ==
  /\ memory[m].status = "active"
  /\ actor[r.profile] = Author[m]
  /\ ScopeMatches(m, r)
  /\ LET e == Support[m][memory[m].version]
     IN e \notin withdrawn \cup Imported /\ Current(SourceOf[e]) /\ Owner[SourceOf[e]] = r.profile

Recallable(r) ==
  {Raw(e) : e \in {e \in recorded : SourceOf[e] \in r.searched}} \cup
  {Version(m, memory[m].version) : m \in {m \in Memories : Eligible(m, r)}}

\* Mutant: the channels are limited and not their union.
AnyNumber(S) == SUBSET S

AnySmall(S) == {T \in SUBSET S : IsFiniteSet(T) /\ Cardinality(T) <= Limit}

\* Nothing found over impaired or denied sources, or over none, is no abstention.
RecallStatus(r, items) ==
  CASE r.impaired -> "degraded"
    [] ~ r.impaired /\ items # {} -> "ok"
    [] ~ r.impaired /\ items = {} -> IF r.denied \/ r.searched = {} THEN "degraded" ELSE "abstain"

\* History: the events that were withdrawn by then are kept as gone.
Recall ==
  /\ request.phase = "authorized"
  /\ \E items \in AnySmall(Recallable(request)) :
       request' = [request EXCEPT !.phase = "recalled", !.items = items, !.gone = withdrawn,
                                  !.status = RecallStatus(request, items)]
  /\ UNCHANGED <<store, changes>>

\* Mutant: annotations look at the source and not at the event.
AnnotatedBySource(x) == health[SourceOf[x.event]] # "healthy" \/ x.event \in Doubtful

Annotated(x) ==
  \/ health[SourceOf[x.event]] # "healthy"
  \/ x.event \in withdrawn
  \/ x.event \in Doubtful

\* The items are annotated one by one.  An event is looked up again; a memory is
\* not, it keeps the annotation of a healthy one.
Annotate(x) ==
  /\ request.phase = "recalled"
  /\ x \in request.items \ request.looked /\ IsRaw(x)
  /\ request' = [request EXCEPT !.looked = request.looked \cup {x},
                                !.flagged = request.flagged \cup {y \in {x} : Annotated(y)}]
  /\ UNCHANGED <<store, changes>>

\* The packets of every profile report that some profile's file is impaired.
SomeFileImpaired == \E s \in Overflow \cap Readable : health[s] \notin {"healthy", "absent"}

PacketStatus(r, packed, whole) ==
  CASE packed = {} /\ r.items # {} -> "blocked"
    [] (packed # {} \/ r.items = {}) /\ r.status # "ok" -> r.status
    [] (packed # {} \/ r.items = {}) /\ r.status = "ok" ->
         IF \/ ~ r.impaired /\ SomeFileImpaired
            \/ whole # r.items
            \/ packed \cap r.flagged # {}
         THEN "degraded" ELSE "ok"

\* Items that do not fit are cut, and those that do not fit cut are left out.
\* The impaired files are counted after every item has its annotations.
Assess ==
  /\ request.phase = "recalled"
  /\ \A x \in request.items : IsRaw(x) => x \in request.looked
  /\ \E packed \in SUBSET request.items : \E whole \in SUBSET packed :
       request' = [request EXCEPT !.phase = "assessed", !.items = packed,
                                  !.looked = {}, !.flagged = {},
                                  !.status = PacketStatus(request, packed, whole)]
  /\ UNCHANGED <<store, changes>>

\* The audit event is committed and the packet returned.
Deliver ==
  /\ request.phase = "assessed"
  /\ request' = [request EXCEPT !.phase = "packed"]
  /\ UNCHANGED <<store, changes>>

----------------------------------------------------------------------------
(* The retrieval index and retrieval *)

\* The status of a memory that retrieval serves is active.
Indexable ==
  {Raw(e) : e \in recorded \ withdrawn} \cup
  {Version(m, memory[m].version) : m \in {m \in Memories : memory[m].status = "active"}}

RebuildIndex ==
  /\ Change
  /\ index' = Indexable
  /\ UNCHANGED <<health, actor, grants, asked, recorded, withdrawn, memory>>

\* Mutant: a chunk of an earlier version serves its memory.
AnyVersionServed ==
  {x \in index :
     IF IsRaw(x) THEN x.event \notin withdrawn
     ELSE memory[x.memory].status \notin {"stale", "contradicted", "quarantined", "tombstoned"}}

Semantic ==
  {x \in index :
     IF IsRaw(x) THEN x.event \notin withdrawn
     ELSE /\ memory[x.memory].version = x.version
          /\ memory[x.memory].status \notin {"stale", "contradicted", "quarantined", "tombstoned"}}

Lexical ==
  {Raw(e) : e \in recorded} \cup
  {Version(m, memory[m].version) : m \in {m \in Memories : memory[m].status = "active"}}

\* Retrieval without an index falls back to words.
RetrieveCoverage(mode) ==
  /\ NotInProgress
  /\ request' = [phase |-> "covered", mode |-> IF index = {} THEN "lexical" ELSE mode,
                 fellback |-> index = {} /\ mode # "lexical",
                 searched |-> {s \in Present : Current(s)},
                 impaired |-> \E s \in Present \cap Readable : health[s] # "healthy",
                 items |-> {}, status |-> "none"]
  /\ UNCHANGED <<store, changes>>

Retrieve ==
  /\ request.phase = "covered"
  /\ \E items \in AnySmall((IF request.mode = "semantic" THEN {} ELSE Lexical) \cup
                           (IF request.mode = "lexical" THEN {} ELSE Semantic)) :
       request' = [phase |-> "answered", searched |-> request.searched, items |-> items,
                   status |-> CASE request.fellback \/ request.impaired -> "degraded"
                                [] ~ request.fellback /\ ~ request.impaired ->
                                     IF items = {} THEN "abstain" ELSE "ok"]
  /\ UNCHANGED <<store, changes>>

----------------------------------------------------------------------------
(* Changes by owners, curators and trims *)

FilesOf(p) == {s \in Overflow : Owner[s] = p}

\* The registration and ingestion of a profile's Markdown files.  A file that is
\* there is granted to its profile, also if it turns out to be unreadable.
Register(p, found) ==
  LET a == Resolved(p, NoActor)
      there == {s \in FilesOf(p) : found[s] \in {"healthy", "degraded"}}
  IN /\ Change
     /\ actor' = [actor EXCEPT ![p] = a]
     /\ health' = [s \in Sources |-> IF s \in FilesOf(p) THEN found[s] ELSE health[s]]
     /\ grants' = grants \cup {ReadGrant(a, "source", s) : s \in there}
     /\ UNCHANGED <<asked, recorded, withdrawn, memory, index>>

\* The rollback of a live trim.
Withdraw(e) ==
  /\ Change
  /\ e \in (Trimmed \cap recorded) \ withdrawn
  /\ withdrawn' = withdrawn \cup {e}
  /\ UNCHANGED <<health, actor, grants, asked, recorded, memory, index>>

\* A write or a rollback makes a version current; scoring and tombstones set a
\* status.
Curate(m, status, v) ==
  /\ Change
  /\ [status |-> status, version |-> v] # memory[m]
  /\ Support[m][v] \in recorded
  /\ IF memory[m].status = "absent" THEN status = "active" /\ v = 1
     ELSE \/ status = "active" /\ v \in DOMAIN Support[m]
          \/ status \in MemoryStatuses \ {"absent"} /\ v = memory[m].version
  /\ memory' = [memory EXCEPT ![m] = [status |-> status, version |-> v]]
  /\ UNCHANGED <<health, actor, grants, asked, recorded, withdrawn, index>>

ReaderStep ==
  \/ \E p \in Profiles, s \in Sessions \cup {NoSession}, r \in Projects \cup {NoProject} : Authorize(p, s, r)
  \/ Recall
  \/ \E x \in Targets : Annotate(x)
  \/ Assess
  \/ Deliver
  \/ \E mode \in {"lexical", "semantic", "hybrid"} : RetrieveCoverage(mode)
  \/ Retrieve

ChangeStep ==
  \/ \E p \in DOMAIN BindingOf, a \in Guests, h \in {"healthy", "degraded"} : BindProfile(p, a, h)
  \/ \E g \in Grants : GrantScope(g)
  \/ \E s \in Sources : Import(s)
  \/ RebuildIndex
  \/ \E p \in Profiles : \E found \in [FilesOf(p) -> Healths] : Register(p, found)
  \/ \E e \in Events : Withdraw(e)
  \/ \E m \in Memories, st \in MemoryStatuses : \E v \in DOMAIN Support[m] : Curate(m, st, v)

Next == ReaderStep \/ ChangeStep

Spec == Init /\ [][Next]_vars

----------------------------------------------------------------------------
(* Properties *)

\* A grant that somebody made lends the source to this request.
Shared(r, s) ==
  \E g \in asked :
    /\ g.actor = actor[r.profile]
    /\ \/ g.type = "source" /\ g.id = s
       \/ g.type = "session" /\ g.id = r.session /\ SessionSource[g.id] = s
       \/ g.type = "project" /\ g.id = r.project
          /\ \E t \in Sessions : ProjectOf[t] = g.id /\ SessionSource[t] = s

\* A packet of a profile cites only what is its own or was granted to its
\* actor, and remembers only what that actor owns on evidence of the profile's
\* own sources (authorized_sources_for_profile, recall): the grants that reading
\* itself makes reach no source of another profile, whoever asks in between, and
\* decide_visibility shows the actor what is its own.
ProfilesStayApart ==
  request.phase = "packed" =>
    \A x \in request.items :
      LET s == CitedSource(x)
          a == actor[request.profile]
      IN \/ /\ Owner[s] = request.profile
            /\ IF IsRaw(x) THEN health[s] = "healthy" => Visibility(a, s) = "allowed"
               ELSE Author[x.memory] = a
         \/ IsRaw(x) /\ Shared(request, s)

\* A packet that says ok cites nothing that was withdrawn before it was
\* recalled, be it the event itself or what a memory rests on, and no event that
\* is doubtful, whatever changes while it is made (recall, context_packet).  What
\* is withdrawn later it may still cite: an event that was looked up before, or a
\* memory, which is not looked up again.
OkPacketIsCurrent ==
  request.phase = "packed" /\ request.status = "ok" =>
    \A x \in request.items :
      /\ CitedEvent(x) \notin request.gone
      /\ IsRaw(x) => x.event \notin Doubtful

\* However stale the index is, it serves nothing that a rebuild now would leave
\* out: no withdrawn event, no superseded version, no memory that is not active
\* (_semantic_candidates against rebuild_retrieval_index).
IndexServesWhatRebuildWould == Semantic \subseteq Indexable

=============================================================================
