--------------------------- MODULE ProviderProofs ---------------------------
(***************************************************************************)
(* Proofs about Provider, for any number of profiles, actors, sources,     *)
(* sessions, memories and writers of the configuration.                    *)
(*                                                                         *)
(* The file: a writer that is between its lock and its release holds the   *)
(* lock, and what a save is about to write extends what is in the file     *)
(* (ConfigInv).  The readers: an actor belongs to one profile, a grant     *)
(* that nobody asked for is of a source of its own actor's profile, and a  *)
(* request has searched what is its profile's own or was lent to it        *)
(* (ScopeInv), and what it recalled or looked up was not withdrawn before  *)
(* (LooksFounded).  The index: a chunk is of an event that is recorded or of a *)
(* memory that exists (IndexFounded).  The types need of writers that what *)
(* they hold has known keys (KeysKnown), of the store that a recorded      *)
(* event has its source and a memory its version (StoreTyped), and of a    *)
(* request that it searched sources and found few things (RequestTyped).   *)
(***************************************************************************)
EXTENDS Provider, FiniteSetTheorems, TLAPS

----------------------------------------------------------------------------
(* The configuration file *)

ConfigStep ==
  \/ \E c \in Savers, values \in Saves : SaveLocks(c, values)
  \/ \E c \in Savers, values \in Postures : SwitchReads(c, values)
  \/ \E c \in Savers : SwitchLocks(c) \/ ReplaceConfig(c) \/ Release(c)

\* A writer that is under way has all its fields.
IsWriter(w) ==
  w = Idle \/ w = [phase |-> w.phase, kind |-> w.kind, values |-> w.values, next |-> w.next]

Holds(c) == saver[c].phase \in {"locked", "replaced"}

ConfigInv ==
  /\ saver = [c \in Savers |-> saver[c]]
  /\ \A c \in Savers :
       /\ IsWriter(saver[c])
       /\ Holds(c) => lock = c
       /\ saver[c].phase = "read" => saver[c].kind = "switch"
       /\ saver[c].phase = "replaced" => config = saver[c].next
       /\ saver[c].phase = "locked" /\ saver[c].kind = "save" =>
            saver[c].next = Merge(config, saver[c].values)

LEMMA IdleHoldsNothing == Idle.phase = "idle" /\ IsWriter(Idle)
BY DEF Idle, IsWriter

\* A writer goes on to its next phase with what it had.
LEMMA WriterMoves ==
  ASSUME ConfigInv, NEW c \in Savers, saver[c].phase # "idle", NEW ph,
         saver' = [saver EXCEPT ![c].phase = ph]
  PROVE  /\ saver' = [d \in Savers |-> IF d = c THEN saver'[c] ELSE saver[d]]
         /\ IsWriter(saver'[c]) /\ saver'[c].phase = ph /\ saver'[c].kind = saver[c].kind
         /\ saver'[c].values = saver[c].values /\ saver'[c].next = saver[c].next
<1> DEFINE w == [saver[c] EXCEPT !.phase = ph]
<1>1. saver[c] = [phase |-> saver[c].phase, kind |-> saver[c].kind,
                  values |-> saver[c].values, next |-> saver[c].next]
  BY IdleHoldsNothing DEF ConfigInv, IsWriter
<1>2. /\ IsWriter(w) /\ w.phase = ph /\ w.kind = saver[c].kind
      /\ w.values = saver[c].values /\ w.next = saver[c].next
  BY <1>1 DEF IsWriter
<1>3. saver' = [saver EXCEPT ![c] = w]
  OBVIOUS
<1> HIDE DEF w
<1>4. saver'[c] = w /\ saver' = [d \in Savers |-> IF d = c THEN w ELSE saver[d]]
  BY <1>3 DEF ConfigInv
<1> QED BY <1>2, <1>4

LEMMA NewWriter ==
  ASSUME ConfigInv, NEW c \in Savers, NEW ph, NEW kind, NEW values, At(c, ph, kind, values)
  PROVE  /\ saver' = [d \in Savers |-> IF d = c THEN saver'[c] ELSE saver[d]]
         /\ IsWriter(saver'[c]) /\ saver'[c].phase = ph /\ saver'[c].kind = kind
         /\ saver'[c].values = values /\ saver'[c].next = Merge(config, values)
<1> DEFINE w == [phase |-> ph, kind |-> kind, values |-> values, next |-> Merge(config, values)]
<1>1. /\ IsWriter(w) /\ w.phase = ph /\ w.kind = kind /\ w.values = values
      /\ w.next = Merge(config, values)
  BY DEF IsWriter
<1>2. saver' = [saver EXCEPT ![c] = w]
  BY DEF At
<1> HIDE DEF w
<1>3. saver'[c] = w /\ saver' = [d \in Savers |-> IF d = c THEN w ELSE saver[d]]
  BY <1>2 DEF ConfigInv
<1> QED BY <1>1, <1>3

LEMMA ConfigStepKeepsInv == ASSUME ConfigInv, ConfigStep PROVE ConfigInv'
<1>1. ASSUME NEW c \in Savers, NEW values, SaveLocks(c, values) PROVE ConfigInv'
  <2>1. \A d \in Savers : ~ Holds(d)
    BY <1>1, NoSaverAssumption DEF SaveLocks, ConfigInv
  <2>2. At(c, "locked", "save", values) /\ lock' = c /\ config' = config
    BY <1>1 DEF SaveLocks
  <2>3. /\ saver' = [d \in Savers |-> IF d = c THEN saver'[c] ELSE saver[d]]
        /\ IsWriter(saver'[c]) /\ saver'[c].phase = "locked" /\ saver'[c].kind = "save"
        /\ saver'[c].next = Merge(config', saver'[c].values)
    BY <2>2, NewWriter
  <2>4. ASSUME NEW d \in Savers, d # c
        PROVE  /\ saver'[d] = saver[d] /\ ~ Holds(d) /\ IsWriter(saver[d])
               /\ saver[d].phase = "read" => saver[d].kind = "switch"
    BY <2>1, <2>3, <2>4 DEF ConfigInv
  <2>5. IsWriter(saver[c])'
    BY <2>3 DEF IsWriter
  <2>6. \A d \in Savers \ {c} : IsWriter(saver[d])'
    BY <2>4 DEF IsWriter
  <2>7. Merge(config, saver[c].values)' = Merge(config', saver'[c].values)
    BY DEF Merge
  <2> QED BY <2>2, <2>3, <2>4, <2>5, <2>6, <2>7 DEF ConfigInv, Holds
<1>2. ASSUME NEW c \in Savers, NEW values, SwitchReads(c, values) PROVE ConfigInv'
  <2>1. At(c, "read", "switch", values) /\ UNCHANGED <<lock, config>>
    BY <1>2 DEF SwitchReads
  <2>2. /\ saver' = [d \in Savers |-> IF d = c THEN saver'[c] ELSE saver[d]]
        /\ IsWriter(saver'[c]) /\ saver'[c].phase = "read" /\ saver'[c].kind = "switch"
    BY <2>1, NewWriter
  <2> QED BY <2>1, <2>2 DEF ConfigInv, Holds, IsWriter, Merge
<1>3. ASSUME NEW c \in Savers, SwitchLocks(c) PROVE ConfigInv'
  <2>1. \A d \in Savers : ~ Holds(d)
    BY <1>3, NoSaverAssumption DEF SwitchLocks, ConfigInv
  <2>2. /\ saver[c].phase = "read" /\ lock' = c /\ config' = config
        /\ saver' = [saver EXCEPT ![c].phase = "locked"]
    BY <1>3 DEF SwitchLocks
  <2>3. saver[c].kind = "switch"
    BY <2>2 DEF ConfigInv
  <2>4. /\ saver' = [d \in Savers |-> IF d = c THEN saver'[c] ELSE saver[d]]
        /\ IsWriter(saver'[c]) /\ saver'[c].phase = "locked" /\ saver'[c].kind = "switch"
    BY <2>2, <2>3, WriterMoves
  <2> QED BY <2>1, <2>2, <2>4 DEF ConfigInv, Holds, IsWriter, Merge
<1>4. ASSUME NEW c \in Savers, ReplaceConfig(c) PROVE ConfigInv'
  <2>1. /\ saver[c].phase = "locked" /\ lock' = lock /\ config' = saver[c].next
        /\ saver' = [saver EXCEPT ![c].phase = "replaced"]
    BY <1>4 DEF ReplaceConfig
  <2>2. \A d \in Savers \ {c} : ~ Holds(d)
    BY <2>1 DEF ConfigInv, Holds
  <2>3. /\ saver' = [d \in Savers |-> IF d = c THEN saver'[c] ELSE saver[d]]
        /\ IsWriter(saver'[c]) /\ saver'[c].phase = "replaced" /\ saver'[c].next = saver[c].next
    BY <2>1, WriterMoves
  <2>4. lock = c
    BY <2>1 DEF ConfigInv, Holds
  <2> QED BY <2>1, <2>2, <2>3, <2>4 DEF ConfigInv, Holds, IsWriter
<1>5. ASSUME NEW c \in Savers, Release(c) PROVE ConfigInv'
  <2>1. /\ saver' = [d \in Savers |-> IF d = c THEN Idle ELSE saver[d]]
        /\ lock' = (IF lock = c THEN NoSaver ELSE lock) /\ config' = config
    BY <1>5 DEF Release, ConfigInv
  <2> QED BY <2>1, IdleHoldsNothing DEF ConfigInv, Holds, IsWriter, Merge
<1> QED BY <1>1, <1>2, <1>3, <1>4, <1>5 DEF ConfigStep

LEMMA ConfigNext ==
  ASSUME ConfigInv, [ProviderNext]_allVars
  PROVE  ConfigInv' /\ (ConfigStep \/ UNCHANGED configVars)
<1>1. ConfigStep \/ UNCHANGED configVars
  BY DEF ProviderNext, SaveStep, SessionStep, SyncTurn, ToolCall, ProposeTurn, ConfigStep, allVars
<1>2. CASE UNCHANGED configVars
  BY <1>2 DEF ConfigInv, configVars, Holds, IsWriter, Merge
<1> QED BY <1>1, <1>2, ConfigStepKeepsInv

THEOREM ConfigInvariant == ProviderSpec => []ConfigInv
<1>1. ProviderInit => ConfigInv
  BY IdleHoldsNothing DEF ProviderInit, ConfigInit, ConfigInv, Holds
<1>2. ConfigInv /\ [ProviderNext]_allVars => ConfigInv'
  BY ConfigNext
<1> QED BY <1>1, <1>2, PTL DEF ProviderSpec

\* However many processes save and switch, the one that holds the lock reads
\* back what it wrote.
THEOREM WritesAreReadBack == ProviderSpec => []ReadsBackItsWrite
<1>1. ConfigInv => ReadsBackItsWrite
  BY DEF ConfigInv, ReadsBackItsWrite
<1> QED BY <1>1, ConfigInvariant, PTL

\* A save of the plugin never undoes a setting, whoever switches meanwhile.
THEOREM SavesLoseNothing == ProviderSpec => SavesKeepSettings
<1> DEFINE Keeps == \A c \in Savers :
             /\ config = settings
             /\ saver[c].phase = "locked" /\ saver[c].kind = "save" /\ saver'[c].phase = "replaced"
             => config' = settings'
<1>1. ConfigInv /\ [ProviderNext]_allVars => Keeps \/ UNCHANGED configVars
  <2> SUFFICES ASSUME ConfigInv, [ProviderNext]_allVars, NEW c \in Savers,
                      config = settings, saver[c].phase = "locked", saver[c].kind = "save",
                      saver'[c].phase = "replaced"
               PROVE  config' = settings' \/ UNCHANGED configVars
    OBVIOUS
  <2>1. CASE ReplaceConfig(c)
    BY <2>1 DEF ReplaceConfig, ConfigInv
  <2>2. ASSUME NEW d \in Savers, NEW ph, d # c \/ ph # "replaced",
               saver' = [saver EXCEPT ![d].phase = ph]
        PROVE  FALSE
    <3>1. CASE d = c
      BY <2>2, <3>1, WriterMoves
    <3>2. CASE d # c
      BY <2>2, <3>2 DEF ConfigInv
    <3> QED BY <3>1, <3>2
  <2>3. ASSUME NEW d \in Savers, NEW values,
               SaveLocks(d, values) \/ SwitchReads(d, values) \/ Release(d)
        PROVE  FALSE
    <3>1. saver[d] = Idle => d # c
      BY IdleHoldsNothing
    <3>2. CASE d = c
      BY <2>3, <3>1, <3>2, IdleHoldsNothing DEF SaveLocks, SwitchReads, Release, ConfigInv
    <3>3. CASE d # c
      <4>1. saver'[c] = saver[c]
        BY <2>3, <3>3 DEF SaveLocks, SwitchReads, Release, At, ConfigInv
      <4> QED BY <4>1
    <3> QED BY <3>2, <3>3
  <2> QED BY <2>1, <2>2, <2>3, ConfigNext DEF ConfigStep, SwitchLocks, ReplaceConfig
<1> QED BY <1>1, ConfigInvariant, PTL DEF ProviderSpec, SavesKeepSettings

----------------------------------------------------------------------------
(* Actors *)

\* An actor belongs to one profile: its own name, or a guest nobody else has.
ActorsApart ==
  /\ actor \in [Profiles -> Actors \cup {NoActor}]
  /\ \A p \in Profiles : actor[p] \in Guests \cup {NoActor, Derived[p]}
  /\ \A p, q \in Profiles : actor[p] = actor[q] /\ actor[p] # NoActor => p = q

\* A profile resolves to a, which nobody else has; one that is bound stays bound.
Binds(p, a) ==
  /\ a = Resolved(p, NoActor) \/ (\E g \in Guests : a = Resolved(p, g) /\ ~ Mismatch(p, g))
  /\ actor' = [actor EXCEPT ![p] = a]

LEMMA BindKeepsApart ==
  ASSUME AccessAssumption, ActorsApart, NEW p \in Profiles, NEW a, Binds(p, a)
  PROVE  /\ ActorsApart' /\ a \in Actors /\ a # NoActor /\ actor'[p] = a
         /\ \A q \in Profiles : actor[q] # NoActor => actor'[q] = actor[q]
         /\ \A q \in Profiles : actor[q] = a => q = p
<1>1. a \in Actors /\ a # NoActor /\ a \in Guests \cup {Derived[p]}
  BY DEF AccessAssumption, ActorsApart, Binds, Resolved
<1>2. actor[p] # NoActor => a = actor[p]
  BY <1>1 DEF Binds, Resolved, AccessAssumption
<1>3. \A q \in Profiles : actor[q] = a => q = p
  <2> SUFFICES ASSUME NEW q \in Profiles, actor[q] = a, q # p PROVE FALSE
    OBVIOUS
  <2>1. actor[p] = NoActor
    BY <1>1, <1>2 DEF ActorsApart
  <2>2. CASE a = Derived[p]
    BY <1>1, <2>2 DEF AccessAssumption, ActorsApart
  <2>3. CASE a # Derived[p]
    BY <1>1, <2>1, <2>3 DEF Binds, Resolved, Mismatch, AccessAssumption
  <2> QED BY <2>2, <2>3
<1>4. actor'[p] = a /\ \A q \in Profiles \ {p} : actor'[q] = actor[q]
  BY DEF Binds, ActorsApart
<1>5. actor' \in [Profiles -> Actors \cup {NoActor}]
  BY <1>1 DEF Binds, ActorsApart
<1>6. ActorsApart'
  BY <1>1, <1>3, <1>4, <1>5 DEF ActorsApart
<1> QED BY <1>1, <1>2, <1>3, <1>4, <1>6

----------------------------------------------------------------------------
(* What a request may have read *)

\* The grants that nobody asked for are those of a profile to its own actor.
GrantsFounded ==
  /\ asked \subseteq grants /\ grants \subseteq Grants
  /\ \A g \in grants \ asked :
       g.type = "source" /\ \E q \in Profiles : actor[q] = g.actor /\ Owner[g.id] = q

\* The source s was searched as the profile's own, or lent to it.
Lent(r, s) ==
  \/ Owner[s] = r.profile /\ HasGrant(actor[r.profile], "source", s)
  \/ Shared(r, s)

\* What recall found: an event of a searched source, or a memory of the actor
\* on evidence of its profile.
Found(r, x) ==
  \/ \E e : x = Raw(e) /\ SourceOf[e] \in r.searched
  \/ \E m \in Memories : \E v : /\ x = Version(m, v)
                                /\ Author[m] = actor[r.profile]
                                /\ Owner[CitedSource(x)] = r.profile

Packing == request.phase \in {"authorized", "recalled", "assessed", "packed"}

\* A packet in progress has all its fields.
IsPacket(r) ==
  r = [phase |-> r.phase, profile |-> r.profile, session |-> r.session, project |-> r.project,
       searched |-> r.searched, impaired |-> r.impaired, denied |-> r.denied,
       items |-> r.items, status |-> r.status,
       looked |-> r.looked, flagged |-> r.flagged, gone |-> r.gone]

\* What was searched is the profile's or lent to it, and what was found was
\* searched for.
RequestFounded ==
  Packing =>
    /\ IsPacket(request)
    /\ request.profile \in Profiles /\ actor[request.profile] # NoActor
    /\ request.searched \subseteq Readable
    /\ \A s \in request.searched : Lent(request, s)
    /\ \A x \in request.items : Found(request, x)

ScopeInv == ActorsApart /\ GrantsFounded /\ RequestFounded

\* A bound profile keeps its actor, a grant made stays made.
ActorsKept == \A p \in Profiles : actor[p] # NoActor => actor'[p] = actor[p]

LEMMA RequestStaysFounded ==
  ASSUME RequestFounded, ActorsKept, grants \subseteq grants', asked \subseteq asked',
         UNCHANGED request
  PROVE  RequestFounded'
<1> SUFFICES ASSUME Packing PROVE RequestFounded'
  BY DEF RequestFounded, Packing
<1>1. actor'[request.profile] = actor[request.profile] /\ actor[request.profile] # NoActor
      /\ request.profile \in Profiles
  BY DEF RequestFounded, ActorsKept
<1>2. \A s \in request.searched : Lent(request, s)'
  BY <1>1 DEF RequestFounded, Lent, HasGrant, ReadGrant, Shared
<1>3. \A x \in request.items : Found(request, x)'
  BY <1>1 DEF RequestFounded, Found
<1>4. /\ IsPacket(request)' /\ (request.searched \subseteq Readable)'
  BY DEF RequestFounded, IsPacket
<1> QED BY <1>1, <1>2, <1>3, <1>4 DEF RequestFounded

LEMMA GrantsStayFounded ==
  ASSUME GrantsFounded, ActorsKept, ActorsApart, NoActor \notin Actors,
         asked \subseteq asked', asked' \subseteq grants', grants' \subseteq Grants,
         \A g \in grants' \ grants : g \in asked' \/
            (g.type = "source" /\ \E q \in Profiles : actor'[q] = g.actor /\ Owner[g.id] = q)
  PROVE  GrantsFounded'
<1> SUFFICES ASSUME NEW g \in grants', g \notin asked'
             PROVE  g.type = "source" /\ \E q \in Profiles : actor'[q] = g.actor /\ Owner[g.id] = q
  BY DEF GrantsFounded
<1>1. CASE g \in grants
  <2>1. g.type = "source" /\ g.actor \in Actors
    <3>1. g \in Grants
      BY <1>1 DEF GrantsFounded
    <3>2. g.actor \in Actors
      BY <3>1 DEF Grants
    <3> QED BY <1>1, <3>2 DEF GrantsFounded
  <2>2. PICK q \in Profiles : actor[q] = g.actor /\ Owner[g.id] = q
    BY <1>1 DEF GrantsFounded
  <2> QED BY <2>1, <2>2 DEF ActorsKept
<1>2. CASE g \notin grants
  BY <1>2
<1> QED BY <1>1, <1>2

\* A step that may bind a profile or add a grant that was asked for.
LEMMA BindingStep ==
  ASSUME AccessAssumption, ScopeInv, UNCHANGED request,
         UNCHANGED actor \/ \E p \in Profiles : \E a : Binds(p, a),
         \/ UNCHANGED <<grants, asked>>
         \/ \E g \in Grants : AddGrant(g)
  PROVE  ScopeInv'
<1>1. ActorsApart' /\ ActorsKept
  BY BindKeepsApart DEF ScopeInv, ActorsApart, ActorsKept
<1>2. /\ grants \subseteq grants' /\ asked \subseteq asked' /\ asked' \subseteq grants'
      /\ grants' \subseteq Grants /\ \A g \in grants' \ grants : g \in asked'
  BY DEF AddGrant, ScopeInv, GrantsFounded
<1>3. GrantsFounded'
  BY <1>1, <1>2, GrantsStayFounded DEF ScopeInv, AccessAssumption
<1>4. RequestFounded'
  BY <1>1, <1>2, RequestStaysFounded DEF ScopeInv
<1> QED BY <1>1, <1>3, <1>4 DEF ScopeInv

\* A registration grants a profile's own files to its own actor.
LEMMA RegisterKeepsScope ==
  ASSUME AccessAssumption, ScopeInv, NEW p \in Profiles, NEW found, Register(p, found)
  PROVE  ScopeInv'
<1> DEFINE a == Resolved(p, NoActor)
           there == {s \in FilesOf(p) : found[s] \in {"healthy", "degraded"}}
           granted == {ReadGrant(a, "source", s) : s \in there}
<1>1. /\ actor' = [actor EXCEPT ![p] = a] /\ grants' = grants \cup granted
      /\ UNCHANGED <<asked, request>>
  BY DEF Register, Change
<1>2. Binds(p, a)
  BY <1>1 DEF Binds
<1> HIDE DEF a
<1>3. /\ ActorsApart' /\ a \in Actors /\ actor'[p] = a /\ ActorsKept
  BY <1>2, BindKeepsApart DEF ScopeInv, ActorsKept
<1>4. ASSUME NEW g \in granted
      PROVE  g \in Grants /\ g.type = "source" /\ g.actor = a /\ Owner[g.id] = p
  BY <1>3 DEF FilesOf, ReadGrant, Grants, AccessAssumption
<1> HIDE DEF granted
<1>5. asked' \subseteq grants' /\ grants' \subseteq Grants
  BY <1>1, <1>4 DEF ScopeInv, GrantsFounded
<1>6. \A g \in grants' \ grants :
        g.type = "source" /\ \E q \in Profiles : actor'[q] = g.actor /\ Owner[g.id] = q
  BY <1>1, <1>3, <1>4
<1>7. GrantsFounded'
  BY <1>1, <1>3, <1>5, <1>6, GrantsStayFounded DEF ScopeInv, AccessAssumption
<1>8. RequestFounded'
  BY <1>1, <1>3, RequestStaysFounded DEF ScopeInv
<1> QED BY <1>3, <1>7, <1>8 DEF ScopeInv

\* So does the import of an export, which is its own source.
LEMMA ImportKeepsScope ==
  ASSUME AccessAssumption, ScopeInv, NEW s \in Sources, Import(s) PROVE ScopeInv'
<1> DEFINE p == Owner[s]
           b == Resolved(p, NoActor)
           g == ReadGrant(b, "source", s)
<1>1. p \in Profiles
  BY DEF AccessAssumption
<1>2. Binds(p, b)
  BY DEF Import, Binds
<1>3. b \in Actors
  BY <1>1, <1>2, BindKeepsApart DEF ScopeInv
<1>4. g \in Grants
  BY <1>3 DEF ReadGrant, Grants
<1>5. (AddGrant(g) \/ UNCHANGED <<grants, asked>>) /\ UNCHANGED request
  BY DEF Import, Change
<1> HIDE DEF p, b, g
<1> QED BY <1>1, <1>2, <1>4, <1>5, BindingStep

LEMMA ChangesKeepScope ==
  ASSUME AccessAssumption, ScopeInv, ChangeStep PROVE ScopeInv'
<1>1. UNCHANGED request
  BY DEF ChangeStep, BindProfile, GrantScope, Import, RebuildIndex, Register, Withdraw, Curate,
         Change
<1>2. CASE UNCHANGED <<actor, grants, asked>>
  BY <1>1, <1>2, BindingStep
<1>3. ASSUME NEW g \in Grants, GrantScope(g) PROVE ScopeInv'
  BY <1>1, <1>3, BindingStep DEF GrantScope
<1>4. ASSUME NEW p \in DOMAIN BindingOf, NEW a \in Guests, NEW h, BindProfile(p, a, h)
      PROVE  ScopeInv'
  <2> DEFINE b == Resolved(p, a)
             g == ReadGrant(b, "source", BindingOf[p])
  <2>1. p \in Profiles /\ BindingOf[p] \in Sources
    BY DEF AccessAssumption
  <2>2. Binds(p, b)
    BY <1>4 DEF BindProfile, Binds
  <2>3. b \in Actors
    BY <2>1, <2>2, BindKeepsApart DEF ScopeInv
  <2>4. g \in Grants
    BY <2>1, <2>3 DEF ReadGrant, Grants
  <2>5. AddGrant(g) \/ UNCHANGED <<grants, asked>>
    BY <1>4 DEF BindProfile, CommitThenGrant
  <2> HIDE DEF b, g
  <2> QED BY <1>1, <2>1, <2>2, <2>4, <2>5, BindingStep
<1>5. ASSUME NEW s \in Sources, Import(s) PROVE ScopeInv'
  BY <1>5, ImportKeepsScope
<1>6. ASSUME NEW p \in Profiles, NEW found, Register(p, found) PROVE ScopeInv'
  BY <1>6, RegisterKeepsScope
<1> QED BY <1>2, <1>3, <1>4, <1>5, <1>6
        DEF ChangeStep, RebuildIndex, Withdraw, Curate

LEMMA ReadGrantFields ==
  ASSUME NEW a, NEW type, NEW id
  PROVE  /\ ReadGrant(a, type, id).actor = a /\ ReadGrant(a, type, id).type = type
         /\ ReadGrant(a, type, id).id = id
BY DEF ReadGrant

\* An authorization searches what its profile owns or what was lent to it.
LEMMA AuthorizeKeepsScope ==
  ASSUME AccessAssumption, ScopeInv, NEW p \in Profiles,
         NEW session \in Sessions \cup {NoSession}, NEW project \in Projects \cup {NoProject},
         Authorize(p, session, project)
  PROVE  ScopeInv'
<1> DEFINE a == Resolved(p, NoActor)
           held == grants \cup SelfGrants(p, a)
           searched == {s \in Candidates(p, a, held, session, project) : Current(s)}
<1>1. /\ actor' = [actor EXCEPT ![p] = a] /\ grants' = held /\ asked' = asked
      /\ request'.phase = "authorized" /\ request'.profile = p /\ request'.session = session
      /\ request'.project = project /\ request'.searched = searched /\ request'.items = {}
  BY DEF Authorize
<1>2. Binds(p, a)
  BY <1>1 DEF Binds
<1> HIDE DEF a
<1>3. /\ ActorsApart' /\ a \in Actors /\ a # NoActor /\ actor'[p] = a
      /\ ActorsKept /\ \A q \in Profiles : actor[q] = a => q = p
  BY <1>2, BindKeepsApart DEF ScopeInv, ActorsKept
<1>4. ASSUME NEW g \in SelfGrants(p, a)
      PROVE  /\ g \in Grants /\ g.type = "source" /\ g.actor = a
             /\ g.id \in Sources /\ Owner[g.id] = p
  BY <1>3 DEF SelfGrants, ReadGrant, Grants
<1>5. GrantsFounded'
  <2>1. held \subseteq Grants /\ asked \subseteq held
    BY <1>4 DEF ScopeInv, GrantsFounded
  <2>2. \A g \in held \ grants :
          g.type = "source" /\ \E q \in Profiles : actor'[q] = g.actor /\ Owner[g.id] = q
    BY <1>3, <1>4
  <2> HIDE DEF held
  <2> QED BY <1>1, <1>3, <2>1, <2>2, GrantsStayFounded DEF ScopeInv, AccessAssumption
<1>6. ASSUME NEW g \in held, g \notin asked, g.actor = a
      PROVE  g.type = "source" /\ Owner[g.id] = p
  <2>1. CASE g \in SelfGrants(p, a)
    BY <1>4, <2>1
  <2>2. CASE g \in grants
    <3>1. g.type = "source" /\ \E q \in Profiles : actor[q] = g.actor /\ Owner[g.id] = q
      BY <1>6, <2>2 DEF ScopeInv, GrantsFounded
    <3>2. PICK q \in Profiles : actor[q] = a /\ Owner[g.id] = q
      BY <1>6, <3>1
    <3>3. q = p
      BY <1>3, <3>2
    <3> QED BY <3>1, <3>2, <3>3
  <2> QED BY <2>1, <2>2 DEF held
<1>7. ASSUME NEW s \in searched PROVE s \in Readable /\ Lent(request, s)'
  <2>1. s \in Sources /\ Current(s) /\ s \in Candidates(p, a, held, session, project)
    BY DEF Candidates, Present
  <2>2. CASE Owner[s] = p
    <3>1. ReadGrant(a, "source", s) \in SelfGrants(p, a)
      BY <2>1, <2>2 DEF SelfGrants
    <3> QED BY <1>1, <1>3, <2>1, <2>2, <3>1 DEF Lent, HasGrant, Current
  <2>3. CASE Owner[s] # p
    <3> DEFINE lending == {g \in asked : g.actor = a}
    <3>1. \/ ReadGrant(a, "source", s) \in held
          \/ /\ session # NoSession /\ ReadGrant(a, "session", session) \in held
             /\ SessionSource[session] = s
          \/ /\ project # NoProject /\ ReadGrant(a, "project", project) \in held
             /\ \E t \in Sessions : ProjectOf[t] = project /\ SessionSource[t] = s
      BY <2>1, <2>3 DEF Candidates
    <3>2. \/ ReadGrant(a, "source", s) \in lending
          \/ /\ ReadGrant(a, "session", session) \in lending /\ SessionSource[session] = s
          \/ /\ ReadGrant(a, "project", project) \in lending
             /\ \E t \in Sessions : ProjectOf[t] = project /\ SessionSource[t] = s
      <4>1. ASSUME NEW type, NEW id, ReadGrant(a, type, id) \in held,
                   type # "source" \/ Owner[id] # p
            PROVE  ReadGrant(a, type, id) \in lending
        <5> DEFINE g == ReadGrant(a, type, id)
        <5>1. g \in held /\ g.actor = a /\ g.type = type /\ g.id = id
          BY <4>1, ReadGrantFields
        <5> HIDE DEF g, held
        <5>2. g \in asked
          BY <1>6, <4>1, <5>1
        <5> QED BY <5>1, <5>2 DEF g
      <4> HIDE DEF held, lending
      <4> QED BY <2>3, <3>1, <4>1
    <3>3. Shared(request, s)'
      <4>1. CASE ReadGrant(a, "source", s) \in lending
        BY <1>1, <1>3, <4>1, ReadGrantFields DEF Shared
      <4>2. CASE ReadGrant(a, "session", session) \in lending /\ SessionSource[session] = s
        BY <1>1, <1>3, <4>2, ReadGrantFields DEF Shared
      <4>3. CASE /\ ReadGrant(a, "project", project) \in lending
                 /\ \E t \in Sessions : ProjectOf[t] = project /\ SessionSource[t] = s
        BY <1>1, <1>3, <4>3, ReadGrantFields DEF Shared
      <4> QED BY <3>2, <4>1, <4>2, <4>3
    <3> QED BY <2>1, <3>3 DEF Lent, Current
  <2> QED BY <2>2, <2>3
<1>8. RequestFounded'
  <2>1. IsPacket(request)'
    BY DEF Authorize, IsPacket
  <2> HIDE DEF searched, held
  <2> QED BY <1>1, <1>3, <1>7, <2>1 DEF RequestFounded
<1> QED BY <1>3, <1>5, <1>8 DEF ScopeInv

\* A step of the reader that leaves the packet and its scope as they are.
SameScope ==
  /\ IsPacket(request') /\ request'.profile = request.profile
  /\ request'.session = request.session /\ request'.project = request.project
  /\ request'.searched = request.searched

LEMMA RecallMoves ==
  ASSUME IsPacket(request), Recall
  PROVE  /\ SameScope /\ request'.phase = "recalled" /\ request'.items \subseteq Recallable(request)
         /\ request'.looked = request.looked /\ request'.gone = withdrawn
<1>1. PICK items \in AnySmall(Recallable(request)) :
        request' = [request EXCEPT !.phase = "recalled", !.items = items, !.gone = withdrawn,
                                   !.status = RecallStatus(request, items)]
  BY DEF Recall
<1>2. PICK status : status = RecallStatus(request, items)
  OBVIOUS
<1>3. request' = [phase |-> "recalled", profile |-> request.profile, session |-> request.session,
                  project |-> request.project, searched |-> request.searched,
                  impaired |-> request.impaired, denied |-> request.denied,
                  items |-> items, status |-> status, looked |-> request.looked,
                  flagged |-> request.flagged, gone |-> withdrawn]
  BY <1>1, <1>2 DEF IsPacket
<1>4. items \subseteq Recallable(request)
  BY DEF AnySmall
<1> QED BY <1>3, <1>4 DEF SameScope, IsPacket

LEMMA AnnotateMoves ==
  ASSUME IsPacket(request), NEW x, Annotate(x)
  PROVE  /\ SameScope /\ request'.phase = "recalled" /\ request'.items = request.items
         /\ request'.looked = request.looked \cup {x} /\ request'.gone = request.gone
         /\ request.flagged \subseteq request'.flagged /\ (Annotated(x) => x \in request'.flagged)
<1>1. PICK flagged : flagged = request.flagged \cup {y \in {x} : Annotated(y)}
  OBVIOUS
<1>2. request' = [request EXCEPT !.looked = request.looked \cup {x}, !.flagged = flagged]
  BY <1>1 DEF Annotate
<1>3. request' = [phase |-> request.phase, profile |-> request.profile,
                  session |-> request.session, project |-> request.project,
                  searched |-> request.searched, impaired |-> request.impaired,
                  denied |-> request.denied, items |-> request.items, status |-> request.status,
                  looked |-> request.looked \cup {x}, flagged |-> flagged, gone |-> request.gone]
  BY <1>2 DEF IsPacket
<1> QED BY <1>1, <1>3 DEF SameScope, IsPacket, Annotate

LEMMA AssessMoves ==
  ASSUME IsPacket(request), Assess
  PROVE  /\ SameScope /\ request'.phase = "assessed" /\ request'.items \subseteq request.items
         /\ request'.gone = request.gone
         /\ request'.status = "ok" => request'.items \cap request.flagged = {}
<1>1. PICK packed \in SUBSET request.items : \E whole \in SUBSET packed :
        request' = [request EXCEPT !.phase = "assessed", !.items = packed,
                                   !.looked = {}, !.flagged = {},
                                   !.status = PacketStatus(request, packed, whole)]
  BY DEF Assess
<1>2. PICK whole \in SUBSET packed :
        request' = [request EXCEPT !.phase = "assessed", !.items = packed,
                                   !.looked = {}, !.flagged = {},
                                   !.status = PacketStatus(request, packed, whole)]
  BY <1>1
<1>3. PICK status : status = PacketStatus(request, packed, whole)
  OBVIOUS
<1>4. request' = [phase |-> "assessed", profile |-> request.profile, session |-> request.session,
                  project |-> request.project, searched |-> request.searched,
                  impaired |-> request.impaired, denied |-> request.denied,
                  items |-> packed, status |-> status, looked |-> {}, flagged |-> {},
                  gone |-> request.gone]
  BY <1>2, <1>3 DEF IsPacket
<1>5. status = "ok" => packed \cap request.flagged = {}
  BY <1>3 DEF PacketStatus
<1> QED BY <1>4, <1>5 DEF SameScope, IsPacket

LEMMA DeliverMoves ==
  ASSUME IsPacket(request), Deliver
  PROVE  /\ SameScope /\ request'.phase = "packed" /\ request'.items = request.items
         /\ request'.gone = request.gone /\ request'.status = request.status
<1>1. request' = [phase |-> "packed", profile |-> request.profile, session |-> request.session,
                  project |-> request.project, searched |-> request.searched,
                  impaired |-> request.impaired, denied |-> request.denied,
                  items |-> request.items, status |-> request.status, looked |-> request.looked,
                  flagged |-> request.flagged, gone |-> request.gone]
  BY DEF Deliver, IsPacket
<1> QED BY <1>1 DEF SameScope, IsPacket

LEMMA VersionIsNotRaw == ASSUME NEW e, NEW m, NEW v
  PROVE  /\ IsRaw(Raw(e)) /\ Raw(e).event = e
         /\ ~ IsRaw(Version(m, v)) /\ Version(m, v).memory = m /\ Version(m, v).version = v
BY DEF IsRaw, Raw, Version

\* What recall finds is founded.
LEMMA RecallableFounded ==
  ASSUME NEW x \in Recallable(request) PROVE Found(request, x)
<1>1. CASE \E e \in recorded : x = Raw(e) /\ SourceOf[e] \in request.searched
  BY <1>1 DEF Found
<1>2. ASSUME NEW m \in Memories, Eligible(m, request), x = Version(m, memory[m].version)
      PROVE  Found(request, x)
  <2> DEFINE v == memory[m].version
  <2>1. Author[m] = actor[request.profile] /\ Owner[SourceOf[Support[m][v]]] = request.profile
    BY <1>2 DEF Eligible
  <2> HIDE DEF v
  <2>2. x = Version(m, v)
    BY <1>2 DEF v
  <2>3. CitedSource(x) = SourceOf[Support[m][v]]
    BY <2>2, VersionIsNotRaw DEF CitedSource, CitedEvent
  <2> QED BY <2>1, <2>2, <2>3 DEF Found
<1> QED BY <1>1, <1>2 DEF Recallable

\* The reader's next step has what it needs from the one before.
LEMMA SameScopeStaysFounded ==
  ASSUME RequestFounded, Packing, SameScope, UNCHANGED <<actor, grants, asked>>,
         \A x \in request'.items : Found(request, x)
  PROVE  RequestFounded'
<1>1. /\ request'.profile \in Profiles /\ actor'[request'.profile] # NoActor
      /\ request'.searched \subseteq Readable /\ IsPacket(request)'
  BY DEF RequestFounded, SameScope, IsPacket
<1>2. \A s \in request'.searched : Lent(request, s)'
  <2>1. \A s \in request.searched : Lent(request, s)
    BY DEF RequestFounded
  <2> QED BY <2>1 DEF SameScope, Lent, HasGrant, ReadGrant, Shared
<1>3. \A x \in request'.items : Found(request, x)'
  BY DEF Found, SameScope
<1> QED BY <1>1, <1>2, <1>3 DEF RequestFounded

LEMMA ReadersKeepScope ==
  ASSUME AccessAssumption, ScopeInv, ReaderStep PROVE ScopeInv'
<1>1. CASE \E p \in Profiles, s \in Sessions \cup {NoSession}, r \in Projects \cup {NoProject} :
             Authorize(p, s, r)
  BY <1>1, AuthorizeKeepsScope
<1>2. ASSUME UNCHANGED <<actor, grants, asked>>, RequestFounded' PROVE ScopeInv'
  BY <1>2 DEF ScopeInv, ActorsApart, GrantsFounded
<1>3. CASE Recall
  <2>1. Packing /\ IsPacket(request) /\ UNCHANGED <<actor, grants, asked>>
    BY <1>3 DEF Recall, store, Packing, ScopeInv, RequestFounded
  <2> QED BY <1>2, <1>3, <2>1, RecallMoves, RecallableFounded, SameScopeStaysFounded DEF ScopeInv
<1>4. CASE (\E x \in Targets : Annotate(x)) \/ Assess \/ Deliver
  <2>1. Packing /\ IsPacket(request) /\ UNCHANGED <<actor, grants, asked>>
    BY <1>4 DEF Annotate, Assess, Deliver, store, Packing, ScopeInv, RequestFounded
  <2>2. SameScope /\ request'.items \subseteq request.items
    BY <1>4, <2>1, AnnotateMoves, AssessMoves, DeliverMoves
  <2>3. \A x \in request'.items : Found(request, x)
    BY <2>1, <2>2 DEF ScopeInv, RequestFounded
  <2> QED BY <1>2, <2>1, <2>2, <2>3, SameScopeStaysFounded DEF ScopeInv
<1>5. CASE (\E mode \in {"lexical", "semantic", "hybrid"} : RetrieveCoverage(mode)) \/ Retrieve
  <2>1. request'.phase \in {"covered", "answered"} /\ UNCHANGED <<actor, grants, asked>>
    BY <1>5 DEF RetrieveCoverage, Retrieve, store
  <2> QED BY <1>2, <2>1 DEF RequestFounded, Packing
<1> QED BY <1>1, <1>3, <1>4, <1>5 DEF ReaderStep

LEMMA ScopeNext ==
  ASSUME ScopeInv, [ProviderNext]_allVars PROVE ScopeInv'
<1>1. CASE UNCHANGED <<actor, grants, asked, request>>
  BY <1>1, AccessAssumption, BindingStep
<1>2. CASE Next
  BY <1>2, AccessAssumption, ReadersKeepScope, ChangesKeepScope DEF Next
<1>3. CASE SaveStep /\ UNCHANGED <<store, proposed>>
  BY <1>1, <1>3 DEF SaveStep, Change, store
<1>4. ASSUME NEW context \in Contexts, NEW platform \in Platforms, NEW p \in Profiles,
             NEW mode \in RecallModes, Prefetch(p, context, platform, mode)
      PROVE  ScopeInv'
  BY <1>4, AccessAssumption, AuthorizeKeepsScope DEF Prefetch
<1>5. ASSUME NEW turn \in Spoken, ProposeTurn(turn) PROVE ScopeInv'
  <2> DEFINE p == Owner[SourceOf[turn]]
  <2>1. p \in Profiles
    BY AccessAssumption DEF AccessAssumption
  <2>2. Binds(p, Resolved(p, NoActor)) /\ UNCHANGED <<request, grants, asked>>
    BY <1>5 DEF ProposeTurn, Change, Binds
  <2> HIDE DEF p
  <2> QED BY <2>1, <2>2, AccessAssumption, BindingStep
<1>6. ASSUME NEW p \in Profiles, NEW context, NEW platform, ToolCall(p, context, platform)
      PROVE  ScopeInv'
  BY <1>5, <1>6, AccessAssumption, AuthorizeKeepsScope, ImportKeepsScope, RegisterKeepsScope
     DEF ToolCall
<1> QED BY <1>1, <1>2, <1>3, <1>4, <1>5, <1>6
        DEF ProviderNext, SessionStep, SyncTurn, allVars, vars

THEOREM ScopeInvariant == ProviderSpec => []ScopeInv
<1>1. ProviderInit => ScopeInv
  BY AccessAssumption DEF AccessAssumption, ProviderInit, Init, NoRequest, ScopeInv, ActorsApart,
     GrantsFounded, RequestFounded, Packing
<1>2. ScopeInv /\ [ProviderNext]_allVars => ScopeInv'
  BY ScopeNext
<1> QED BY <1>1, <1>2, PTL DEF ProviderSpec

\* Whatever the owners of any number of profiles bind, grant, import and say, and
\* however their requests interleave, a packet stays within its profile and what
\* was lent to it.
THEOREM NoCrossReading == ProviderSpec => []ProfilesStayApart
<1>1. ScopeInv => ProfilesStayApart
  <2> SUFFICES ASSUME ScopeInv, request.phase = "packed", NEW x \in request.items
               PROVE  LET s == CitedSource(x)
                          a == actor[request.profile]
                      IN \/ /\ Owner[s] = request.profile
                            /\ IF IsRaw(x) THEN health[s] = "healthy" => Visibility(a, s) = "allowed"
                               ELSE Author[x.memory] = a
                         \/ IsRaw(x) /\ Shared(request, s)
    BY DEF ProfilesStayApart
  <2>1. /\ Found(request, x) /\ request.searched \subseteq Readable
        /\ \A s \in request.searched : Lent(request, s)
    BY DEF ScopeInv, RequestFounded, Packing
  <2>2. ASSUME NEW e, x = Raw(e), SourceOf[e] \in request.searched
        PROVE  \/ /\ Owner[CitedSource(x)] = request.profile /\ IsRaw(x)
                  /\ health[CitedSource(x)] = "healthy" =>
                       Visibility(actor[request.profile], CitedSource(x)) = "allowed"
               \/ IsRaw(x) /\ Shared(request, CitedSource(x))
    <3>1. IsRaw(x) /\ CitedSource(x) = SourceOf[e]
      BY <2>2, VersionIsNotRaw DEF CitedSource, CitedEvent
    <3> QED BY <2>1, <2>2, <3>1 DEF Lent, Visibility
  <2>3. ASSUME NEW m \in Memories, NEW v, x = Version(m, v), Author[m] = actor[request.profile],
               Owner[CitedSource(x)] = request.profile
        PROVE  ~ IsRaw(x) /\ Author[x.memory] = actor[request.profile]
    BY <2>3, VersionIsNotRaw
  <2> QED BY <2>1, <2>2, <2>3 DEF Found
<1> QED BY <1>1, ScopeInvariant, PTL

\* What the steps of a request have seen: the memories that were recalled rested
\* on events that were there, the events that were looked up without a flag are
\* there and sound, and an assessment that is ok found no flag.
LooksFounded ==
  Packing =>
    /\ request.gone \subseteq withdrawn
    /\ request.phase = "authorized" => request.looked = {}
    /\ request.phase = "recalled" =>
         /\ \A x \in request.items : ~ IsRaw(x) => CitedEvent(x) \notin request.gone
         /\ \A x \in request.looked \ request.flagged :
              IsRaw(x) => CitedEvent(x) \notin request.gone /\ x.event \notin Doubtful
    /\ request.phase \in {"assessed", "packed"} /\ request.status = "ok" =>
         \A x \in request.items :
           /\ CitedEvent(x) \notin request.gone
           /\ IsRaw(x) => x.event \notin Doubtful

\* What recall finds of memories rests on events that are not withdrawn.
LEMMA RecalledMemoriesRest ==
  ASSUME NEW x \in Recallable(request), ~ IsRaw(x) PROVE CitedEvent(x) \notin withdrawn
<1>1. PICK m \in Memories : Eligible(m, request) /\ x = Version(m, memory[m].version)
  BY VersionIsNotRaw DEF Recallable
<1>2. CitedEvent(x) = Support[m][memory[m].version]
  BY <1>1, VersionIsNotRaw DEF CitedEvent
<1> QED BY <1>1, <1>2 DEF Eligible

LEMMA ReadersKeepLooks ==
  ASSUME ScopeInv, LooksFounded, ReaderStep PROVE LooksFounded'
<1>1. ASSUME NEW p, NEW session, NEW project, Authorize(p, session, project) PROVE LooksFounded'
  <2>1. request'.phase = "authorized" /\ request'.gone = {} /\ request'.looked = {}
    BY <1>1 DEF Authorize
  <2> QED BY <2>1 DEF LooksFounded
<1>2. CASE Recall
  <2>1. IsPacket(request) /\ Packing /\ request.phase = "authorized" /\ UNCHANGED withdrawn
    BY <1>2 DEF Recall, store, Packing, ScopeInv, RequestFounded
  <2>2. /\ request'.phase = "recalled" /\ request'.items \subseteq Recallable(request)
        /\ request'.looked = {} /\ request'.gone = withdrawn
    BY <1>2, <2>1, RecallMoves DEF LooksFounded
  <2>3. \A x \in request'.items : ~ IsRaw(x) => CitedEvent(x) \notin request'.gone
    BY <2>2, RecalledMemoriesRest
  <2> QED BY <2>1, <2>2, <2>3 DEF LooksFounded
<1>3. ASSUME NEW x, Annotate(x) PROVE LooksFounded'
  <2>1. /\ IsPacket(request) /\ Packing /\ request.phase = "recalled" /\ IsRaw(x)
        /\ UNCHANGED withdrawn
    BY <1>3 DEF Annotate, store, Packing, ScopeInv, RequestFounded
  <2>2. /\ request'.phase = "recalled" /\ request'.items = request.items
        /\ request'.looked = request.looked \cup {x} /\ request'.gone = request.gone
        /\ request.flagged \subseteq request'.flagged /\ (Annotated(x) => x \in request'.flagged)
    BY <1>3, <2>1, AnnotateMoves
  <2>3. ~ Annotated(x) => CitedEvent(x) \notin request.gone /\ x.event \notin Doubtful
    BY <2>1 DEF Annotated, CitedEvent, LooksFounded
  <2>4. \A y \in request'.looked \ request'.flagged :
          IsRaw(y) => CitedEvent(y) \notin request'.gone /\ y.event \notin Doubtful
    BY <2>1, <2>2, <2>3 DEF LooksFounded
  <2>5. /\ request'.gone \subseteq withdrawn'
        /\ \A y \in request'.items : ~ IsRaw(y) => CitedEvent(y) \notin request'.gone
    BY <2>1, <2>2 DEF LooksFounded
  <2> QED BY <2>2, <2>4, <2>5 DEF LooksFounded
<1>4. CASE Assess
  <2>1. /\ IsPacket(request) /\ Packing /\ request.phase = "recalled" /\ UNCHANGED withdrawn
        /\ \A x \in request.items : IsRaw(x) => x \in request.looked
    BY <1>4 DEF Assess, store, Packing, ScopeInv, RequestFounded
  <2>2. /\ request'.phase = "assessed" /\ request'.items \subseteq request.items
        /\ request'.gone = request.gone
        /\ request'.status = "ok" => request'.items \cap request.flagged = {}
    BY <1>4, <2>1, AssessMoves
  <2>3. ASSUME request'.status = "ok", NEW x \in request'.items
        PROVE  CitedEvent(x) \notin request'.gone /\ (IsRaw(x) => x.event \notin Doubtful)
    BY <2>1, <2>2, <2>3 DEF LooksFounded
  <2>4. request'.gone \subseteq withdrawn'
    BY <2>1, <2>2 DEF LooksFounded
  <2> QED BY <2>2, <2>3, <2>4 DEF LooksFounded
<1>5. CASE Deliver
  <2>1. IsPacket(request) /\ Packing /\ request.phase = "assessed" /\ UNCHANGED withdrawn
    BY <1>5 DEF Deliver, store, Packing, ScopeInv, RequestFounded
  <2>2. /\ request'.phase = "packed" /\ request'.items = request.items
        /\ request'.gone = request.gone /\ request'.status = request.status
    BY <1>5, <2>1, DeliverMoves
  <2> QED BY <2>1, <2>2 DEF LooksFounded
<1>6. CASE (\E mode \in {"lexical", "semantic", "hybrid"} : RetrieveCoverage(mode)) \/ Retrieve
  <2>1. request'.phase \in {"covered", "answered"}
    BY <1>6 DEF RetrieveCoverage, Retrieve
  <2> QED BY <2>1 DEF LooksFounded, Packing
<1> QED BY <1>1, <1>2, <1>3, <1>4, <1>5, <1>6 DEF ReaderStep

LEMMA LooksNext ==
  ASSUME ScopeInv, LooksFounded, [ProviderNext]_allVars PROVE LooksFounded'
<1>1. CASE UNCHANGED request /\ withdrawn \subseteq withdrawn'
  BY <1>1 DEF LooksFounded, Packing
<1>2. CASE ReaderStep
  BY <1>2, ReadersKeepLooks
<1>3. ASSUME NEW p \in Profiles, Authorize(p, NoSession, NoProject) PROVE LooksFounded'
  BY <1>2, <1>3 DEF ReaderStep
<1>4. ChangeStep \/ (SaveStep /\ UNCHANGED <<store, proposed>>) =>
        UNCHANGED request /\ withdrawn \subseteq withdrawn'
  BY DEF ChangeStep, BindProfile, GrantScope, Import, RebuildIndex, Register, Withdraw,
         Curate, Change, SaveStep, store
<1>5. SessionStep => \/ UNCHANGED request /\ withdrawn \subseteq withdrawn'
                     \/ \E p \in Profiles : Authorize(p, NoSession, NoProject)
  BY DEF SessionStep, Prefetch, SyncTurn, ToolCall, ProposeTurn, Import, Register, Change
<1> QED BY <1>1, <1>2, <1>3, <1>4, <1>5 DEF ProviderNext, Next, allVars, vars

\* However the store changes while a packet is made, a packet that says ok cites
\* nothing that was withdrawn before it was recalled, and no doubtful event.
THEOREM OkMeansCurrent == ProviderSpec => []OkPacketIsCurrent
<1>1. ProviderInit => LooksFounded
  BY DEF ProviderInit, Init, NoRequest, LooksFounded, Packing
<1>2. ScopeInv /\ LooksFounded /\ [ProviderNext]_allVars => LooksFounded'
  BY LooksNext
<1>3. LooksFounded => OkPacketIsCurrent
  BY DEF LooksFounded, Packing, OkPacketIsCurrent
<1> QED BY <1>1, <1>2, <1>3, ScopeInvariant, PTL DEF ProviderSpec

----------------------------------------------------------------------------
(* The index *)

\* A chunk of the index is of an event that is recorded or of a memory that
\* exists.
IndexFounded ==
  /\ memory \in [Memories -> [status : MemoryStatuses, version : Nat]]
  /\ \A x \in index :
       \/ \E e \in recorded : x = Raw(e)
       \/ \E m \in Memories : \E v : x = Version(m, v) /\ memory[m].status # "absent"

\* Events stay, and so does a memory that was written.
LEMMA IndexStaysFounded ==
  ASSUME IndexFounded, index' = index \/ (index' = Indexable /\ UNCHANGED <<recorded, memory>>),
         recorded \subseteq recorded',
         memory' \in [Memories -> [status : MemoryStatuses, version : Nat]],
         \A m \in Memories : memory[m].status # "absent" => memory'[m].status # "absent"
  PROVE  IndexFounded'
<1> SUFFICES ASSUME NEW x \in index'
             PROVE  \/ \E e \in recorded' : x = Raw(e)
                    \/ \E m \in Memories : \E v : x = Version(m, v) /\ memory'[m].status # "absent"
  BY DEF IndexFounded
<1>1. CASE x \in index
  BY <1>1 DEF IndexFounded
<1>2. CASE x \in Indexable /\ UNCHANGED <<recorded, memory>>
  BY <1>2 DEF Indexable
<1> QED BY <1>1, <1>2

LEMMA IndexNext ==
  ASSUME IndexFounded, [ProviderNext]_allVars PROVE IndexFounded'
<1>1. CASE UNCHANGED <<memory, index>> /\ recorded \subseteq recorded'
  BY <1>1, IndexStaysFounded DEF IndexFounded
<1>2. CASE RebuildIndex
  BY <1>2, IndexStaysFounded DEF RebuildIndex, IndexFounded
<1>3. ASSUME NEW m \in Memories, NEW st \in MemoryStatuses, NEW v \in DOMAIN Support[m],
             Curate(m, st, v)
      PROVE  IndexFounded'
  <2> DEFINE new == [status |-> st, version |-> v]
  <2>1. v \in Nat
    BY AccessAssumption DEF AccessAssumption
  <2>2. new \in [status : MemoryStatuses, version : Nat] /\ new.status = st
    BY <2>1
  <2>3. memory' = [memory EXCEPT ![m] = new] /\ UNCHANGED <<index, recorded>>
    BY <1>3 DEF Curate
  <2>4. st # "absent"
    BY <1>3 DEF Curate
  <2> HIDE DEF new
  <2>5. /\ memory' \in [Memories -> [status : MemoryStatuses, version : Nat]]
        /\ \A n \in Memories : memory[n].status # "absent" => memory'[n].status # "absent"
    BY <2>2, <2>3, <2>4 DEF IndexFounded
  <2> QED BY <2>3, <2>5, IndexStaysFounded
<1>4. ReaderStep \/ (SaveStep /\ UNCHANGED <<store, proposed>>) \/ SessionStep \/ UNCHANGED allVars
        => UNCHANGED <<memory, index>> /\ recorded \subseteq recorded'
  BY DEF ReaderStep, Authorize, Recall, Annotate, Assess, Deliver, RetrieveCoverage, Retrieve,
         store, SessionStep, Prefetch, SyncTurn, ToolCall, ProposeTurn, Import, Register,
         allVars, vars
<1>5. ChangeStep => \/ UNCHANGED <<memory, index>> /\ recorded \subseteq recorded'
                    \/ RebuildIndex
                    \/ \E m \in Memories, st \in MemoryStatuses : \E v \in DOMAIN Support[m] :
                         Curate(m, st, v)
  BY DEF ChangeStep, BindProfile, GrantScope, Import, Register, Withdraw
<1> QED BY <1>1, <1>2, <1>3, <1>4, <1>5 DEF ProviderNext, Next

THEOREM IndexInvariant == ProviderSpec => []IndexFounded
<1>1. ProviderInit => IndexFounded
  <2> DEFINE started == {[status |-> "absent", version |-> 0], [status |-> "active", version |-> 1]}
  <2>1. started \subseteq [status : MemoryStatuses, version : Nat]
    BY DEF MemoryStatuses
  <2>2. ProviderInit => memory \in [Memories -> started] /\ index = {}
    BY DEF ProviderInit, Init
  <2> HIDE DEF started
  <2> QED BY <2>1, <2>2 DEF IndexFounded
<1>2. IndexFounded /\ [ProviderNext]_allVars => IndexFounded'
  BY IndexNext
<1> QED BY <1>1, <1>2, PTL DEF ProviderSpec

\* A stale index serves nothing that a fresh one would leave out.
THEOREM StaleIndexIsSafe == ProviderSpec => []IndexServesWhatRebuildWould
<1>1. IndexFounded => IndexServesWhatRebuildWould
  <2> SUFFICES ASSUME IndexFounded, NEW x \in Semantic PROVE x \in Indexable
    BY DEF IndexServesWhatRebuildWould
  <2>1. ASSUME NEW e \in recorded, x = Raw(e) PROVE x \in Indexable
    BY <2>1, VersionIsNotRaw DEF Semantic, Indexable
  <2>2. ASSUME NEW m \in Memories, NEW v, x = Version(m, v), memory[m].status # "absent"
        PROVE  x \in Indexable
    <3>1. /\ memory[m].version = v
          /\ memory[m].status \notin {"stale", "contradicted", "quarantined", "tombstoned"}
      BY <2>2, VersionIsNotRaw DEF Semantic
    <3>2. memory[m].status = "active"
      BY <2>2, <3>1 DEF IndexFounded, MemoryStatuses
    <3> QED BY <2>2, <3>1, <3>2 DEF Indexable
  <2>3. x \in index
    BY DEF Semantic
  <2> QED BY <2>1, <2>2, <2>3 DEF IndexFounded
<1> QED BY <1>1, IndexInvariant, PTL

----------------------------------------------------------------------------
(* Types *)

\* What a writer is about to write has the keys of a configuration.
KeysKnown ==
  /\ DOMAIN config \subseteq Keys /\ DOMAIN settings \subseteq Keys
  /\ lock \in Savers \cup {NoSaver}
  /\ \A c \in Savers :
       /\ saver[c].phase \in {"idle", "read", "locked", "replaced"}
       /\ saver[c].phase # "idle" =>
            DOMAIN saver[c].next \subseteq Keys /\ DOMAIN saver[c].values \subseteq Keys

LEMMA MergeKeys ==
  ASSUME NEW old, NEW new, DOMAIN old \subseteq Keys, DOMAIN new \subseteq Keys
  PROVE  DOMAIN Merge(old, new) \subseteq Keys
BY DEF Merge

LEMMA ConfigStepKeepsKeys ==
  ASSUME ConfigInv, KeysKnown, KeysAssumption, ConfigStep PROVE KeysKnown'
<1>1. ASSUME NEW c \in Savers, NEW values \in Saves \cup Postures,
             NEW ph \in {"read", "locked"}, NEW kind, At(c, ph, kind, values),
             lock' \in {lock, c}, UNCHANGED <<config, settings>>
      PROVE  KeysKnown'
  <2>1. /\ saver' = [d \in Savers |-> IF d = c THEN saver'[c] ELSE saver[d]]
        /\ saver'[c].phase = ph /\ saver'[c].values = values
        /\ saver'[c].next = Merge(config, values)
    BY <1>1, NewWriter
  <2>2. DOMAIN values \subseteq Keys /\ DOMAIN Merge(config, values) \subseteq Keys
    BY MergeKeys DEF KeysKnown, KeysAssumption
  <2>3. \A d \in Savers \ {c} : saver'[d] = saver[d]
    BY <2>1
  <2> QED BY <1>1, <2>1, <2>2, <2>3 DEF KeysKnown
<1>2. ASSUME NEW c \in Savers, NEW ph \in {"locked", "replaced"}, saver[c].phase # "idle",
             saver' = [saver EXCEPT ![c].phase = ph], lock' \in {lock, c},
             DOMAIN config' \subseteq Keys, DOMAIN settings' \subseteq Keys
      PROVE  KeysKnown'
  <2>1. /\ saver' = [d \in Savers |-> IF d = c THEN saver'[c] ELSE saver[d]]
        /\ saver'[c].phase = ph /\ saver'[c].values = saver[c].values
        /\ saver'[c].next = saver[c].next
    BY <1>2, WriterMoves
  <2>2. \A d \in Savers \ {c} : saver'[d] = saver[d]
    BY <2>1
  <2> QED BY <1>2, <2>1, <2>2 DEF KeysKnown
<1>3. ASSUME NEW c \in Savers, NEW values \in Saves, SaveLocks(c, values) PROVE KeysKnown'
  BY <1>1, <1>3 DEF SaveLocks
<1>4. ASSUME NEW c \in Savers, NEW values \in Postures, SwitchReads(c, values) PROVE KeysKnown'
  BY <1>1, <1>4 DEF SwitchReads
<1>5. ASSUME NEW c \in Savers, SwitchLocks(c) PROVE KeysKnown'
  BY <1>2, <1>5 DEF SwitchLocks, KeysKnown
<1>6. ASSUME NEW c \in Savers, ReplaceConfig(c) PROVE KeysKnown'
  <2>1. DOMAIN config' \subseteq Keys /\ DOMAIN settings' \subseteq Keys
    BY <1>6, MergeKeys DEF ReplaceConfig, KeysKnown
  <2> QED BY <1>2, <1>6, <2>1 DEF ReplaceConfig
<1>7. ASSUME NEW c \in Savers, Release(c) PROVE KeysKnown'
  BY <1>7, IdleHoldsNothing DEF Release, KeysKnown, ConfigInv
<1> QED BY <1>3, <1>4, <1>5, <1>6, <1>7 DEF ConfigStep

\* The columns of the store.
StoreTyped ==
  /\ health \in [Sources -> Healths \cup {"absent"}]
  /\ recorded \subseteq Events /\ withdrawn \subseteq recorded
  /\ \A e \in recorded : health[SourceOf[e]] # "absent"
  /\ memory \in [Memories -> [status : MemoryStatuses, version : Nat]]
  /\ \A m \in Memories : memory[m].status # "absent" => memory[m].version \in DOMAIN Support[m]
  /\ index \subseteq Targets
  /\ changes \in 0..MaxChanges
  /\ proposed \subseteq Spoken \cap recorded

\* What a request has found is a small set of what may be cited.
RequestTyped ==
  request # NoRequest =>
    /\ request.phase \in {"authorized", "recalled", "assessed", "packed", "covered", "answered"}
    /\ request.searched \subseteq Sources
    /\ request.items \subseteq Targets /\ IsFiniteSet(request.items)
    /\ Cardinality(request.items) <= Limit

LEMMA CitedAreTargets ==
  ASSUME StoreTyped
  PROVE  /\ \A e \in Events : Raw(e) \in Targets
         /\ \A m \in Memories : memory[m].status # "absent" => Version(m, memory[m].version) \in Targets
BY DEF StoreTyped, Targets

LEMMA IndexableAreTargets == ASSUME StoreTyped PROVE Indexable \subseteq Targets
BY CitedAreTargets DEF Indexable, StoreTyped

\* Sources come and change, and events are recorded with their source.
LEMMA HealthStep ==
  ASSUME AccessAssumption, StoreTyped, UNCHANGED <<memory, index>>,
         changes' \in 0..MaxChanges, health' \in [Sources -> Healths \cup {"absent"}],
         recorded \subseteq recorded', recorded' \subseteq Events, withdrawn \subseteq withdrawn',
         withdrawn' \subseteq recorded', proposed' \subseteq Spoken \cap recorded',
         \A s \in Sources : health[s] # "absent" => health'[s] # "absent",
         \A e \in recorded' \ recorded : health'[SourceOf[e]] # "absent"
  PROVE  StoreTyped'
<1>1. \A e \in recorded' : health'[SourceOf[e]] # "absent"
  BY DEF StoreTyped, AccessAssumption
<1> QED BY <1>1 DEF StoreTyped

LEMMA SameStoreStep ==
  ASSUME StoreTyped, UNCHANGED <<health, recorded, withdrawn, memory, index, proposed>>,
         changes' \in 0..MaxChanges
  PROVE  StoreTyped'
BY DEF StoreTyped

LEMMA ChangeCounts ==
  ASSUME AccessAssumption, StoreTyped, Change PROVE changes' \in 0..MaxChanges
BY DEF AccessAssumption, StoreTyped, Change

LEMMA ImportKeepsTypes ==
  ASSUME AccessAssumption, StoreTyped, NEW s \in Sources, Import(s), UNCHANGED proposed
  PROVE  StoreTyped'
<1>1. /\ health' = [health EXCEPT ![s] = "healthy"] /\ UNCHANGED <<withdrawn, memory, index>>
      /\ recorded' = recorded \/ recorded' = recorded \cup ImportedFrom(s)
      /\ changes' \in 0..MaxChanges
  BY ChangeCounts DEF Import
<1>2. ImportedFrom(s) \subseteq Events /\ \A e \in ImportedFrom(s) : SourceOf[e] = s
  BY DEF ImportedFrom, AccessAssumption
<1>3. health' \in [Sources -> Healths \cup {"absent"}]
  BY <1>1 DEF StoreTyped, AccessAssumption
<1> QED BY <1>1, <1>2, <1>3, HealthStep DEF StoreTyped

LEMMA RegisterKeepsTypes ==
  ASSUME AccessAssumption, StoreTyped, NEW p \in Profiles, NEW found \in [FilesOf(p) -> Healths],
         Register(p, found), UNCHANGED proposed
  PROVE  StoreTyped'
<1>1. /\ health' = [s \in Sources |-> IF s \in FilesOf(p) THEN found[s] ELSE health[s]]
      /\ UNCHANGED <<recorded, withdrawn, memory, index>> /\ changes' \in 0..MaxChanges
  BY ChangeCounts DEF Register
<1>2. health' \in [Sources -> Healths \cup {"absent"}]
  BY <1>1 DEF StoreTyped
<1>3. \A s \in Sources : health[s] # "absent" => health'[s] # "absent"
  BY <1>1 DEF AccessAssumption
<1> QED BY <1>1, <1>2, <1>3, HealthStep DEF StoreTyped

LEMMA ProposeKeepsTypes ==
  ASSUME AccessAssumption, StoreTyped, NEW turn \in Spoken, ProposeTurn(turn)
  PROVE  StoreTyped'
<1>1. /\ health' = [health EXCEPT ![SourceOf[turn]] = "healthy"]
      /\ recorded' = recorded \cup {turn} /\ proposed' = proposed \cup {turn}
      /\ UNCHANGED <<withdrawn, memory, index>> /\ changes' \in 0..MaxChanges
  BY ChangeCounts DEF ProposeTurn
<1>2. turn \in Events /\ SourceOf[turn] \in Sources
  BY DEF AccessAssumption
<1>3. health' \in [Sources -> Healths \cup {"absent"}]
  BY <1>1, <1>2 DEF StoreTyped, AccessAssumption
<1> QED BY <1>1, <1>2, <1>3, HealthStep DEF StoreTyped

LEMMA ChangesKeepTypes ==
  ASSUME AccessAssumption, StoreTyped, ChangeStep, UNCHANGED proposed PROVE StoreTyped'
<1>1. ASSUME NEW p \in DOMAIN BindingOf, NEW a \in Guests, NEW h \in {"healthy", "degraded"},
             BindProfile(p, a, h)
      PROVE  StoreTyped'
  <2>1. /\ health' = [health EXCEPT ![BindingOf[p]] = h] /\ changes' \in 0..MaxChanges
        /\ UNCHANGED <<recorded, withdrawn, memory, index>>
    BY <1>1, ChangeCounts DEF BindProfile
  <2>2. health' \in [Sources -> Healths \cup {"absent"}]
    BY <2>1 DEF StoreTyped, AccessAssumption
  <2> QED BY <2>1, <2>2, HealthStep DEF StoreTyped
<1>2. ASSUME NEW g \in Grants, GrantScope(g) PROVE StoreTyped'
  BY <1>2, ChangeCounts, SameStoreStep DEF GrantScope
<1>3. ASSUME NEW s \in Sources, Import(s) PROVE StoreTyped'
  BY <1>3, ImportKeepsTypes
<1>4. CASE RebuildIndex
  BY <1>4, ChangeCounts, IndexableAreTargets DEF RebuildIndex, StoreTyped
<1>5. ASSUME NEW p \in Profiles, NEW found \in [FilesOf(p) -> Healths], Register(p, found)
      PROVE  StoreTyped'
  BY <1>5, RegisterKeepsTypes
<1>6. ASSUME NEW e \in Events, Withdraw(e) PROVE StoreTyped'
  BY <1>6, ChangeCounts, HealthStep DEF Withdraw, StoreTyped
<1>7. ASSUME NEW m \in Memories, NEW st \in MemoryStatuses, NEW v \in DOMAIN Support[m],
             Curate(m, st, v)
      PROVE  StoreTyped'
  <2> DEFINE new == [status |-> st, version |-> v]
  <2>1. v \in Nat
    BY DEF AccessAssumption
  <2>2. new \in [status : MemoryStatuses, version : Nat] /\ new.version = v
    BY <2>1
  <2>3. /\ memory' = [memory EXCEPT ![m] = new] /\ changes' \in 0..MaxChanges
        /\ UNCHANGED <<health, recorded, withdrawn, index>>
    BY <1>7, ChangeCounts DEF Curate
  <2> HIDE DEF new
  <2>4. /\ memory' \in [Memories -> [status : MemoryStatuses, version : Nat]]
        /\ \A n \in Memories : memory'[n].status # "absent" => memory'[n].version \in DOMAIN Support[n]
    BY <2>2, <2>3 DEF StoreTyped
  <2> QED BY <2>3, <2>4 DEF StoreTyped
<1> QED BY <1>1, <1>2, <1>3, <1>4, <1>5, <1>6, <1>7 DEF ChangeStep

LEMMA StoreNext ==
  ASSUME StoreTyped, [ProviderNext]_allVars PROVE StoreTyped'
<1>1. CASE UNCHANGED <<health, recorded, withdrawn, memory, index, changes, proposed>>
  BY <1>1 DEF StoreTyped
<1>2. ReaderStep => UNCHANGED <<health, recorded, withdrawn, memory, index, changes>>
  BY DEF ReaderStep, Authorize, Recall, Annotate, Assess, Deliver, RetrieveCoverage, Retrieve,
         store
<1>3. CASE Next /\ UNCHANGED <<configVars, proposed>>
  BY <1>1, <1>2, <1>3, AccessAssumption, ChangesKeepTypes DEF Next
<1>4. CASE SaveStep /\ UNCHANGED <<store, proposed>>
  <2>1. changes' \in 0..MaxChanges
    BY <1>4, AccessAssumption, ChangeCounts DEF SaveStep, StoreTyped
  <2> QED BY <1>4, <2>1, SameStoreStep DEF store
<1>5. ASSUME NEW p, NEW context, NEW platform, NEW mode, Prefetch(p, context, platform, mode),
             UNCHANGED <<configVars, proposed>>
      PROVE  StoreTyped'
  BY <1>1, <1>5 DEF Prefetch, Authorize
<1>6. ASSUME NEW p \in Profiles, NEW context, NEW platform, ToolCall(p, context, platform)
      PROVE  StoreTyped'
  <2>1. CASE \E turn \in {t \in Spoken : Owner[SourceOf[t]] = p} : ProposeTurn(turn)
    BY <2>1, AccessAssumption, ProposeKeepsTypes
  <2>2. CASE Authorize(p, NoSession, NoProject) /\ UNCHANGED <<configVars, proposed>>
    BY <1>1, <2>2 DEF Authorize
  <2>3. CASE /\ \E s \in {t \in Sources : Owner[t] = p} : Import(s)
             /\ UNCHANGED <<configVars, proposed>>
    BY <2>3, AccessAssumption, ImportKeepsTypes
  <2>4. CASE /\ \E found \in [FilesOf(p) -> Healths] : Register(p, found)
             /\ UNCHANGED <<configVars, proposed>>
    BY <2>4, AccessAssumption, RegisterKeepsTypes
  <2> QED BY <1>6, <2>1, <2>2, <2>3, <2>4 DEF ToolCall
<1>7. ASSUME NEW context, NEW platform, NEW policy, NEW turn \in Spoken,
             SyncTurn(context, platform, policy, turn)
      PROVE  StoreTyped'
  BY <1>7, AccessAssumption, ProposeKeepsTypes DEF SyncTurn
<1> QED BY <1>1, <1>3, <1>4, <1>5, <1>6, <1>7 DEF ProviderNext, SessionStep, allVars, vars

\* What is recalled or retrieved may be cited.
LEMMA RecallableAreTargets ==
  ASSUME AccessAssumption, StoreTyped PROVE Recallable(request) \subseteq Targets
BY CitedAreTargets DEF Recallable, Eligible, StoreTyped

LEMMA RetrievableAreTargets ==
  ASSUME StoreTyped PROVE Lexical \cup Semantic \subseteq Targets
BY CitedAreTargets DEF Lexical, Semantic, StoreTyped

LEMMA NothingFound == IsFiniteSet({}) /\ Cardinality({}) = 0
BY FS_EmptySet

LEMMA ReadersKeepRequestTyped ==
  ASSUME AccessAssumption, ScopeInv, StoreTyped, RequestTyped, ReaderStep
  PROVE  RequestTyped'
<1>1. ASSUME NEW p, NEW session, NEW project, Authorize(p, session, project) PROVE RequestTyped'
  <2>1. /\ request'.phase = "authorized" /\ request'.searched \subseteq Present
        /\ request'.items = {}
    BY <1>1 DEF Authorize, Candidates
  <2> QED BY <2>1, NothingFound DEF RequestTyped, Present, AccessAssumption
<1>2. CASE Recall
  <2>1. request # NoRequest /\ IsPacket(request)
    BY <1>2 DEF Recall, NoRequest, ScopeInv, RequestFounded, Packing
  <2>2. PICK items \in AnySmall(Recallable(request)) : request'.items = items
    BY <1>2, <2>1 DEF Recall, IsPacket
  <2>3. items \subseteq Targets /\ IsFiniteSet(items) /\ Cardinality(items) <= Limit
    BY RecallableAreTargets DEF AnySmall
  <2>4. request'.phase = "recalled" /\ request'.searched = request.searched
    BY <1>2, <2>1, RecallMoves DEF SameScope
  <2> QED BY <2>1, <2>2, <2>3, <2>4 DEF RequestTyped
<1>3. CASE (\E x \in Targets : Annotate(x)) \/ Assess \/ Deliver
  <2>1. request # NoRequest /\ IsPacket(request)
    <3>1. request.phase \in {"recalled", "assessed"}
      BY <1>3 DEF Annotate, Assess, Deliver
    <3> QED BY <3>1 DEF NoRequest, ScopeInv, RequestFounded, Packing
  <2>2. /\ request'.phase \in {"recalled", "assessed", "packed"}
        /\ request'.searched = request.searched /\ request'.items \subseteq request.items
    BY <1>3, <2>1, AnnotateMoves, AssessMoves, DeliverMoves DEF SameScope
  <2>3. /\ IsFiniteSet(request'.items)
        /\ Cardinality(request'.items) <= Cardinality(request.items)
    BY <2>1, <2>2, FS_Subset DEF RequestTyped
  <2>4. Cardinality(request'.items) \in Nat /\ Cardinality(request.items) \in Nat
    BY <2>1, <2>3, FS_CardinalityType DEF RequestTyped
  <2>5. Cardinality(request'.items) <= Limit
    BY <2>1, <2>3, <2>4 DEF RequestTyped, AccessAssumption
  <2> QED BY <2>1, <2>2, <2>3, <2>5 DEF RequestTyped
<1>4. ASSUME NEW mode, RetrieveCoverage(mode) PROVE RequestTyped'
  <2>1. /\ request'.phase = "covered" /\ request'.searched \subseteq Present
        /\ request'.items = {}
    BY <1>4 DEF RetrieveCoverage
  <2> QED BY <2>1, NothingFound DEF RequestTyped, Present, AccessAssumption
<1>5. CASE Retrieve
  <2>1. request # NoRequest
    BY <1>5 DEF Retrieve, NoRequest
  <2>2. PICK items \in AnySmall((IF request.mode = "semantic" THEN {} ELSE Lexical) \cup
                                (IF request.mode = "lexical" THEN {} ELSE Semantic)) :
          request'.phase = "answered" /\ request'.searched = request.searched
          /\ request'.items = items
    BY <1>5 DEF Retrieve
  <2>3. items \subseteq Targets /\ IsFiniteSet(items) /\ Cardinality(items) <= Limit
    BY RetrievableAreTargets DEF AnySmall
  <2> QED BY <2>1, <2>2, <2>3 DEF RequestTyped
<1> QED BY <1>1, <1>2, <1>3, <1>4, <1>5 DEF ReaderStep

LEMMA RequestNext ==
  ASSUME ScopeInv, StoreTyped, RequestTyped, [ProviderNext]_allVars PROVE RequestTyped'
<1>1. CASE UNCHANGED request
  BY <1>1 DEF RequestTyped
<1>2. CASE ReaderStep
  BY <1>2, AccessAssumption, ReadersKeepRequestTyped
<1>3. ASSUME NEW p \in Profiles, Authorize(p, NoSession, NoProject) PROVE RequestTyped'
  BY <1>2, <1>3 DEF ReaderStep
<1>4. ChangeStep \/ SaveStep => UNCHANGED request
  BY DEF ChangeStep, BindProfile, GrantScope, Import, RebuildIndex, Register, Withdraw,
         Curate, Change, SaveStep
<1>5. SessionStep => UNCHANGED request \/ \E p \in Profiles : Authorize(p, NoSession, NoProject)
  BY DEF SessionStep, Prefetch, SyncTurn, ToolCall, ProposeTurn, Import, Register, Change
<1> QED BY <1>1, <1>2, <1>3, <1>4, <1>5 DEF ProviderNext, Next, allVars, vars

LEMMA ProviderInitTyped == ProviderInit => KeysKnown /\ StoreTyped /\ RequestTyped
<1> SUFFICES ASSUME ProviderInit PROVE KeysKnown /\ StoreTyped /\ RequestTyped
  OBVIOUS
<1>1. KeysKnown
  BY IdleHoldsNothing DEF ProviderInit, ConfigInit, NoKeys, KeysKnown
<1>2. RequestTyped
  BY DEF ProviderInit, Init, RequestTyped
<1>3. ASSUME NEW m \in Memories
      PROVE  /\ memory[m] \in [status : MemoryStatuses, version : Nat]
             /\ memory[m].status # "absent" => memory[m].version \in DOMAIN Support[m]
  <2>1. Support[m] \in Seq(Events) /\ Support[m] # <<>>
    BY AccessAssumption DEF AccessAssumption
  <2>2. 1 \in DOMAIN Support[m]
    BY <2>1
  <2>3. \/ memory[m] = [status |-> "absent", version |-> 0]
        \/ memory[m] = [status |-> "active", version |-> 1]
    BY DEF ProviderInit, Init
  <2> QED BY <2>2, <2>3 DEF MemoryStatuses
<1>4. memory \in [Memories -> [status : MemoryStatuses, version : Nat]]
  <2> DEFINE started == {[status |-> "absent", version |-> 0], [status |-> "active", version |-> 1]}
  <2>1. memory \in [Memories -> started]
    BY DEF ProviderInit, Init
  <2> HIDE DEF started
  <2> QED BY <1>3, <2>1
<1>5. /\ health \in [Sources -> Healths \cup {"absent"}]
      /\ \A e \in recorded : health[SourceOf[e]] # "absent"
  BY AccessAssumption DEF AccessAssumption, ProviderInit, Init
<1>6. StoreTyped
  BY <1>3, <1>4, <1>5, AccessAssumption DEF AccessAssumption, ProviderInit, Init, StoreTyped
<1> QED BY <1>1, <1>2, <1>6

\* Every column keeps its type; an event has its source, a memory the evidence
\* of its version, and an answer no more results than it may.
THEOREM ProviderTypes == ProviderSpec => []ProviderTypeOK
<1>1. ProviderInit => KeysKnown /\ StoreTyped /\ RequestTyped
  BY ProviderInitTyped
<1>2. /\ ConfigInv /\ ScopeInv /\ KeysKnown /\ StoreTyped /\ RequestTyped
      /\ [ProviderNext]_allVars
      => (KeysKnown /\ StoreTyped /\ RequestTyped)'
  <2> SUFFICES ASSUME ConfigInv, ScopeInv, KeysKnown, StoreTyped, RequestTyped,
                      [ProviderNext]_allVars
               PROVE  (KeysKnown /\ StoreTyped /\ RequestTyped)'
    OBVIOUS
  <2>1. KeysKnown'
    <3>1. CASE ConfigStep
      BY <3>1, KeysAssumption, ConfigStepKeepsKeys
    <3>2. CASE UNCHANGED configVars
      BY <3>2 DEF KeysKnown, configVars
    <3> QED BY <3>1, <3>2, ConfigNext
  <2> QED BY <2>1, StoreNext, RequestNext
<1>3. ScopeInv /\ KeysKnown /\ StoreTyped /\ RequestTyped => ProviderTypeOK
  BY DEF ScopeInv, ActorsApart, GrantsFounded, KeysKnown, StoreTyped, RequestTyped,
         ProviderTypeOK, AccessTypeOK, ConfigTypeOK
<1> QED BY <1>1, <1>2, <1>3, ConfigInvariant, ScopeInvariant, PTL DEF ProviderSpec

=============================================================================
