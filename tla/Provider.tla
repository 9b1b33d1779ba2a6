------------------------------ MODULE Provider ------------------------------
(***************************************************************************)
(* The Hermes plugin (hermes_plugin/provider.py) over the store of Access  *)
(* and the file of ProviderConfig.  A session of the plugin classifies its *)
(* context, prefetches context packets for its profile and syncs completed *)
(* turns.  It reads the file once, when it starts, so that its settings    *)
(* are any that the file has ever had.  Its live trim is Writeback's       *)
(* coordinator; the tools that it exposes are operations of the modules    *)
(* that model them.                                                        *)
(***************************************************************************)
EXTENDS Access, ProviderConfig

CONSTANT HighSignal     \* turns whose content is high-signal

VARIABLE proposed       \* the turns that have a proposal

allVars == <<vars, configVars, proposed>>

ProviderInit == Init /\ ConfigInit /\ proposed = {}

\* A turn is proposed in the transaction that records it.
ProviderTypeOK ==
  /\ AccessTypeOK /\ ConfigTypeOK
  /\ proposed \subseteq Spoken \cap recorded

Contexts == {"primary", "background", "unknown"}
Platforms == {"interactive", "cron", "unknown"}

\* Only a primary context on a known interactive platform is trusted.
Trusted(context, platform) == context = "primary" /\ platform = "interactive"

RecallModes == {"context", "tools", "hybrid"}

Prefetch(p, context, platform, mode) ==
  /\ Trusted(context, platform)
  /\ mode \in {"context", "hybrid"}
  /\ Authorize(p, NoSession, NoProject)

Policies == {"off", "audit_only", "propose_high_signal", "proposal_only"}

Proposes(policy, turn) ==
  \/ policy = "proposal_only"
  \/ policy = "propose_high_signal" /\ turn \in HighSignal

\* A turn that was proposed before keeps its proposal.
ProposeTurn(turn) ==
  LET p == Owner[SourceOf[turn]]
  IN /\ Change
     /\ actor' = [actor EXCEPT ![p] = Resolved(p, NoActor)]
     /\ health' = [health EXCEPT ![SourceOf[turn]] = "healthy"]
     /\ recorded' = recorded \cup {turn}
     /\ proposed' = proposed \cup {turn}
     /\ UNCHANGED <<grants, asked, withdrawn, memory, index, configVars>>

SyncTurn(context, platform, policy, turn) ==
  /\ Trusted(context, platform)
  /\ Proposes(policy, turn)
  /\ ProposeTurn(turn)

\* The tools work on the session's own profile.  A turn handed to its tool is
\* proposed whatever the policy says.  The tools that only report are left out,
\* and a proposal on evidence is MemoryLifecycle's.
ToolCall(p, context, platform) ==
  /\ Trusted(context, platform)
  /\ \/ \E turn \in {t \in Spoken : Owner[SourceOf[t]] = p} : ProposeTurn(turn)
     \/ /\ \/ Authorize(p, NoSession, NoProject)
           \/ \E s \in {t \in Sources : Owner[t] = p} : Import(s)
           \/ \E found \in [FilesOf(p) -> Healths] : Register(p, found)
        /\ UNCHANGED <<configVars, proposed>>

\* Bound: the file is saved before the first request, and no save is under way
\* from then on, as requests do not touch it.
BeforeRequests == request = NoRequest
NoSaveUnderWay == \A c \in Savers : saver[c] = Idle

SaveStep ==
  /\ BeforeRequests
  /\ \/ \E c \in Savers, values \in Saves : SaveLocks(c, values) /\ Change
     \/ \E c \in Savers, values \in Postures : SwitchReads(c, values) /\ Change
     \/ \E c \in Savers : SwitchLocks(c) /\ UNCHANGED <<request, changes>>
     \/ \E c \in Savers : ReplaceConfig(c) /\ UNCHANGED <<request, changes>>
     \/ \E c \in Savers : Release(c) /\ UNCHANGED <<request, changes>>

SessionStep ==
  \E context \in Contexts, platform \in Platforms :
    \/ \E p \in Profiles, mode \in RecallModes :
         Prefetch(p, context, platform, mode) /\ UNCHANGED <<configVars, proposed>>
    \/ \E policy \in Policies, turn \in Spoken : SyncTurn(context, platform, policy, turn)
    \/ \E p \in Profiles : ToolCall(p, context, platform)

ProviderNext ==
  \/ NoSaveUnderWay /\ Next /\ UNCHANGED <<configVars, proposed>>
  \/ SaveStep /\ UNCHANGED <<store, proposed>>
  \/ NoSaveUnderWay /\ SessionStep

ProviderSpec == ProviderInit /\ [][ProviderNext]_allVars
=============================================================================
