---------------------------- MODULE ControlCore ----------------------------
(***************************************************************************)
(* The control plane of internal/application for ONE lease.  Every         *)
(* mutation of application.Core takes the same mutex, replays the journal, *)
(* runs its handler in one store transaction and replays again, so a       *)
(* handler is one atomic action here; a refused request is a stutter.      *)
(* Nothing a handler reads or writes crosses a lease, so one session, one  *)
(* lease and one agent workspace with its execs, targets, runs, operations *)
(* and incidents is the whole state a mutation can see.                    *)
(*                                                                         *)
(* Left out: record revisions (a caller that quotes a stale revision is    *)
(* refused, which is a stutter), idempotency keys (a replayed request is a *)
(* stutter), plan bindings, and the identity lists Run.IncidentIDs and     *)
(* Exec.IncidentIDs (always the incidents whose scope names the run or     *)
(* the exec: CreateIncident links them and the finalizers only accept      *)
(* identifiers with exactly that scope).                                   *)
(***************************************************************************)
EXTENDS LifecycleStates, Integers, FiniteSets

CONSTANTS
    Execs, Targets, Runs, Ops, Incidents,   \* identifiers still to be issued
    Bundles,        \* observation-bundle identifiers
    None,           \* an empty identifier
    AgentAsks,      \* the states callers ask TransitionAgentGeneration for
    TargetAsks,     \* ... TransitionTargetGeneration
    RunAsks,        \* ... TransitionTargetRun
    ExecAsks,       \* ... FinalizeExec
    OpAsks,         \* ... TransitionTargetOperation
    ScopeAsks,      \* the scopes CreateIncident is called with
    EvidenceAsks,   \* ... and the evidence it is called with
    IntentAsks,     \* recovery intents TransitionIncident is called with
    TTLs,           \* lease durations
    ClockSlip,      \* ticks that may pass between two clock reads of a handler
    MaxGen,         \* bound on generations of one resource
    MaxTime         \* bound on the clock

Generations == 1..MaxGen

\* A stored bundle ID and the artifacts attached: "report" is any artifact
\* that is not a bundle, b \in Bundles stands for the artifact of bundle b.
Evidence == [bundle : Bundles \cup {None}, artifacts : SUBSET (Bundles \cup {"report"})]

Scopes == [agentGeneration : 0..MaxGen, exec : Execs \cup {None},
           target : Targets \cup {None}, targetGeneration : 0..MaxGen,
           run : Runs \cup {None}]

ASSUME ControlCoreAssumption ==
    /\ MaxGen \in Nat \ {0} /\ MaxTime \in Nat /\ ClockSlip \in Nat
    /\ TTLs \subseteq Nat \ {0}
    /\ None \notin Execs \cup Targets \cup Runs \cup Incidents \cup Bundles
    /\ ScopeAsks \subseteq Scopes /\ EvidenceAsks \subseteq Evidence
    /\ IntentAsks \subseteq SUBSET {"agent", "target"}

VARIABLES
    now,             \* the clock Core reads
    session,         \* SessionRecord.State, "none" before acquisition
    lease,           \* LeaseRecord.State
    leaseGeneration, \* LeaseRecord.AgentGeneration
    expiresAt,       \* LeaseRecord.ExpiresAt
    termination,     \* LeaseTerminationRecord.State, "none" when empty
    initiatedAt,     \* LeaseTerminationRecord.InitiatedAt
    agentCurrent,    \* AgentWorkspaceRecord.CurrentGeneration
    agentGen,        \* state of each agent generation
    agentRecovery,   \* RecoveryIncident of each agent generation
    execs,           \* ExecRecord per identifier
    targetCurrent,   \* TargetRecord.CurrentGeneration per target, 0 = absent
    targetGen,       \* state of each generation of each target
    targetRecovery,  \* RecoveryIncident of each generation of each target
    runs,            \* TargetRunRecord per identifier
    ops,             \* TargetOperationRecord per identifier
    incidents        \* IncidentRecord per identifier

leaseVars == <<session, lease, leaseGeneration, expiresAt, termination, initiatedAt>>
agentVars == <<agentCurrent, agentGen, agentRecovery>>
targetVars == <<targetCurrent, targetGen, targetRecovery>>
workVars == <<execs, runs, ops>>
vars == <<now, leaseVars, agentVars, targetVars, workVars, incidents>>

ExecRecords == [state : ExecStates \cup {"none"}, generation : 0..MaxGen]
RunRecords == [state : RunStates \cup {"none"}, target : Targets \cup {None},
               generation : 0..MaxGen, agentGeneration : 0..MaxGen,
               bundle : Bundles \cup {None}]
OpRecords == [state : OperationStates \cup {"none"}, run : Runs \cup {None}]
IncidentRecords == [state : IncidentStates \cup {"none"}, scope : Scopes,
                    evidence : Evidence, intents : SUBSET {"agent", "target"}]

NoScope == [agentGeneration |-> 0, exec |-> None, target |-> None,
            targetGeneration |-> 0, run |-> None]

Init ==
    /\ now = 0
    /\ session = "none" /\ lease = "none" /\ leaseGeneration = 0
    /\ expiresAt = 0 /\ termination = "none" /\ initiatedAt = 0
    /\ agentCurrent = 0
    /\ agentGen = [g \in Generations |-> "none"]
    /\ agentRecovery = [g \in Generations |-> None]
    /\ execs = [e \in Execs |-> [state |-> "none", generation |-> 0]]
    /\ targetCurrent = [t \in Targets |-> 0]
    /\ targetGen = [t \in Targets |-> [g \in Generations |-> "none"]]
    /\ targetRecovery = [t \in Targets |-> [g \in Generations |-> None]]
    /\ runs = [r \in Runs |-> [state |-> "none", target |-> None, generation |-> 0,
                               agentGeneration |-> 0, bundle |-> None]]
    /\ ops = [o \in Ops |-> [state |-> "none", run |-> None]]
    /\ incidents = [i \in Incidents |->
                       [state |-> "none", scope |-> NoScope, intents |-> {},
                        evidence |-> [bundle |-> None, artifacts |-> {}]]]

-----------------------------------------------------------------------------
(* Guards shared by the handlers.                                          *)

\* requireLeaseActive: the lease admits work when the clock reads `at`.
LeaseActive(at) == lease = "active" /\ termination = "none" /\ expiresAt > at

\* LeaseTerminationRecord.InProgress.
TerminationInProgress == termination \in {"releasing", "expiring"}

\* requireTargetMutationLease in cleanup mode.
LeaseAllowsCleanup == TerminationInProgress \/ LeaseActive(now)

\* requireAgentGenerationAcceptingWork.
AgentAcceptsWork(g) ==
    /\ g = agentCurrent /\ g \in Generations
    /\ agentGen[g] \in {"ready", "running"}

\* Faulty variant: target operations are forgotten.
AgentIdleExecsOnly(g) ==
    \A e \in Execs : execs[e].generation = g => execs[e].state \notin ExecLive

\* requireAgentGenerationIdle: no live exec and no live target operation.
AgentIdle(g) ==
    /\ \A e \in Execs : execs[e].generation = g => execs[e].state \notin ExecLive
    /\ \A o \in Ops : ops[o].state \in OperationLive
                        => runs[ops[o].run].agentGeneration # g

\* Faulty variant: target operations are forgotten.
WorkFinalizedWithoutOps ==
    /\ \A e \in Execs : execs[e].state \notin ExecLive
    /\ \A r \in Runs : runs[r].state \notin RunLive

\* requireLeaseWorkFinalized.
WorkFinalized ==
    /\ \A e \in Execs : execs[e].state \notin ExecLive
    /\ \A r \in Runs : runs[r].state \notin RunLive
    /\ \A o \in Ops : ops[o].state \notin OperationLive

\* Faulty variant: the terminal state of a target is used for an agent.
RetiredAgentAsTarget(s) ==
    IF s \in {"ready", "running", "quiescing"} THEN "destroyed" ELSE s

\* Last state of agentGenerationRetirementPath; the intermediate records are
\* written by the same transaction and are never seen alone.
RetiredAgent(s) ==
    IF s \in {"ready", "running", "quiescing"} THEN "sealed"
    ELSE IF s \in {"provisioning", "booting"} THEN "failed" ELSE s

\* Faulty variant: a ready generation is not retired.
RetiredTargetKeepsReady(s) ==
    IF s = "resettable" THEN "destroyed"
    ELSE IF s \in {"provisioning", "instrumenting"} THEN "failed" ELSE s

\* Last state of targetGenerationRetirementPath.
RetiredTarget(s) ==
    IF s \in {"ready", "resettable"} THEN "destroyed"
    ELSE IF s \in {"provisioning", "instrumenting"} THEN "failed" ELSE s

\* The generations after number g is left in state s and the next is minted.
Rollover(gens, g, s) ==
    [h \in Generations |-> IF h = g THEN s ELSE IF h = g + 1 THEN "provisioning" ELSE gens[h]]

\* The readings a handler may get from its second call of the clock.
SecondRead == {at \in now..(now + ClockSlip) : at <= MaxTime}

-----------------------------------------------------------------------------
(* sessions.go: acquisition, renewal and the agent generation.             *)

AcquireResearchSession(ttl) ==
    /\ session = "none"
    /\ session' = "leased" /\ lease' = "active" /\ leaseGeneration' = 1
    /\ expiresAt' = now + ttl
    /\ agentCurrent' = 1
    /\ agentGen' = [agentGen EXCEPT ![1] = "provisioning"]
    /\ UNCHANGED <<now, termination, initiatedAt, agentRecovery, targetVars,
                   workVars, incidents>>

RenewLease(ttl) ==
    /\ LeaseActive(now)
    /\ \E at \in SecondRead :
         /\ at + ttl > expiresAt
         /\ expiresAt' = at + ttl
         /\ now' = at
    /\ UNCHANGED <<session, lease, leaseGeneration, termination, initiatedAt,
                   agentVars, targetVars, workVars, incidents>>

TransitionAgentGeneration(g, s) ==
    /\ g <= agentCurrent
    /\ <<agentGen[g], s>> \in AgentTransitions
    /\ s = "quiescing" => AgentIdle(g)
    /\ agentGen' = [agentGen EXCEPT ![g] = s]
    /\ UNCHANGED <<now, leaseVars, agentCurrent, agentRecovery, targetVars,
                   workVars, incidents>>

-----------------------------------------------------------------------------
(* execs.go                                                                *)

CreateExec(e) ==
    /\ execs[e].state = "none"
    /\ LeaseActive(now) /\ AgentAcceptsWork(leaseGeneration)
    /\ execs' = [execs EXCEPT ![e] = [state |-> "requested", generation |-> agentCurrent]]
    /\ UNCHANGED <<now, leaseVars, agentVars, targetVars, runs, ops, incidents>>

\* Running also claims the generation: ready becomes running in the same
\* transaction, and a generation that is neither is refused.
TransitionExec(e, s) ==
    /\ s \in ExecLive /\ <<execs[e].state, s>> \in ExecTransitions
    /\ LeaseActive(now)
    /\ s = "running" => agentGen[execs[e].generation] \in {"ready", "running"}
    /\ agentGen' = IF s = "running"
                     THEN [agentGen EXCEPT ![execs[e].generation] = "running"]
                     ELSE agentGen
    /\ execs' = [execs EXCEPT ![e].state = s]
    /\ UNCHANGED <<now, leaseVars, agentCurrent, agentRecovery, targetVars,
                   runs, ops, incidents>>

\* No lease check: a terminal outcome is recorded whatever became of the lease.
FinalizeExec(e, s) ==
    /\ s \in ExecTerminal /\ <<execs[e].state, s>> \in ExecTransitions
    /\ execs' = [execs EXCEPT ![e].state = s]
    /\ UNCHANGED <<now, leaseVars, agentVars, targetVars, runs, ops, incidents>>

-----------------------------------------------------------------------------
(* targets.go                                                              *)

CreateTarget(t) ==
    /\ targetCurrent[t] = 0 /\ LeaseActive(now)
    /\ targetCurrent' = [targetCurrent EXCEPT ![t] = 1]
    /\ targetGen' = [targetGen EXCEPT ![t][1] = "provisioning"]
    /\ UNCHANGED <<now, leaseVars, agentVars, targetRecovery, workVars, incidents>>

\* Any generation of the target may be named, and no run is consulted.
TransitionTargetGeneration(t, g, s) ==
    /\ g <= targetCurrent[t] /\ LeaseActive(now)
    /\ <<targetGen[t][g], s>> \in TargetTransitions
    /\ targetGen' = [targetGen EXCEPT ![t][g] = s]
    /\ UNCHANGED <<now, leaseVars, agentVars, targetCurrent, targetRecovery,
                   workVars, incidents>>

\* Containment was proved by the backend; Core then cancels the operations and
\* quarantines the runs of the current generation together with it.
QuarantineTarget(t) ==
    LET cur == targetCurrent[t]
        hit(r) == runs[r].target = t /\ runs[r].generation = cur
    IN  /\ cur > 0 /\ LeaseAllowsCleanup
        /\ <<targetGen[t][cur], "quarantined">> \in TargetTransitions
        /\ targetGen' = [targetGen EXCEPT ![t][cur] = "quarantined"]
        /\ runs' = [r \in Runs |-> IF hit(r) /\ runs[r].state \in RunLive
                                     THEN [runs[r] EXCEPT !.state = "quarantined"]
                                     ELSE runs[r]]
        /\ ops' = [o \in Ops |-> IF /\ ops[o].state \in OperationLive
                                    /\ hit(ops[o].run)
                                   THEN [ops[o] EXCEPT !.state = "cancelled"]
                                   ELSE ops[o]]
        /\ UNCHANGED <<now, leaseVars, agentVars, targetCurrent, targetRecovery,
                       execs, incidents>>

StartTargetRun(r, t) ==
    /\ runs[r].state = "none" /\ targetCurrent[t] > 0
    /\ LeaseActive(now) /\ AgentAcceptsWork(leaseGeneration)
    /\ targetGen[t][targetCurrent[t]] = "ready"
    /\ \A other \in Runs : ~ (/\ runs[other].target = t
                              /\ runs[other].generation = targetCurrent[t])
    /\ runs' = [runs EXCEPT ![r] =
                  [state |-> "requested", target |-> t,
                   generation |-> targetCurrent[t],
                   agentGeneration |-> leaseGeneration, bundle |-> None]]
    /\ UNCHANGED <<now, leaseVars, agentVars, targetVars, execs, ops, incidents>>

\* completed and failed are refused here: they need a bundle.
TransitionTargetRun(r, s) ==
    /\ s \notin {"completed", "failed"}
    /\ <<runs[r].state, s>> \in RunTransitions
    /\ IF s \in RunTerminal THEN LeaseAllowsCleanup ELSE LeaseActive(now)
    /\ runs' = [runs EXCEPT ![r].state = s]
    /\ UNCHANGED <<now, leaseVars, agentVars, targetVars, execs, ops, incidents>>

\* Binds the outcome and the sealed bundle to the run.  A completed run passes
\* through finalizing (two records, one transaction); a generation that is
\* still ready is spent and becomes resettable.
BindOutcome(r, s, b) ==
    LET t == runs[r].target
        g == runs[r].generation
    IN  /\ runs' = [runs EXCEPT ![r].state = s, ![r].bundle = b]
        /\ targetGen' = IF targetGen[t][g] = "ready"
                          THEN [targetGen EXCEPT ![t][g] = "resettable"]
                          ELSE targetGen
        /\ UNCHANGED <<now, leaseVars, agentVars, targetCurrent, targetRecovery,
                       execs, ops, incidents>>

\* Faulty variant: a failed outcome is accepted from any state, ended included.
FinalizeTargetRunAgain(r, s, b) ==
    /\ s \in {"completed", "failed"} /\ LeaseAllowsCleanup
    /\ IF s = "failed" THEN runs[r].state # "none"
                       ELSE runs[r].state \in {"running", "finalizing"}
    /\ BindOutcome(r, s, b)

\* Faulty variant: finalization needs an active lease, as admission does.
FinalizeTargetRunWhileActive(r, s, b) ==
    /\ s \in {"completed", "failed"} /\ LeaseActive(now)
    /\ IF s = "failed" THEN runs[r].state \in RunLive
                       ELSE runs[r].state \in {"running", "finalizing"}
    /\ BindOutcome(r, s, b)

\* A failed run ends from any live state.  Operations are not consulted.
FinalizeTargetRun(r, s, b) ==
    /\ s \in {"completed", "failed"} /\ LeaseAllowsCleanup
    /\ IF s = "failed" THEN runs[r].state \in RunLive
                       ELSE runs[r].state \in {"running", "finalizing"}
    /\ BindOutcome(r, s, b)

CreateTargetOperation(o, r) ==
    /\ ops[o].state = "none" /\ runs[r].state = "running"
    /\ LeaseActive(now) /\ AgentAcceptsWork(runs[r].agentGeneration)
    /\ ops' = [ops EXCEPT ![o] = [state |-> "requested", run |-> r]]
    /\ UNCHANGED <<now, leaseVars, agentVars, targetVars, execs, runs, incidents>>

\* Faulty variant: every transition is treated as cleanup.
TransitionTargetOperationInCleanup(o, s) ==
    /\ <<ops[o].state, s>> \in OperationTransitions /\ LeaseAllowsCleanup
    /\ ops' = [ops EXCEPT ![o].state = s]
    /\ UNCHANGED <<now, leaseVars, agentVars, targetVars, execs, runs, incidents>>

TransitionTargetOperation(o, s) ==
    /\ <<ops[o].state, s>> \in OperationTransitions
    /\ IF s \in OperationTerminal THEN LeaseAllowsCleanup ELSE LeaseActive(now)
    /\ ops' = [ops EXCEPT ![o].state = s]
    /\ UNCHANGED <<now, leaseVars, agentVars, targetVars, execs, runs, incidents>>

\* Faulty variant: the spent generation is left resettable.
ResetTargetKeepsOld(t, i) ==
    LET cur == targetCurrent[t]
    IN  /\ cur \in 1..(MaxGen - 1) /\ LeaseActive(now)
        /\ \A r \in Runs : /\ runs[r].target = t
                           /\ runs[r].generation = cur
                           => runs[r].state \in RunTerminal
        /\ targetGen[t][cur] \in {"resettable", "failed", "destroyed"}
        /\ targetGen' = [targetGen EXCEPT ![t][cur + 1] = "provisioning"]
        /\ targetCurrent' = [targetCurrent EXCEPT ![t] = cur + 1]
        /\ targetRecovery' = [targetRecovery EXCEPT ![t][cur + 1] = i]
        /\ UNCHANGED <<now, leaseVars, agentVars, workVars, incidents>>

\* Faulty variant: the current number moves, no generation record is appended.
ResetTargetForgetsRecord(t, i) ==
    LET cur == targetCurrent[t]
    IN  /\ cur \in 1..(MaxGen - 1) /\ LeaseActive(now)
        /\ \A r \in Runs : /\ runs[r].target = t
                           /\ runs[r].generation = cur
                           => runs[r].state \in RunTerminal
        /\ targetGen[t][cur] \in {"resettable", "failed", "destroyed"}
        /\ targetGen' = [targetGen EXCEPT ![t][cur] = IF @ = "resettable" THEN "destroyed" ELSE @]
        /\ targetCurrent' = [targetCurrent EXCEPT ![t] = cur + 1]
        /\ targetRecovery' = [targetRecovery EXCEPT ![t][cur + 1] = i]
        /\ UNCHANGED <<now, leaseVars, agentVars, workVars, incidents>>

\* Retires a spent generation and mints the next.  The recovery incident the
\* caller names is only parsed; operations are not consulted.
ResetTarget(t, i) ==
    LET cur == targetCurrent[t]
    IN  /\ cur \in 1..(MaxGen - 1) /\ LeaseActive(now)
        /\ \A r \in Runs : /\ runs[r].target = t
                           /\ runs[r].generation = cur
                           => runs[r].state \in RunTerminal
        /\ targetGen[t][cur] \in {"resettable", "failed", "destroyed"}
        /\ targetGen' = [targetGen EXCEPT ![t] =
                           Rollover(@, cur, IF @[cur] = "resettable" THEN "destroyed" ELSE @[cur])]
        /\ targetCurrent' = [targetCurrent EXCEPT ![t] = cur + 1]
        /\ targetRecovery' = [targetRecovery EXCEPT ![t][cur + 1] = i]
        /\ UNCHANGED <<now, leaseVars, agentVars, workVars, incidents>>
-----------------------------------------------------------------------------
(* incidents.go and incident_evidence_sealing.go                           *)

\* CreateIncident and domain.NewIncident: what is named exists and agrees.
ScopeAdmitted(scope) ==
    /\ scope.agentGeneration <= agentCurrent
    /\ scope.exec # None =>
         /\ execs[scope.exec].state # "none"
         /\ execs[scope.exec].generation = scope.agentGeneration
    /\ IF scope.target = None THEN scope.targetGeneration = 0 /\ scope.run = None
       ELSE /\ targetCurrent[scope.target] > 0
            /\ scope.targetGeneration <= targetCurrent[scope.target]
    /\ scope.run # None =>
         /\ runs[scope.run].target = scope.target
         /\ runs[scope.run].generation = scope.targetGeneration
         /\ scope.agentGeneration \in {0, runs[scope.run].agentGeneration}

CreateIncident(i, scope, evidence) ==
    /\ incidents[i].state = "none" /\ session # "none"
    /\ ScopeAdmitted(scope)
    /\ incidents' = [incidents EXCEPT ![i] =
                       [state |-> "open", scope |-> scope, evidence |-> evidence,
                        intents |-> {}]]
    /\ UNCHANGED <<now, leaseVars, agentVars, targetVars, workVars>>

HasEvidence(i) == incidents[i].evidence.bundle # None \/ incidents[i].evidence.artifacts # {}

\* Faulty variant: recovery may be entered without a generation rollover.
TransitionIncidentToRecovering(i, s, intents) ==
    /\ incidents[i].state # "recovering"
    /\ <<incidents[i].state, s>> \in IncidentTransitions
    /\ s = "evidence_sealed" => HasEvidence(i)
    /\ incidents' = [incidents EXCEPT ![i].state = s, ![i].intents = intents]
    /\ UNCHANGED <<now, leaseVars, agentVars, targetVars, workVars>>

\* Recovery is never entered here, and never left here either.  The stored
\* recovery actions are replaced by the caller's.
TransitionIncident(i, s, intents) ==
    /\ s # "recovering" /\ incidents[i].state # "recovering"
    /\ <<incidents[i].state, s>> \in IncidentTransitions
    /\ s = "evidence_sealed" => HasEvidence(i)
    /\ incidents' = [incidents EXCEPT ![i].state = s, ![i].intents = intents]
    /\ UNCHANGED <<now, leaseVars, agentVars, targetVars, workVars>>

\* Seals a set of incidents of one finalized run with its bundle, all or none.
\* An incident already sealed with this bundle and its artifact is skipped.
SealRunIncidents(r, sealed) ==
    LET b == runs[r].bundle
        carries(i) == incidents[i].evidence.bundle = b /\ b \in incidents[i].evidence.artifacts
    IN  /\ sealed # {} /\ runs[r].state \in RunTerminal /\ b # None
        /\ \A i \in sealed :
             /\ incidents[i].scope.run = r
             /\ \/ incidents[i].state = "evidence_sealed" /\ carries(i)
                \/ /\ incidents[i].state = "open"
                   /\ incidents[i].evidence.bundle \in {None, b}
        /\ incidents' = [i \in Incidents |->
             IF i \in sealed /\ incidents[i].state = "open"
               THEN [incidents[i] EXCEPT !.state = "evidence_sealed",
                                         !.evidence = [bundle |-> b, artifacts |->
                                             incidents[i].evidence.artifacts \cup {b}]]
               ELSE incidents[i]]
        /\ UNCHANGED <<now, leaseVars, agentVars, targetVars, workVars>>

\* Faulty variant: an ended run need not have a bundle.
RunEnded(r) == runs[r].state \in RunTerminal

\* A run whose evidence survives the replacement of its generation.
RunSealed(r) == runs[r].state \in RunTerminal /\ runs[r].bundle # None

\* RecoverIncident with resource "target".
RecoverTarget(i) ==
    LET t == incidents[i].scope.target
        g == incidents[i].scope.targetGeneration
    IN  /\ incidents[i].state = "evidence_sealed" /\ LeaseActive(now)
        /\ t # None /\ g \in 1..(MaxGen - 1) /\ targetCurrent[t] = g
        /\ \A r \in Runs : runs[r].target = t /\ runs[r].generation = g => RunSealed(r)
        /\ incidents' = [incidents EXCEPT ![i].state = "recovering",
                                          ![i].intents = incidents[i].intents \cup {"target"}]
        /\ targetGen' = [targetGen EXCEPT ![t] = Rollover(@, g, RetiredTarget(@[g]))]
        /\ targetCurrent' = [targetCurrent EXCEPT ![t] = g + 1]
        /\ targetRecovery' = [targetRecovery EXCEPT ![t][g + 1] = i]
        /\ UNCHANGED <<now, leaseVars, agentVars, workVars>>

\* RecoverIncident with resource "agent_workspace": target operations of the
\* generation are not consulted.
RecoverAgent(i) ==
    LET g == incidents[i].scope.agentGeneration
    IN  /\ incidents[i].state = "evidence_sealed" /\ LeaseActive(now)
        /\ g \in 1..(MaxGen - 1) /\ agentCurrent = g /\ leaseGeneration = g
        /\ \A e \in Execs : execs[e].generation = g => execs[e].state \notin ExecLive
        /\ \A r \in Runs : runs[r].agentGeneration = g => RunSealed(r)
        /\ incidents' = [incidents EXCEPT ![i].state = "recovering",
                                          ![i].intents = incidents[i].intents \cup {"agent"}]
        /\ agentGen' = Rollover(agentGen, g, RetiredAgent(agentGen[g]))
        /\ agentCurrent' = g + 1
        /\ agentRecovery' = [agentRecovery EXCEPT ![g + 1] = i]
        /\ leaseGeneration' = g + 1
        /\ UNCHANGED <<now, session, lease, expiresAt, termination, initiatedAt,
                       targetVars, workVars>>

\* requireExactPhysicalRecoveryCompletion refuses an incident that carries
\* two physical recovery intents.
CompleteIncidentRecovery(i) ==
    /\ incidents[i].state = "recovering"
    /\ Cardinality(incidents[i].intents) = 1
    /\ incidents' = [incidents EXCEPT ![i].state = "resolved"]
    /\ UNCHANGED <<now, leaseVars, agentVars, targetVars, workVars>>

-----------------------------------------------------------------------------
(* lease_termination.go                                                    *)

\* Faulty variant: as an expiry does, the release leaves the lease active.
BeginReleaseKeepsLeaseActive ==
    /\ LeaseActive(now) /\ session = "leased"
    /\ termination' = "releasing" /\ session' = "releasing"
    /\ \E at \in SecondRead : initiatedAt' = at /\ now' = at
    /\ UNCHANGED <<lease, leaseGeneration, expiresAt, agentVars, targetVars, workVars, incidents>>

\* The deadline is compared with one clock reading and the termination is
\* stamped with a second one.
BeginReleaseResearchSession ==
    /\ LeaseActive(now) /\ session = "leased"
    /\ lease' = "releasing" /\ termination' = "releasing" /\ session' = "releasing"
    /\ \E at \in SecondRead : initiatedAt' = at /\ now' = at
    /\ UNCHANGED <<leaseGeneration, expiresAt, agentVars, targetVars, workVars, incidents>>

\* Faulty variant: the deadline is not compared.
BeginLeaseExpiryEarly ==
    /\ termination = "none" /\ lease = "active" /\ session = "leased"
    /\ termination' = "expiring" /\ session' = "releasing"
    /\ \E at \in SecondRead : initiatedAt' = at /\ now' = at
    /\ UNCHANGED <<lease, leaseGeneration, expiresAt, agentVars, targetVars,
                   workVars, incidents>>

\* The lease keeps its state: the termination record closes admission.
BeginDueLeaseExpiry ==
    /\ now >= expiresAt /\ termination = "none" /\ lease = "active"
    /\ session = "leased"
    /\ termination' = "expiring" /\ session' = "releasing"
    /\ \E at \in SecondRead : initiatedAt' = at /\ now' = at
    /\ UNCHANGED <<lease, leaseGeneration, expiresAt, agentVars, targetVars,
                   workVars, incidents>>

\* CompleteLeaseTermination and CompleteReleaseResearchSession: retires the
\* current generation of every target and of the agent with the lease.
CompleteLeaseTermination ==
    LET ended == IF termination = "releasing" THEN "released" ELSE "expired"
    IN  /\ TerminationInProgress /\ WorkFinalized
        /\ <<lease, ended>> \in LeaseTransitions
        /\ <<session, "released">> \in SessionTransitions
        /\ targetGen' = [t \in Targets |-> [g \in Generations |->
                           IF g = targetCurrent[t] THEN RetiredTarget(targetGen[t][g])
                                                   ELSE targetGen[t][g]]]
        /\ agentGen' = [agentGen EXCEPT ![agentCurrent] = RetiredAgent(@)]
        /\ lease' = ended /\ termination' = ended /\ session' = "released"
        /\ UNCHANGED <<now, leaseGeneration, expiresAt, initiatedAt, agentCurrent,
                       agentRecovery, targetCurrent, targetRecovery, workVars, incidents>>

Tick == now < MaxTime /\ now' = now + 1
        /\ UNCHANGED <<leaseVars, agentVars, targetVars, workVars, incidents>>
-----------------------------------------------------------------------------

LeaseNext ==
    \/ \E ttl \in TTLs : AcquireResearchSession(ttl) \/ RenewLease(ttl)
    \/ BeginReleaseResearchSession
    \/ BeginDueLeaseExpiry
    \/ CompleteLeaseTermination
    \/ Tick

AgentNext ==
    \/ \E g \in Generations, s \in AgentAsks : TransitionAgentGeneration(g, s)
    \/ \E e \in Execs : \/ CreateExec(e)
                        \/ \E s \in ExecLive : TransitionExec(e, s)
                        \/ \E s \in ExecAsks : FinalizeExec(e, s)

TargetNext ==
    \/ \E t \in Targets : \/ CreateTarget(t)
                          \/ \E g \in Generations, s \in TargetAsks :
                               TransitionTargetGeneration(t, g, s)
                          \/ QuarantineTarget(t)
                          \/ \E r \in Runs : StartTargetRun(r, t)
                          \/ \E i \in Incidents \cup {None} : ResetTarget(t, i)
    \/ \E r \in Runs : \/ \E s \in RunAsks : TransitionTargetRun(r, s)
                       \/ \E s \in {"completed", "failed"}, b \in Bundles :
                            FinalizeTargetRun(r, s, b)
    \/ \E o \in Ops : \/ \E r \in Runs : CreateTargetOperation(o, r)
                      \/ \E s \in OpAsks : TransitionTargetOperation(o, s)

IncidentNext ==
    \/ \E i \in Incidents :
         \/ \E scope \in ScopeAsks, evidence \in EvidenceAsks :
              CreateIncident(i, scope, evidence)
         \/ \E s \in IncidentStates, intents \in IntentAsks :
              TransitionIncident(i, s, intents)
         \/ RecoverTarget(i)
         \/ RecoverAgent(i)
         \/ CompleteIncidentRecovery(i)
    \/ \E r \in Runs, sealed \in SUBSET Incidents : SealRunIncidents(r, sealed)

Next == LeaseNext \/ AgentNext \/ TargetNext \/ IncidentNext

Spec == Init /\ [][Next]_vars

\* The reaper (ReconcileLeaseTerminations) runs periodically: it begins every
\* due expiry and, for a lease that is terminating, ends its execs, runs and
\* operations and then completes the termination.  Nothing outside the reaper
\* is assumed to make progress.
ReaperFairness ==
    /\ WF_vars(BeginDueLeaseExpiry)
    /\ WF_vars(CompleteLeaseTermination)
    /\ \A e \in Execs : WF_vars(TerminationInProgress /\ FinalizeExec(e, "cancelled"))
    /\ \A r \in Runs : WF_vars(/\ TerminationInProgress
                               /\ \E b \in Bundles : FinalizeTargetRun(r, "failed", b))
    /\ \A o \in Ops : WF_vars(TerminationInProgress /\ TransitionTargetOperation(o, "cancelled"))

FairSpec == Spec /\ ReaperFairness

-----------------------------------------------------------------------------
(* Properties                                                              *)

TypeOK ==
    /\ now \in 0..MaxTime
    /\ session \in {"none", "leased", "releasing", "released"}
    /\ lease \in {"none", "active", "releasing", "released", "expired"}
    /\ termination \in {"none", "releasing", "expiring", "released", "expired"}
    /\ leaseGeneration \in 0..MaxGen
    /\ expiresAt \in Nat /\ initiatedAt \in Nat
    /\ agentCurrent \in 0..MaxGen
    /\ agentGen \in [Generations -> AgentStates \cup {"none"}]
    /\ agentRecovery \in [Generations -> Incidents \cup {None}]
    /\ execs \in [Execs -> ExecRecords]
    /\ targetCurrent \in [Targets -> 0..MaxGen]
    /\ targetGen \in [Targets -> [Generations -> TargetStates \cup {"none"}]]
    /\ targetRecovery \in [Targets -> [Generations -> Incidents \cup {None}]]
    /\ runs \in [Runs -> RunRecords]
    /\ ops \in [Ops -> OpRecords]
    /\ incidents \in [Incidents -> IncidentRecords]

\* Session, lease and termination record are written by different handlers and
\* agree at every moment on the phase of the lease; the lease hands out the
\* current generation of the agent, which exists from acquisition on.
LeasePhasesAgree ==
    /\ <<session, lease, termination>> \in
         {<<"none", "none", "none">>, <<"leased", "active", "none">>,
          <<"releasing", "releasing", "releasing">>, <<"releasing", "active", "expiring">>,
          <<"released", "released", "released">>, <<"released", "expired", "expired">>}
    /\ leaseGeneration = agentCurrent
    /\ session = "none" <=> agentCurrent = 0

\* No identifier dangles: the generations of a resource are exactly the ones
\* up to the current one, and execs, runs and operations name a generation, a
\* target and a run that exist.
ReferencesResolve ==
    /\ \A g \in Generations : agentGen[g] = "none" <=> g > agentCurrent
    /\ \A t \in Targets, g \in Generations : targetGen[t][g] = "none" <=> g > targetCurrent[t]
    /\ \A e \in Execs : execs[e].state # "none" => execs[e].generation \in 1..agentCurrent
    /\ \A r \in Runs :
         IF runs[r].state = "none" THEN runs[r].target = None
         ELSE /\ runs[r].target \in Targets
              /\ runs[r].generation \in 1..targetCurrent[runs[r].target]
              /\ runs[r].agentGeneration \in 1..agentCurrent
    /\ \A o \in Ops : ops[o].state # "none" =>
         ops[o].run \in Runs /\ runs[ops[o].run].state # "none"

\* A lease reaches released or expired only when nothing it ever admitted is
\* alive: no exec, run or operation, and no generation of the agent or of any
\* target, current or replaced (completeLeaseTermination finalizes only the
\* current generations, so the replaced ones must have been retired earlier).
TerminatedLeaseIsDrained ==
    lease \in {"released", "expired"} =>
        /\ session = "released"
        /\ \A e \in Execs : execs[e].state \notin ExecLive
        /\ \A r \in Runs : runs[r].state \notin RunLive
        /\ \A o \in Ops : ops[o].state \notin OperationLive
        /\ \A g \in Generations : agentGen[g] \notin AgentLive
        /\ \A t \in Targets, g \in Generations : targetGen[t][g] \notin TargetLive

\* At most one realization of each resource is alive: a replaced generation is
\* terminal and so is every exec and run bound to it.
OnlyCurrentGenerationLives ==
    /\ \A g \in Generations : g < agentCurrent => agentGen[g] \in AgentTerminal
    /\ \A e \in Execs : execs[e].generation < agentCurrent => execs[e].state \notin ExecLive
    /\ \A t \in Targets, g \in Generations :
         g < targetCurrent[t] => targetGen[t][g] \in TargetTerminal
    /\ \A r \in Runs, t \in Targets :
         runs[r].target = t /\ runs[r].generation < targetCurrent[t]
           => runs[r].state \in RunTerminal

\* A generation that is observed quiescing runs nothing: either work was
\* admitted first and quiescing was refused, or quiescing closed admission
\* first (requireAgentGenerationIdle against the admission of execs and of
\* target operations).
QuiescingIsIdle ==
    \A g \in Generations : agentGen[g] = "quiescing" =>
        /\ \A e \in Execs : execs[e].generation = g => execs[e].state \notin ExecLive
        /\ \A o \in Ops : ops[o].state \in OperationLive
                            => runs[ops[o].run].agentGeneration # g

\* A replaced agent generation lost no evidence: it was replaced because of an
\* incident that was sealed with evidence and named exactly it, no incident
\* replaced two generations, and every run the generation drove is terminal
\* and bound to its bundle.
AgentReplacementKeepsEvidence ==
    /\ \A g \in 2..MaxGen : g <= agentCurrent =>
         /\ agentRecovery[g] \in Incidents
         /\ incidents[agentRecovery[g]].state \in {"recovering", "resolved"}
         /\ incidents[agentRecovery[g]].scope.agentGeneration = g - 1
         /\ HasEvidence(agentRecovery[g])
    /\ \A r \in Runs : runs[r].agentGeneration \in 1..(agentCurrent - 1) =>
         runs[r].state \in RunTerminal /\ runs[r].bundle # None

\* A recovering incident can always be resumed: the replacement generation it
\* paid for exists and carries its identifier, whichever resource it was.
RecoveringIncidentHasReplacement ==
    \A i \in Incidents : incidents[i].state = "recovering" =>
        \/ \E g \in 2..MaxGen : /\ agentRecovery[g] = i
                                /\ g = incidents[i].scope.agentGeneration + 1
        \/ \E t \in Targets, g \in 2..MaxGen :
             /\ targetRecovery[t][g] = i /\ t = incidents[i].scope.target
             /\ g = incidents[i].scope.targetGeneration + 1

\* The reaper never ends a lease early: an expiry began at or after the
\* deadline in force, whatever renewals raced with it.
ExpiryOnlyWhenDue ==
    termination \in {"expiring", "expired"} => initiatedAt >= expiresAt

\* What an item of work may do in a step once admission is closed.
OnlyDrains(before, after, live, terminal) ==
    after = before \/ (before.state \in live /\ after.state \in terminal)

\* From the deadline, or from the start of a release, on: no step admits an
\* exec, a run, an operation or a generation, and a live item only ends.
ClosedLeaseOnlyDrains ==
    [][lease # "none" /\ (termination # "none" \/ now >= expiresAt) =>
        /\ \A e \in Execs : OnlyDrains(execs[e], execs'[e], ExecLive, ExecTerminal)
        /\ \A r \in Runs : OnlyDrains(runs[r], runs'[r], RunLive, RunTerminal)
        /\ \A o \in Ops : OnlyDrains(ops[o], ops'[o], OperationLive, OperationTerminal)
        /\ agentCurrent' = agentCurrent /\ targetCurrent' = targetCurrent]_vars

\* A finalized run is immutable: once a bundle is bound neither the outcome
\* nor the bundle changes, and an ended exec, run or operation stays ended as
\* it was.
OutcomesAreFinal ==
    [][/\ \A r \in Runs : runs[r].state \in RunTerminal => runs'[r] = runs[r]
       /\ \A e \in Execs : execs[e].state \in ExecTerminal => execs'[e] = execs[e]
       /\ \A o \in Ops : ops[o].state \in OperationTerminal => ops'[o] = ops[o]]_vars

\* Generations advance independently and one at a time: a step that mints a
\* generation mints exactly the next one of one resource, never of an agent
\* and a target together, and leaves the previous one terminal.
RolloverIsSingle ==
    [][/\ agentCurrent' # agentCurrent /\ agentCurrent > 0 =>
            /\ agentCurrent' = agentCurrent + 1 /\ targetCurrent' = targetCurrent
            /\ agentGen'[agentCurrent] \in AgentTerminal
       /\ \A t \in Targets : targetCurrent'[t] # targetCurrent[t] /\ targetCurrent[t] > 0 =>
            /\ targetCurrent' = [targetCurrent EXCEPT ![t] = @ + 1]
            /\ agentCurrent' = agentCurrent
            /\ targetGen'[t][targetCurrent[t]] \in TargetTerminal]_vars

\* Every lease ends: one that is overdue, and one whose release began, is
\* eventually released or expired, with the work still in flight ended by the
\* reaper and nothing new admitted that could postpone it for ever.
OverdueLeaseEnds ==
    (lease = "active" /\ now >= expiresAt) \/ termination # "none"
        ~> lease \in {"released", "expired"}

\* requireAgentGenerationIdle is documented to be "evaluated in the same
\* critical section as the transition to Quiescing", so that work admitted
\* first makes quiescing fail: a generation that is quiescing, or was sealed
\* through quiescing, would then have no live exec and no live operation.
QuiescedGenerationIsIdle ==
    \A g \in Generations : agentGen[g] \in {"quiescing", "sealed"} =>
        /\ \A e \in Execs : execs[e].generation = g => execs[e].state \notin ExecLive
        /\ \A o \in Ops : ops[o].state \in OperationLive
                            => runs[ops[o].run].agentGeneration # g
=============================================================================
