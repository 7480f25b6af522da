----------------------------- MODULE Provisioning -----------------------------
(***************************************************************************)
(* How a request becomes physical resources: the provisioning resolver     *)
(* (internal/orchestration/provisioning.go), the policy admission around   *)
(* it (policy_admission.go), the durable binding of a plan to a generation *)
(* (controller.go) and the startup pass that resolves every durable record *)
(* again (reconciliation.go).                                              *)
(*                                                                         *)
(* A plan stands for everything a plan digest covers; all that is told     *)
(* apart is the policy pair it names and what it costs of an aggregate     *)
(* limit.  The digest leaves the retry key out, so a plan is its digest.   *)
(* The controller's mutex admits one operation at a time; `op' is the one  *)
(* that holds it and how far it got, and a crash can come between any two  *)
(* of its steps.  The daemon may come back with another configuration.     *)
(***************************************************************************)
EXTENDS Naturals, FiniteSets

LOCAL INSTANCE FiniteSetsExt

CONSTANTS Sessions,       \* acquisition keys, each of one session and agent
          Targets,        \* creation keys, each of one target
          Views,          \* input views a request may name
          Pairs,          \* effective-policy and capability pairs
          Limit,          \* the aggregate limit of each pair
          MaxConcurrent,  \* the live targets each pair allows
          Configurations, \* the profiles the daemon may be started with
          MaxCrashes, MaxFaults

VARIABLES configured,     \* the configuration the daemon last started with
          up,             \* whether the daemon serves requests
          agent, target,  \* the durable records and what exists physically
          op,             \* the operation that holds the controller's mutex
          crashes, faults

provisioningVars == <<configured, up, agent, target, op, crashes, faults>>

-------------------------------------------------------------------------------

NoPlan == [pair |-> "none", cost |-> 0]
Plans == [pair : Pairs \cup {"none"}, cost : Nat]

Idle == [kind |-> "idle", id |-> "none", at |-> "none", resumed |-> FALSE]

NoAgent == [state |-> "none", lease |-> "none", view |-> "none", pair |-> "none",
            bound |-> NoPlan, physical |-> NoPlan]
NoTarget == [state |-> "none", owner |-> "none", pair |-> "none",
             bound |-> NoPlan, physical |-> NoPlan]

Terminal(r) == r.state \in {"failed", "destroyed"}
Live(r) == r.state \in {"provisioning", "ready"}
Bound(r) == r.bound # NoPlan

TypeOK ==
    /\ configured \in Configurations
    /\ up \in BOOLEAN
    /\ agent \in [Sessions -> [state : {"none", "provisioning", "ready", "failed", "destroyed"},
                               lease : {"none", "active", "releasing", "released"},
                               view : Views \cup {"none"}, pair : Pairs \cup {"none"},
                               bound : Plans, physical : Plans]]
    /\ target \in [Targets -> [state : {"none", "provisioning", "ready", "failed", "destroyed"},
                               owner : Sessions \cup {"none"}, pair : Pairs \cup {"none"},
                               bound : Plans, physical : Plans]]
    /\ op \in [kind : {"idle", "agent", "target"}, id : Sessions \cup Targets \cup {"none"},
               at : {"none", "bind", "provision", "advance", "failed", "rollback", "destroy"},
               resumed : BOOLEAN]
    /\ crashes \in 0..MaxCrashes
    /\ faults \in 0..MaxFaults

Init ==
    /\ configured \in Configurations
    /\ up = TRUE
    /\ agent = [s \in Sessions |-> NoAgent]
    /\ target = [t \in Targets |-> NoTarget]
    /\ op = Idle
    /\ crashes = 0
    /\ faults = 0

-------------------------------------------------------------------------------
(* Resolution: what the configuration c makes of a durable record.           *)

\* resolveAgent: the view's plan, if it names the record's policy pair.
ResolvesAgent(c, s) == c.agents[agent[s].view].pair = agent[s].pair

\* Faulty variant: the persisted identity gives the key and no digest check.
AgentKeepsPlanByKey(c, s) == TRUE

\* ApplyPersistedAgentProvisioningIdentity: a bound generation keeps its plan.
AgentKeepsPlan(c, s) == Bound(agent[s]) => agent[s].bound = c.agents[agent[s].view]

\* ResolveTarget and ApplyPersistedTargetProvisioningIdentity.
ResolvesTarget(c, t) ==
    /\ c.target.pair = target[t].pair
    /\ Bound(target[t]) => target[t].bound = c.target

-------------------------------------------------------------------------------
(* Admission: every live generation but the candidate's own is counted, at   *)
(* the cost the configuration gives it now.                                  *)

LiveAgents == {s \in Sessions : Live(agent[s])}
LiveTargets == {t \in Targets : Live(target[t])}

\* Faulty variant: the inventory stops at the agents.
UsageOfAgents(c, S, T) == MapThenSumSet(LAMBDA s : c.agents[agent[s].view].cost, LiveAgents \ S)

\* authoritativeResourceUsage without the agents S and the targets T.
Usage(c, S, T) ==
    MapThenSumSet(LAMBDA s : c.agents[agent[s].view].cost, LiveAgents \ S)
        + c.target.cost * Cardinality(LiveTargets \ T)

\* The inventory resolves every record it counts, or nothing is admitted.
InventoryResolves(c, S, T) ==
    /\ \A s \in LiveAgents \ S : ResolvesAgent(c, s)
    /\ \A t \in LiveTargets \ T : ResolvesTarget(c, t)

\* admitAggregateCandidate for a plan that replaces S and T.
AggregateAdmits(c, plan, S, T) ==
    /\ InventoryResolves(c, S, T)
    /\ Usage(c, S, T) + plan.cost <= Limit[plan.pair]

\* Faulty variant: a retry consumes capacity twice.
TargetAdmitsTwice(c, t) ==
    /\ AggregateAdmits(c, c.target, {}, {})
    /\ Cardinality(LiveTargets) < MaxConcurrent[c.target.pair]

\* validateTargetPhysicalAdmissionCandidate also leaves room for one target.
TargetAdmits(c, t) ==
    /\ AggregateAdmits(c, c.target, {}, {t})
    /\ Cardinality(LiveTargets \ {t}) < MaxConcurrent[c.target.pair]

-------------------------------------------------------------------------------
(* AcquireResearchSession.                                                   *)

Well == UNCHANGED <<configured, up, crashes, faults>>
Fault == faults < MaxFaults /\ faults' = faults + 1 /\ UNCHANGED <<configured, up, crashes>>
Free == up /\ op = Idle
At(kind, at) == up /\ op.kind = kind /\ op.at = at
Proceed(at) == op' = [op EXCEPT !.at = at]

\* A request for the view v under the key s: resolved and admitted, it creates
\* the session or resumes the one the key already names.
Acquire(s, v) ==
    LET plan == configured.agents[v] IN
    /\ Free
    /\ AggregateAdmits(configured, plan, {s}, {})
    /\ agent[s].state = "none" \/ agent[s].view = v
    /\ agent[s].lease # "released"
    /\ \/ /\ agent[s].state = "none"
          /\ agent' = [agent EXCEPT ![s].state = "provisioning", ![s].lease = "active",
                                    ![s].view = v, ![s].pair = plan.pair]
          /\ op' = [kind |-> "agent", id |-> s, at |-> "bind", resumed |-> FALSE]
       \/ /\ agent[s].state = "failed"
          /\ op' = [kind |-> "agent", id |-> s, at |-> "rollback", resumed |-> FALSE]
          /\ UNCHANGED agent
       \/ /\ Live(agent[s]) /\ agent[s].lease = "active"
          /\ op' = [kind |-> "agent", id |-> s, at |-> "bind",
                    resumed |-> agent[s].state # "provisioning" \/ Bound(agent[s])]
          /\ UNCHANGED agent
    /\ UNCHANGED target
    /\ Well

\* bindAgentProvisioning, AdmitAgentWorkspacePlan and bindAgentProvisioningPlan.
BindAgent ==
    LET s == op.id
        plan == configured.agents[agent[s].view]
        admitted == /\ ResolvesAgent(configured, s) /\ AgentKeepsPlan(configured, s)
                    /\ AggregateAdmits(configured, plan, {s}, {})
    IN
    /\ At("agent", "bind")
    /\ \/ /\ admitted
          /\ agent' = [agent EXCEPT ![s].bound = IF Bound(agent[s]) THEN @ ELSE plan]
          /\ Proceed("provision")
          /\ Well
       \/ /\ ~admitted
          /\ Proceed("failed")
          /\ UNCHANGED agent
          /\ Well
       \/ Fault /\ Proceed("failed") /\ UNCHANGED agent
    /\ UNCHANGED target

\* provisionAgentPhysical: an error may come before or after the effect.
ProvisionAgent ==
    /\ At("agent", "provision")
    /\ \/ /\ agent' = [agent EXCEPT ![op.id].physical = configured.agents[agent[op.id].view]]
          /\ \/ Proceed("advance") /\ Well
             \/ Proceed("failed") /\ Fault
       \/ Proceed("failed") /\ Fault /\ UNCHANGED agent
    /\ UNCHANGED target

AdvanceAgentReady ==
    /\ At("agent", "advance")
    /\ \/ agent' = [agent EXCEPT ![op.id].state = "ready"] /\ op' = Idle /\ Well
       \/ Proceed("failed") /\ Fault /\ UNCHANGED agent
    /\ UNCHANGED target

\* failAcquisitionAttempt compensates only what this attempt established.
FailAttempt ==
    /\ up /\ op.at = "failed"
    /\ IF op.resumed THEN op' = Idle ELSE Proceed("rollback")
    /\ UNCHANGED <<agent, target>>
    /\ Well

\* rollbackAcquisition: the logical failure first, then the resources; the
\* release is completed only when both went well.
RollbackAgent ==
    /\ At("agent", "rollback")
    /\ \/ agent' = [agent EXCEPT ![op.id].state = "failed", ![op.id].lease = "releasing"] /\ Well
       \/ Fault /\ UNCHANGED agent
    /\ Proceed("destroy")
    /\ UNCHANGED target

DestroyAgent ==
    /\ At("agent", "destroy")
    /\ \/ /\ agent' = [agent EXCEPT ![op.id].physical = NoPlan,
                         ![op.id].lease = IF @ = "releasing" THEN "released" ELSE @]
          /\ Well
       \/ Fault /\ UNCHANGED agent
    /\ op' = Idle
    /\ UNCHANGED target

-------------------------------------------------------------------------------
(* CreateTarget and DestroyTarget.                                           *)

\* AdmitTargetRequest, then the logical target or the one the key names.
CreateTarget(t, s) ==
    /\ Free
    /\ agent[s].state = "ready" /\ agent[s].lease = "active"
    /\ agent[s].pair = configured.target.pair
    /\ TargetAdmits(configured, t)
    /\ \/ /\ target[t].state = "none"
          /\ target' = [target EXCEPT ![t].state = "provisioning", ![t].owner = s,
                                      ![t].pair = configured.target.pair]
       \/ Live(target[t]) /\ target[t].owner = s /\ UNCHANGED target
    /\ op' = [kind |-> "target", id |-> t, at |-> "bind", resumed |-> Bound(target[t])]
    /\ UNCHANGED agent
    /\ Well

\* ResolveTarget with its exact admission, then bindTargetProvisioningPlan.
BindTarget ==
    LET t == op.id
        admitted == ResolvesTarget(configured, t) /\ TargetAdmits(configured, t)
    IN
    /\ At("target", "bind")
    /\ \/ /\ admitted
          /\ target' = [target EXCEPT ![t].bound = IF Bound(target[t]) THEN @ ELSE configured.target]
          /\ Proceed("provision")
          /\ Well
       \/ /\ ~admitted
          /\ Proceed("failed")
          /\ UNCHANGED target
          /\ Well
       \/ Fault /\ Proceed("failed") /\ UNCHANGED target
    /\ UNCHANGED agent

ProvisionTarget ==
    /\ At("target", "provision")
    /\ \/ /\ target' = [target EXCEPT ![op.id].physical = configured.target]
          /\ \/ Proceed("advance") /\ Well
             \/ Proceed("failed") /\ Fault
       \/ Proceed("failed") /\ Fault /\ UNCHANGED target
    /\ UNCHANGED agent

AdvanceTargetReady ==
    /\ At("target", "advance")
    /\ \/ target' = [target EXCEPT ![op.id].state = "ready"] /\ op' = Idle /\ Well
       \/ Proceed("failed") /\ Fault /\ UNCHANGED target
    /\ UNCHANGED agent

\* rollbackTarget destroys what was tried and fails the generation either way.
RollbackTarget ==
    /\ At("target", "rollback")
    /\ \/ target' = [target EXCEPT ![op.id].state = "failed", ![op.id].physical = NoPlan] /\ Well
       \/ Fault /\ target' = [target EXCEPT ![op.id].state = "failed"]
       \/ Fault /\ target' = [target EXCEPT ![op.id].physical = NoPlan]
    /\ op' = Idle
    /\ UNCHANGED agent

\* DestroyTarget of a ready target; an error leaves it to a retry.
DestroyTarget(t) ==
    /\ Free
    /\ target[t].state = "ready"
    /\ agent[target[t].owner].lease = "active"
    /\ target' = [target EXCEPT ![t].state = "destroyed", ![t].physical = NoPlan]
    /\ UNCHANGED <<agent, op>>
    /\ Well

-------------------------------------------------------------------------------
(* Release, by the holder or the reaper.                                     *)

BeginRelease(s) ==
    /\ Free
    /\ agent[s].lease = "active"
    /\ agent' = [agent EXCEPT ![s].lease = "releasing"]
    /\ UNCHANGED <<target, op>>
    /\ Well

ReleaseTarget(t) ==
    /\ Free
    /\ target[t].owner # "none" /\ agent[target[t].owner].lease = "releasing"
    /\ Live(target[t]) \/ target[t].physical # NoPlan
    /\ target' = [target EXCEPT ![t].state = IF Terminal(target[t]) THEN @ ELSE "destroyed",
                                ![t].physical = NoPlan]
    /\ UNCHANGED <<agent, op>>
    /\ Well

ReleaseAgent(s) ==
    /\ Free
    /\ agent[s].lease = "releasing"
    /\ \A t \in Targets : target[t].owner = s => ~Live(target[t]) /\ target[t].physical = NoPlan
    /\ agent' = [agent EXCEPT ![s].lease = "released", ![s].physical = NoPlan,
                              ![s].state = IF Terminal(agent[s]) THEN @ ELSE "destroyed"]
    /\ UNCHANGED <<target, op>>
    /\ Well

-------------------------------------------------------------------------------
(* Restart.                                                                  *)

Crash ==
    /\ up
    /\ crashes < MaxCrashes
    /\ crashes' = crashes + 1
    /\ up' = FALSE
    /\ op' = Idle
    /\ UNCHANGED <<configured, agent, target, faults>>

\* leaseCleanupInProgress.
Releasing(s) == s \in Sessions /\ agent[s].lease = "releasing"

\* Which records resolvePersistedPhysicalPlans resolves: the live ones, and the
\* bound ones whose remains it may have to clean up.
AgentsToResolve == {s \in Sessions : IF Terminal(agent[s]) \/ Releasing(s)
                                     THEN Bound(agent[s]) ELSE Live(agent[s])}
TargetsToResolve == {t \in Targets : IF Terminal(target[t]) \/ Releasing(target[t].owner)
                                     THEN Bound(target[t]) ELSE Live(target[t])}

\* ResolvePersistedAgent and the binding: no candidate, all the live usage.
AgentRestarts(c, s) ==
    /\ ResolvesAgent(c, s)
    /\ AgentKeepsPlan(c, s)
    /\ InventoryResolves(c, {}, {})
    /\ Usage(c, {}, {}) <= Limit[agent[s].pair]

\* ResolveTarget: the target is charged as a candidate, though it be destroyed.
TargetRestarts(c, t) == ResolvesTarget(c, t) /\ TargetAdmits(c, t)

StartupAdmits(c) ==
    /\ \A s \in AgentsToResolve : AgentRestarts(c, s)
    /\ \A t \in TargetsToResolve : TargetRestarts(c, t)

\* Startup with the configuration c: what is terminal or being released loses
\* its resources, what is live is bound if need be and provisioned again.
Start(c) ==
    /\ ~up
    /\ StartupAdmits(c)
    /\ configured' = c
    /\ up' = TRUE
    /\ agent' = [s \in Sessions |->
          CASE Terminal(agent[s]) \/ Releasing(s) -> [agent[s] EXCEPT !.physical = NoPlan]
            [] Live(agent[s]) /\ ~Releasing(s) ->
                 [agent[s] EXCEPT !.bound = IF Bound(agent[s]) THEN @ ELSE c.agents[agent[s].view],
                                  !.physical = c.agents[agent[s].view], !.state = "ready"]
            [] OTHER -> agent[s]]
    /\ target' = [t \in Targets |->
          CASE Terminal(target[t]) \/ Releasing(target[t].owner) -> [target[t] EXCEPT !.physical = NoPlan]
            [] Live(target[t]) /\ ~Releasing(target[t].owner) ->
                 [target[t] EXCEPT !.bound = IF Bound(target[t]) THEN @ ELSE c.target,
                                   !.physical = c.target, !.state = "ready"]
            [] OTHER -> target[t]]
    /\ UNCHANGED <<op, crashes, faults>>

-------------------------------------------------------------------------------

Next ==
    \/ \E s \in Sessions, v \in Views : Acquire(s, v)
    \/ BindAgent
    \/ ProvisionAgent
    \/ AdvanceAgentReady
    \/ FailAttempt
    \/ RollbackAgent
    \/ DestroyAgent
    \/ \E t \in Targets, s \in Sessions : CreateTarget(t, s)
    \/ BindTarget
    \/ ProvisionTarget
    \/ AdvanceTargetReady
    \/ RollbackTarget
    \/ \E t \in Targets : DestroyTarget(t)
    \/ \E s \in Sessions : BeginRelease(s)
    \/ \E t \in Targets : ReleaseTarget(t)
    \/ \E s \in Sessions : ReleaseAgent(s)
    \/ Crash
    \/ \E c \in Configurations : Start(c)

Spec == Init /\ [][Next]_provisioningVars

-------------------------------------------------------------------------------

Exists(r) == r.physical # NoPlan

\* Whatever exists for a generation was built from the plan bound to it, even
\* when the configuration changed between the attempt and its retry or restart
\* (ApplyPersistedAgentProvisioningIdentity, ApplyPersistedTargetProvisioning-
\* Identity, bindAgentProvisioningPlan).
PhysicalIsBound ==
    /\ \A s \in Sessions : Exists(agent[s]) => agent[s].physical = agent[s].bound
    /\ \A t \in Targets : Exists(target[t]) => target[t].physical = target[t].bound

Built == MapThenSumSet(LAMBDA s : agent[s].physical.cost, LiveAgents)
             + MapThenSumSet(LAMBDA t : target[t].physical.cost, LiveTargets)

\* What the live generations physically hold stays within the limit of some
\* policy that is in force: the count is taken under the mutex that also covers
\* the mutation it admits (authoritativeResourceUsage, admitAggregateCandidate).
LiveWithinLimit ==
    Built > 0 => \E s \in LiveAgents : Built <= Limit[agent[s].pair]

\* A resource that outlives its generation, which the inventory no longer
\* counts, is the remains of a cleanup that failed; it goes with the lease or
\* the next restart.
UncountedIsFailed ==
    /\ \A s \in Sessions : Exists(agent[s]) /\ ~Live(agent[s]) => agent[s].state = "failed"
    /\ \A t \in Targets : Exists(target[t]) /\ ~Live(target[t]) => target[t].state = "failed"

\* resolvePersistedTargetGenerationPlan charges a destroyed target as if it were
\* to be created, beside the live ones.
ChargedThoughGone(c) ==
    \E t \in TargetsToResolve : ~Live(target[t]) /\ ResolvesTarget(c, t) /\ ~TargetAdmits(c, t)

\* The limits of one pair are checked against what was admitted under another.
MixedPairs == Cardinality({agent[s].pair : s \in Sessions} \ {"none"}) > 1

\* Whatever was admitted under a configuration, a restart under the same
\* configuration is refused only because a destroyed target is charged once more
\* or two policies disagree on the limit (resolvePersistedPhysicalPlans).
RestartRefusalIsExplained ==
    StartupAdmits(configured) \/ ChargedThoughGone(configured) \/ MixedPairs

\* A stopped daemon starts again with the configuration it ran with: admission
\* counts live resources (resolvePersistedPhysicalPlans, ResolveTarget).
AdmittedStateRestarts == ~up => StartupAdmits(configured)
===============================================================================
