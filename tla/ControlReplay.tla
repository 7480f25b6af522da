--------------------------- MODULE ControlReplay ---------------------------
(***************************************************************************)
(* The journal under ControlCore.  A handler commits its records first;    *)
(* syncLocked then replays them through the validators of                  *)
(* replay_validation.go, here and again at every start of the daemon.  A   *)
(* record that is committed and then refused is never passed: every later  *)
(* call, reads included, and every restart fails at it.  `wedged` is that  *)
(* situation.                                                              *)
(*                                                                         *)
(* A record is the aggregate as it stands after the step.  Where a         *)
(* transaction writes several records of one aggregate the path of states  *)
(* between them is the code's table, so an advance may take two edges.     *)
(***************************************************************************)
EXTENDS ControlCore

\* Identifiers of different kinds differ, as their prefixes make them.
ASSUME ReplayAssumption ==
    /\ {"session", "lease", "agent_workspace"} \cap (Execs \cup Targets \cup Incidents) = {}
    /\ Execs \cap Targets = {} /\ Execs \cap Incidents = {} /\ Targets \cap Incidents = {}

VARIABLES
    updatedAt,  \* UpdatedAt of the last record of each aggregate
    wedged      \* a committed record does not replay

replayVars == <<vars, updatedAt, wedged>>

Aggregates == {"session", "lease", "agent_workspace"} \cup Execs \cup Targets \cup Incidents

-----------------------------------------------------------------------------
(* The aggregates a step journals.                                         *)

Opened(i) == incidents[i].state = "none" /\ incidents'[i].state = "open"

\* CreateIncident also journals the exec and the target whose run it links.
ExecWritten(e) ==
    \/ execs'[e] # execs[e]
    \/ \E i \in Incidents : Opened(i) /\ incidents'[i].scope.exec = e

TargetWritten(t) ==
    \/ targetGen'[t] # targetGen[t]
    \/ \E r \in Runs : runs'[r] # runs[r] /\ runs'[r].target = t
    \/ \E o \in Ops : ops'[o] # ops[o] /\ runs[ops'[o].run].target = t
    \/ \E i \in Incidents : /\ Opened(i) /\ incidents'[i].scope.run # None
                            /\ incidents'[i].scope.target = t

LeaseWritten == \/ lease' # lease \/ leaseGeneration' # leaseGeneration
                \/ expiresAt' # expiresAt \/ termination' # termination

Written == {k \in Aggregates :
    \/ k = "session" /\ session' # session
    \/ k = "lease" /\ LeaseWritten
    \/ k = "agent_workspace" /\ agentGen' # agentGen
    \/ k \in Execs /\ ExecWritten(k)
    \/ k \in Targets /\ TargetWritten(k)
    \/ k \in Incidents /\ incidents'[k] # incidents[k]}

-----------------------------------------------------------------------------
(* replay_validation.go                                                    *)

\* requireReplayStateAdvance and requireNestedReplayStateAdvance.
StateAdvance(table, from, to) ==
    \/ from = to
    \/ <<from, to>> \in table
    \/ \E edge \in table : edge[1] = from /\ <<edge[2], to>> \in table

\* requireReplayGenerationAdvance.
GenerationAdvance(from, to) == to \in {from, from + 1}

\* validateReplaySessionProjection.
SessionReplays == session = "none" \/ StateAdvance(SessionTransitions, session, session')

\* validateReplayLeaseTermination.
LeaseTerminationValid ==
    CASE termination' = "none" -> lease' \notin {"releasing", "released", "expired"}
      [] termination' \in {"releasing", "released"} ->
           lease' = termination' /\ initiatedAt' < expiresAt'
      [] termination' \in {"expiring", "expired"} ->
           /\ lease' = IF termination' = "expiring" THEN "active" ELSE "expired"
           /\ initiatedAt' >= expiresAt'

\* validateReplayLeaseTerminationAdvance.
LeaseTerminationAdvance ==
    \/ termination = "none" /\ termination' \in {"none", "releasing", "expiring"}
    \/ /\ <<termination, termination'>> \in {<<"releasing", "released">>,
                                             <<"expiring", "expired">>}
       /\ initiatedAt' = initiatedAt

\* validateReplayLease: its own fields and the termination record in it.
LeaseValid == LeaseTerminationValid /\ initiatedAt' <= now'

\* validateReplayLeaseProjection.
LeaseReplays ==
    /\ LeaseValid
    /\ leaseGeneration' <= agentCurrent'
    /\ IF lease = "none" THEN lease' = "active" /\ termination' = "none"
       ELSE /\ GenerationAdvance(leaseGeneration, leaseGeneration')
            /\ expiresAt' >= expiresAt
            /\ termination' # "none" =>
                 expiresAt' = expiresAt /\ leaseGeneration' = leaseGeneration
            /\ LeaseTerminationAdvance
            /\ StateAdvance(LeaseTransitions, lease, lease')

\* validateGenerationSequence: every generation through the current one.
GenerationSequence(gens, current) ==
    \A g \in Generations : gens[g] # "none" <=> g <= current

\* validateReplayAgentWorkspace.
AgentValid == GenerationSequence(agentGen', agentCurrent')

\* validateAgentGenerationHistory.
AgentGenerationHistory ==
    \A g \in Generations : g <= agentCurrent =>
      /\ StateAdvance(AgentTransitions, agentGen[g], agentGen'[g])
      /\ agentRecovery'[g] = agentRecovery[g]

\* validateReplayAgentWorkspaceProjection.
AgentReplays ==
    /\ AgentValid
    /\ leaseGeneration' <= agentCurrent' /\ agentCurrent' - leaseGeneration <= 1
    /\ GenerationAdvance(agentCurrent, agentCurrent')
    /\ AgentGenerationHistory

\* validateReplayExecProjection.
ExecReplays(e) ==
    /\ execs'[e].generation \in 1..agentCurrent'
    /\ execs[e].state # "none" =>
         /\ execs'[e].generation = execs[e].generation
         /\ StateAdvance(ExecTransitions, execs[e].state, execs'[e].state)

RunsOf(t) == {r \in Runs : runs'[r].state # "none" /\ runs'[r].target = t}
OpsOf(t) == {o \in Ops : ops'[o].state # "none" /\ ops'[o].run \in RunsOf(t)}

\* validateReplayTarget: the generations and the runs of the record.  An
\* operation of the record names one of its runs by the choice of OpsOf.
TargetValid(t) ==
    /\ GenerationSequence(targetGen'[t], targetCurrent'[t])
    /\ \A r \in RunsOf(t) :
         /\ runs'[r].generation \in 1..targetCurrent'[t]
         /\ runs'[r].state \in {"completed", "failed"} => runs'[r].bundle # None

\* validateTargetGenerationHistory.
TargetGenerationHistory(t) ==
    \A g \in Generations : g <= targetCurrent[t] =>
      /\ StateAdvance(TargetTransitions, targetGen[t][g], targetGen'[t][g])
      /\ targetRecovery'[t][g] = targetRecovery[t][g]

\* validateTargetRunHistory.
RunHistory(r) ==
    runs[r].state # "none" =>
      /\ runs'[r] = [runs[r] EXCEPT !.state = runs'[r].state, !.bundle = runs'[r].bundle]
      /\ StateAdvance(RunTransitions, runs[r].state, runs'[r].state)
      /\ runs'[r].state = runs[r].state => runs'[r].bundle = runs[r].bundle

\* validateTargetOperationHistory.
OpHistory(o) ==
    ops[o].state # "none" =>
      /\ ops'[o].run = ops[o].run
      /\ StateAdvance(OperationTransitions, ops[o].state, ops'[o].state)

\* validateReplayTargetProjection.
TargetReplays(t) ==
    /\ TargetValid(t)
    /\ \A r \in RunsOf(t) : runs'[r].agentGeneration \in 1..agentCurrent'
    /\ GenerationAdvance(targetCurrent[t], targetCurrent'[t])
    /\ TargetGenerationHistory(t)
    /\ \A r \in RunsOf(t) : RunHistory(r)
    /\ \A o \in OpsOf(t) : OpHistory(o)

\* requireIncidentEvidenceAdvance.
EvidenceAdvance(i) ==
    LET old == incidents[i].evidence
        new == incidents'[i].evidence
    IN  \/ old = new
        \/ /\ incidents[i].state = "open" /\ incidents'[i].state = "evidence_sealed"
           /\ new.bundle # None /\ old.bundle \in {None, new.bundle}
           /\ old.artifacts \subseteq new.artifacts
           /\ old.artifacts # new.artifacts \/ old.bundle # new.bundle

\* validateReplayIncident: a sealed incident has evidence, a recovering one
\* says what is recovered.
IncidentValid(new) ==
    /\ new.state # "open" => new.evidence.bundle # None \/ new.evidence.artifacts # {}
    /\ new.state = "recovering" => new.intents # {}

\* validateReplayIncidentProjection.
IncidentReplays(i) ==
    LET scope == incidents'[i].scope
        new == incidents'[i]
    IN  /\ IncidentValid(new)
        /\ scope.agentGeneration <= agentCurrent'
        /\ scope.exec # None =>
             /\ execs'[scope.exec].state # "none"
             /\ execs'[scope.exec].generation = scope.agentGeneration
        /\ scope.target # None =>
             targetCurrent'[scope.target] > 0 /\ scope.targetGeneration <= targetCurrent'[scope.target]
        /\ scope.run # None =>
             /\ runs'[scope.run].target = scope.target
             /\ runs'[scope.run].generation = scope.targetGeneration
             /\ scope.agentGeneration \in {0, runs'[scope.run].agentGeneration}
        /\ incidents[i].state # "none" =>
             /\ scope = incidents[i].scope
             /\ EvidenceAdvance(i)
             /\ StateAdvance(IncidentTransitions, incidents[i].state, new.state)

\* requireReplayRevisionAdvance: UpdatedAt does not move backwards.
RevisionAdvance(k) == updatedAt[k] <= now'

\* The records of the step are all accepted.
Replays ==
    /\ \A k \in Written : RevisionAdvance(k)
    /\ "session" \in Written => SessionReplays
    /\ "lease" \in Written => LeaseReplays
    /\ "agent_workspace" \in Written => AgentReplays
    /\ \A e \in Execs \cap Written : ExecReplays(e)
    /\ \A t \in Targets \cap Written : TargetReplays(t)
    /\ \A i \in Incidents \cap Written : IncidentReplays(i)

-----------------------------------------------------------------------------

ReplayInit == Init /\ updatedAt = [k \in Aggregates |-> 0] /\ wedged = FALSE

\* syncLocked after the commit of a handler.
Sync ==
    /\ updatedAt' = [k \in Aggregates |-> IF k \in Written THEN now' ELSE updatedAt[k]]
    /\ wedged' = ~ Replays

\* Every handler, and every read, begins with a syncLocked that must succeed.
ReplayNext == ~ wedged /\ Next /\ Sync

\* The wall clock of the host is set back by a tick (an NTP step).
ClockStepsBack ==
    /\ ~ wedged /\ now > 0 /\ now' = now - 1
    /\ UNCHANGED <<leaseVars, agentVars, targetVars, workVars, incidents, updatedAt, wedged>>

ReplaySpec == ReplayInit /\ [][ReplayNext]_replayVars
SteppedSpec == ReplayInit /\ [][ReplayNext \/ ClockStepsBack]_replayVars

-----------------------------------------------------------------------------
(* Properties                                                              *)

\* "Replaying accepted transition records must reconstruct the same current
\* state" (docs/design.md): whatever a handler of Core commits passes the
\* validators that the next syncLocked, or the next start of the daemon,
\* applies to it.  The admission checks of the handlers and the checks of the
\* replay are written independently of one another.
CommittedRecordsReplay == ~ wedged
=============================================================================
