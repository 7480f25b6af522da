---------------------------- MODULE ReplayProofs ----------------------------
(***************************************************************************)
(* Whatever a handler of Core commits, the validators of                   *)
(* replay_validation.go accept, provided the clock does not move between   *)
(* two readings of one handler (ClockSlip = 0); it never moves back in     *)
(* ReplaySpec.  Both provisos are needed: the runs replay_slip and         *)
(* replay_stepped_clock refute the property without them.  First, what a   *)
(* step writes is an advance of the kind the validators ask for, one       *)
(* aggregate at a time: every state moves along edges of its table, two    *)
(* of them where a transaction writes a path, and everything that          *)
(* identifies a record is kept.                                            *)
(***************************************************************************)
EXTENDS ControlReplay, CoreProofs

-----------------------------------------------------------------------------
(* Advances.                                                               *)

\* A state that stays, or takes one edge, is an advance.
LEMMA OneEdge ==
    ASSUME NEW table, NEW from, NEW to, from = to \/ <<from, to>> \in table
    PROVE  StateAdvance(table, from, to)
  BY Zenon DEF StateAdvance

\* Two edges of one transaction are an advance.
LEMMA TwoEdges ==
    ASSUME NEW table, NEW from, NEW mid, NEW to, <<from, mid>> \in table, <<mid, to>> \in table
    PROVE  StateAdvance(table, from, to)
<1>1. <<from, mid>>[1] = from /\ <<from, mid>>[2] = mid
  BY Zenon
<1> QED
  BY <1>1, Zenon DEF StateAdvance

\* agentGenerationRetirementPath follows the table of agent generations.
LEMMA RetiredAgentAdvances ==
    ASSUME NEW s
    PROVE  StateAdvance(AgentTransitions, s, RetiredAgent(s))
<1>1. CASE s \in {"ready", "running"}
  <2>1. <<s, "quiescing">> \in AgentTransitions /\ <<"quiescing", "sealed">> \in AgentTransitions
    BY <1>1, Zenon DEF AgentTransitions
  <2> QED
    BY <1>1, <2>1, TwoEdges, Zenon DEF RetiredAgent
<1>2. CASE s \notin {"ready", "running"}
  <2>1. s = RetiredAgent(s) \/ <<s, RetiredAgent(s)>> \in AgentTransitions
    BY <1>2, Zenon DEF RetiredAgent, AgentTransitions, AgentLive
  <2> QED
    BY <2>1, OneEdge, Zenon
<1> QED
  BY <1>1, <1>2, Zenon

\* targetGenerationRetirementPath follows the table of target generations.
LEMMA RetiredTargetAdvances ==
    ASSUME NEW s
    PROVE  StateAdvance(TargetTransitions, s, RetiredTarget(s))
<1>1. CASE s = "ready"
  <2>1. <<s, "resettable">> \in TargetTransitions /\ <<"resettable", "destroyed">> \in TargetTransitions
    BY <1>1, Zenon DEF TargetTransitions
  <2> QED
    BY <1>1, <2>1, TwoEdges, Zenon DEF RetiredTarget
<1>2. CASE s # "ready"
  <2>1. s = RetiredTarget(s) \/ <<s, RetiredTarget(s)>> \in TargetTransitions
    BY <1>2, Zenon DEF RetiredTarget, TargetTransitions, TargetLive
  <2> QED
    BY <2>1, OneEdge, Zenon
<1> QED
  BY <1>1, <1>2, Zenon

\* ResetTarget retires a resettable generation and leaves a terminal one.
LEMMA ResetAdvances ==
    ASSUME NEW s
    PROVE  StateAdvance(TargetTransitions, s, IF s = "resettable" THEN "destroyed" ELSE s)
  BY OneEdge, Zenon DEF TargetTransitions

-----------------------------------------------------------------------------
(* Work: execs, runs and operations.                                       *)

\* An exec that exists keeps its generation and advances.
ExecAdvances(e) ==
    execs[e].state # "none" =>
      /\ execs'[e].generation = execs[e].generation
      /\ StateAdvance(ExecTransitions, execs[e].state, execs'[e].state)

\* Every handler advances every exec.
LEMMA ExecsAdvance ==
    ASSUME TypeOK, [Next]_vars, NEW e \in Execs
    PROVE  ExecAdvances(e)
<1> USE DEF TypeOK, ExecAdvances
<1>1. ASSUME NEW x \in Execs, CreateExec(x)
      PROVE  ExecAdvances(e)
  BY <1>1, OneEdge, Zenon DEF CreateExec, ExecRecords
<1>2. ASSUME NEW x \in Execs, NEW s \in ExecLive, TransitionExec(x, s)
      PROVE  ExecAdvances(e)
  BY <1>2, OneEdge, ZenonT(60) DEF TransitionExec, ExecRecords
<1>3. ASSUME NEW x \in Execs, NEW s \in ExecAsks, FinalizeExec(x, s)
      PROVE  ExecAdvances(e)
  BY <1>3, OneEdge, Zenon DEF FinalizeExec, ExecRecords
<1>4. CASE UNCHANGED execs
  BY <1>4, OneEdge, Zenon
<1>5. ASSUME NEW g \in Generations, NEW s \in AgentAsks, TransitionAgentGeneration(g, s)
      PROVE  UNCHANGED execs
  BY <1>5, Zenon DEF TransitionAgentGeneration, workVars
<1> HIDE DEF TypeOK, ExecAdvances
<1> QED
  BY <1>1, <1>2, <1>3, <1>4, <1>5, LeaseFrame, TargetFrame, IncidentFrame, Zenon
     DEF Next, AgentNext, vars, workVars

\* A run that exists keeps what identifies it, advances, and ends as completed
\* or failed only with a bundle.
RunAdvances(r) ==
    /\ RunHistory(r)
    /\ \/ runs'[r] = runs[r]
       \/ runs'[r].state \in {"completed", "failed"} => runs'[r].bundle # None

\* Transitions of a run leave its bundle alone.
LEMMA RunMoves ==
    ASSUME NEW r \in Runs, runs[r] \in RunRecords, NEW s,
           <<runs[r].state, s>> \in RunTransitions, s \notin {"completed", "failed"},
           runs'[r] = [runs[r] EXCEPT !.state = s]
    PROVE  RunAdvances(r)
<1>1. runs'[r].state = s /\ runs'[r].bundle = runs[r].bundle
  BY Zenon DEF RunRecords
<1>2. runs'[r] = [runs[r] EXCEPT !.state = s, !.bundle = runs[r].bundle]
  BY Zenon DEF RunRecords
<1>3. StateAdvance(RunTransitions, runs[r].state, s)
  BY OneEdge, Zenon
<1> QED
  BY <1>1, <1>2, <1>3, Zenon DEF RunAdvances, RunHistory

\* A run that no handler touches.
LEMMA RunStays ==
    ASSUME NEW r \in Runs, runs[r] \in RunRecords, runs'[r] = runs[r]
    PROVE  RunAdvances(r)
<1>1. runs[r] = [runs[r] EXCEPT !.state = runs[r].state, !.bundle = runs[r].bundle]
  BY Zenon DEF RunRecords
<1>2. StateAdvance(RunTransitions, runs[r].state, runs[r].state)
  BY OneEdge, Zenon
<1> QED
  BY <1>1, <1>2, Zenon DEF RunAdvances, RunHistory

\* FinalizeTargetRun writes a path of one or two records and binds the bundle.
LEMMA RunEnds ==
    ASSUME NEW r \in Runs, runs[r] \in RunRecords, NEW s \in {"completed", "failed"},
           NEW b \in Bundles,
           IF s = "failed" THEN runs[r].state \in RunLive
                           ELSE runs[r].state \in {"running", "finalizing"},
           runs'[r] = [runs[r] EXCEPT !.state = s, !.bundle = b]
    PROVE  RunAdvances(r)
<1>1. runs'[r].state = s /\ runs'[r].bundle = b
  BY Zenon DEF RunRecords
<1>2. StateAdvance(RunTransitions, runs[r].state, s)
  <2>1. CASE s = "failed" \/ runs[r].state = "finalizing"
    <3>1. <<runs[r].state, s>> \in RunTransitions
      BY <2>1, Zenon DEF RunTransitions, RunLive
    <3> QED
      BY <3>1, OneEdge, Zenon
  <2>2. CASE s = "completed" /\ runs[r].state = "running"
    <3>1. <<"running", "finalizing">> \in RunTransitions /\ <<"finalizing", "completed">> \in RunTransitions
      BY Zenon DEF RunTransitions
    <3> QED
      BY <2>2, <3>1, TwoEdges, Zenon
  <2> QED
    BY <2>1, <2>2, Zenon
<1>3. runs[r].state # s /\ b # None
  BY ControlCoreAssumption, Zenon DEF RunLive
<1> QED
  BY <1>1, <1>2, <1>3, Zenon DEF RunAdvances, RunHistory

\* Every handler advances every run.
LEMMA RunsAdvance ==
    ASSUME TypeOK, [Next]_vars, NEW r \in Runs
    PROVE  RunAdvances(r)
<1>0. runs \in [Runs -> RunRecords] /\ runs[r] \in RunRecords
  BY Zenon DEF TypeOK
<1>1. ASSUME NEW t \in Targets, NEW x \in Runs, StartTargetRun(x, t)
      PROVE  RunAdvances(r)
  <2>1. CASE r = x
    BY <1>0, <1>1, <2>1, ControlCoreAssumption DEF StartTargetRun, RunAdvances, RunHistory
  <2>2. CASE r # x
    BY <1>0, <1>1, <2>2, RunStays, Zenon DEF StartTargetRun
  <2> QED
    BY <2>1, <2>2, Zenon
<1>2. ASSUME NEW x \in Runs, NEW s \in RunAsks, TransitionTargetRun(x, s)
      PROVE  RunAdvances(r)
  <2>1. CASE r = x
    BY <1>0, <1>2, <2>1, RunMoves, Zenon DEF TransitionTargetRun
  <2>2. CASE r # x
    BY <1>0, <1>2, <2>2, RunStays, Zenon DEF TransitionTargetRun
  <2> QED
    BY <2>1, <2>2, Zenon
<1>3. ASSUME NEW x \in Runs, NEW s \in {"completed", "failed"}, NEW b \in Bundles,
             FinalizeTargetRun(x, s, b)
      PROVE  RunAdvances(r)
  <2>1. CASE r = x
    <3>1. runs'[r] = [runs[r] EXCEPT !.state = s, !.bundle = b]
      BY <1>0, <1>3, <2>1, Zenon DEF FinalizeTargetRun, BindOutcome
    <3> QED
      BY <1>0, <1>3, <2>1, <3>1, RunEnds, Zenon DEF FinalizeTargetRun
  <2>2. CASE r # x
    BY <1>0, <1>3, <2>2, RunStays, Zenon DEF FinalizeTargetRun, BindOutcome
  <2> QED
    BY <2>1, <2>2, Zenon
<1>4. ASSUME NEW t \in Targets, QuarantineTarget(t)
      PROVE  RunAdvances(r)
  <2>1. \/ runs'[r] = runs[r]
        \/ runs[r].state \in RunLive /\ runs'[r] = [runs[r] EXCEPT !.state = "quarantined"]
    BY <1>4, Zenon DEF QuarantineTarget
  <2>2. runs[r].state \in RunLive => <<runs[r].state, "quarantined">> \in RunTransitions
    BY Zenon DEF RunTransitions
  <2> QED
    BY <1>0, <2>1, <2>2, RunStays, RunMoves, Zenon
<1>5. ASSUME TargetNext, runs' # runs
      PROVE  \/ \E t \in Targets : QuarantineTarget(t) \/ \E x \in Runs : StartTargetRun(x, t)
             \/ \E x \in Runs : \/ \E s \in RunAsks : TransitionTargetRun(x, s)
                                \/ \E s \in {"completed", "failed"}, b \in Bundles :
                                     FinalizeTargetRun(x, s, b)
  BY <1>5, Zenon DEF TargetNext, CreateTarget, TransitionTargetGeneration, ResetTarget,
              CreateTargetOperation, TransitionTargetOperation, workVars
<1>6. CASE UNCHANGED runs
  BY <1>0, <1>6, RunStays, Zenon
<1> QED
  BY <1>1, <1>2, <1>3, <1>4, <1>5, <1>6, LeaseFrame, AgentFrame, IncidentFrame, Zenon
     DEF Next, vars, workVars

\* Every handler advances every operation and leaves it with its run.
LEMMA OpsAdvance ==
    ASSUME TypeOK, [Next]_vars, NEW o \in Ops
    PROVE  OpHistory(o)
<1> USE DEF TypeOK, OpHistory
<1>1. ASSUME NEW x \in Ops, NEW r \in Runs, CreateTargetOperation(x, r)
      PROVE  OpHistory(o)
  BY <1>1, OneEdge, Zenon DEF CreateTargetOperation, OpRecords
<1>2. ASSUME NEW x \in Ops, NEW s \in OpAsks, TransitionTargetOperation(x, s)
      PROVE  OpHistory(o)
  BY <1>2, OneEdge, Zenon DEF TransitionTargetOperation, OpRecords
<1>3. ASSUME NEW t \in Targets, QuarantineTarget(t)
      PROVE  OpHistory(o)
  <2>1. \/ ops'[o] = ops[o]
        \/ ops[o].state \in OperationLive /\ ops'[o] = [ops[o] EXCEPT !.state = "cancelled"]
    BY <1>3, Zenon DEF QuarantineTarget
  <2>2. ops[o].state \in OperationLive => <<ops[o].state, "cancelled">> \in OperationTransitions
    BY Zenon DEF OperationTransitions
  <2> QED
    BY <2>1, <2>2, OneEdge, Zenon DEF OpRecords
<1>4. ASSUME TargetNext, ops' # ops
      PROVE  \/ \E t \in Targets : QuarantineTarget(t)
             \/ \E x \in Ops : \/ \E r \in Runs : CreateTargetOperation(x, r)
                               \/ \E s \in OpAsks : TransitionTargetOperation(x, s)
  BY <1>4, Zenon DEF TargetNext, CreateTarget, TransitionTargetGeneration, ResetTarget, StartTargetRun,
              TransitionTargetRun, FinalizeTargetRun, BindOutcome, workVars
<1>5. CASE UNCHANGED ops
  BY <1>5, OneEdge, Zenon
<1> HIDE DEF TypeOK, OpHistory
<1> QED
  BY <1>1, <1>2, <1>3, <1>4, <1>5, LeaseFrame, AgentFrame, IncidentFrame, Zenon
     DEF Next, vars, workVars
-----------------------------------------------------------------------------
(* Generations.                                                            *)

\* A generation of the agent that exists advances.
AgentAdvances(g) ==
    g <= agentCurrent => StateAdvance(AgentTransitions, agentGen[g], agentGen'[g])

\* Every handler advances every generation of the agent.
LEMMA AgentsAdvance ==
    ASSUME TypeOK, LeasePhasesAgree, [Next]_vars, NEW g \in Generations
    PROVE  AgentAdvances(g)
<1>0. /\ agentGen \in [Generations -> AgentStates \cup {"none"}] /\ agentCurrent \in Nat
      /\ g \in Nat \ {0}
  BY ControlCoreAssumption DEF TypeOK, Generations
<1>1. ASSUME NEW ttl \in TTLs, AcquireResearchSession(ttl)
      PROVE  AgentAdvances(g)
  BY <1>0, <1>1 DEF AcquireResearchSession, LeasePhasesAgree, AgentAdvances
<1>2. CASE CompleteLeaseTermination
  <2>1. agentGen'[g] = IF g = agentCurrent THEN RetiredAgent(agentGen[g]) ELSE agentGen[g]
    BY <1>0, <1>2, Zenon DEF CompleteLeaseTermination
  <2> QED
    BY <2>1, OneEdge, RetiredAgentAdvances, Zenon DEF AgentAdvances
<1>3. ASSUME NEW h \in Generations, NEW s \in AgentAsks, TransitionAgentGeneration(h, s)
      PROVE  AgentAdvances(g)
  BY <1>0, <1>3, OneEdge, Zenon DEF TransitionAgentGeneration, AgentAdvances
<1>4. ASSUME NEW e \in Execs, NEW s \in ExecLive, TransitionExec(e, s)
      PROVE  AgentAdvances(g)
  <2>1. \/ agentGen'[g] = agentGen[g]
        \/ agentGen[g] \in {"ready", "running"} /\ agentGen'[g] = "running"
    BY <1>0, <1>4, Zenon DEF TransitionExec
  <2>2. <<"ready", "running">> \in AgentTransitions
    BY Zenon DEF AgentTransitions
  <2> QED
    BY <2>1, <2>2, OneEdge, Zenon DEF AgentAdvances
<1>5. ASSUME NEW i \in Incidents, RecoverAgent(i)
      PROVE  AgentAdvances(g)
  <2>1. agentGen' = Rollover(agentGen, agentCurrent, RetiredAgent(agentGen[agentCurrent]))
    BY <1>5, Zenon DEF RecoverAgent
  <2>2. g <= agentCurrent =>
          agentGen'[g] = IF g = agentCurrent THEN RetiredAgent(agentGen[g]) ELSE agentGen[g]
    BY <1>0, <2>1 DEF Rollover
  <2> QED
    BY <2>2, OneEdge, RetiredAgentAdvances, Zenon DEF AgentAdvances
<1>6. CASE UNCHANGED agentGen
  BY <1>6, OneEdge, Zenon DEF AgentAdvances
<1>7. ASSUME LeaseNext, ~ \E ttl \in TTLs : AcquireResearchSession(ttl), ~ CompleteLeaseTermination
      PROVE  UNCHANGED agentGen
  BY <1>7, Zenon DEF LeaseNext, RenewLease, BeginReleaseResearchSession, BeginDueLeaseExpiry, Tick,
              agentVars
<1>8. ASSUME IncidentNext, ~ \E i \in Incidents : RecoverAgent(i)
      PROVE  UNCHANGED agentGen
  BY <1>8, Zenon DEF IncidentNext, CreateIncident, TransitionIncident, RecoverTarget,
              CompleteIncidentRecovery, SealRunIncidents, agentVars
<1>9. ASSUME NEW e \in Execs, CreateExec(e) \/ \E s \in ExecAsks : FinalizeExec(e, s)
      PROVE  UNCHANGED agentGen
  BY <1>9, Zenon DEF CreateExec, FinalizeExec, agentVars
<1>10. CASE LeaseNext
  BY <1>1, <1>2, <1>6, <1>7, <1>10, Zenon
<1>11. CASE AgentNext
  BY <1>3, <1>4, <1>6, <1>9, <1>11, Zenon DEF AgentNext
<1>12. CASE TargetNext
  BY <1>6, <1>12, TargetFrame, Zenon DEF agentVars
<1>13. CASE IncidentNext
  BY <1>5, <1>6, <1>8, <1>13, Zenon
<1>14. CASE UNCHANGED vars
  BY <1>6, <1>14, Zenon DEF vars, agentVars
<1> QED
  BY <1>10, <1>11, <1>12, <1>13, <1>14, Zenon DEF Next

\* A generation of a target that exists advances.
TargetAdvances(t, g) ==
    g <= targetCurrent[t] => StateAdvance(TargetTransitions, targetGen[t][g], targetGen'[t][g])

\* ResetTarget and RecoverIncident retire the current generation of one target
\* along the table and touch no other generation that exists.
LEMMA MintAdvances ==
    ASSUME TypeOK, NEW x \in Targets, NEW old,
           targetGen' = [targetGen EXCEPT ![x] = Rollover(targetGen[x], targetCurrent[x], old)],
           StateAdvance(TargetTransitions, targetGen[x][targetCurrent[x]], old),
           NEW t \in Targets, NEW g \in Generations
    PROVE  TargetAdvances(t, g)
<1>1. targetCurrent[x] \in Nat /\ g \in Nat
  BY ControlCoreAssumption DEF TypeOK, Generations
<1>2. CASE t = x
  <2>1. g <= targetCurrent[x] =>
          targetGen'[t][g] = IF g = targetCurrent[x] THEN old ELSE targetGen[x][g]
    BY <1>1, <1>2 DEF Rollover, TypeOK
  <2> QED
    BY <1>2, <2>1, OneEdge, Zenon DEF TargetAdvances
<1>3. CASE t # x
  BY <1>3, OneEdge, Zenon DEF TargetAdvances, TypeOK
<1> QED
  BY <1>2, <1>3, Zenon

\* Every handler advances every generation of every target.
LEMMA TargetsAdvance ==
    ASSUME TypeOK, [Next]_vars, NEW t \in Targets, NEW g \in Generations
    PROVE  TargetAdvances(t, g)
<1>0. /\ targetGen \in [Targets -> [Generations -> TargetStates \cup {"none"}]]
      /\ targetCurrent \in [Targets -> Nat] /\ g \in Nat \ {0}
  BY ControlCoreAssumption DEF TypeOK, Generations
<1>a. ASSUME NEW x \in Targets, NEW h \in Generations, NEW s,
             targetGen' = [targetGen EXCEPT ![x][h] = s],
             targetGen[x][h] = s \/ <<targetGen[x][h], s>> \in TargetTransitions
      PROVE  TargetAdvances(t, g)
  <2>1. \/ targetGen'[t][g] = targetGen[t][g]
        \/ <<targetGen[t][g], targetGen'[t][g]>> \in TargetTransitions
    BY <1>0, <1>a, Zenon
  <2> QED
    BY <2>1, OneEdge, Zenon DEF TargetAdvances
<1>b. CASE UNCHANGED targetGen
  BY <1>b, OneEdge, Zenon DEF TargetAdvances
<1>1. ASSUME NEW x \in Targets, CreateTarget(x)
      PROVE  TargetAdvances(t, g)
  <2>1. CASE t = x
    BY <1>0, <1>1, <2>1 DEF CreateTarget, TargetAdvances
  <2>2. CASE t # x
    BY <1>0, <1>1, <2>2, OneEdge, Zenon DEF CreateTarget, TargetAdvances
  <2> QED
    BY <2>1, <2>2, Zenon
<1>2. ASSUME NEW x \in Targets, NEW h \in Generations, NEW s \in TargetAsks,
             TransitionTargetGeneration(x, h, s)
      PROVE  TargetAdvances(t, g)
  BY <1>2, <1>a, Zenon DEF TransitionTargetGeneration
<1>3. ASSUME NEW x \in Targets, QuarantineTarget(x)
      PROVE  TargetAdvances(t, g)
  <2>1. targetCurrent[x] \in Generations
    BY <1>3, ControlCoreAssumption, SMTT(60) DEF QuarantineTarget, TypeOK, Generations
  <2> QED
    BY <1>3, <1>a, <2>1, Zenon DEF QuarantineTarget
<1>4. ASSUME NEW x \in Targets, NEW i \in Incidents \cup {None}, ResetTarget(x, i)
      PROVE  TargetAdvances(t, g)
  BY <1>4, MintAdvances, ResetAdvances, Zenon DEF ResetTarget
<1>5. ASSUME NEW i \in Incidents, RecoverTarget(i)
      PROVE  TargetAdvances(t, g)
  <2> DEFINE x == incidents[i].scope.target
  <2>1. x \in Targets
    BY <1>5, Zenon DEF RecoverTarget, TypeOK, IncidentRecords, Scopes
  <2>2. targetGen' = [targetGen EXCEPT ![x] =
                        Rollover(targetGen[x], targetCurrent[x], RetiredTarget(targetGen[x][targetCurrent[x]]))]
    BY <1>5, Zenon DEF RecoverTarget
  <2> HIDE DEF x
  <2> QED
    BY <2>1, <2>2, MintAdvances, RetiredTargetAdvances, Zenon
<1>6. ASSUME NEW r \in Runs, NEW s \in {"completed", "failed"}, NEW b \in Bundles,
             FinalizeTargetRun(r, s, b)
      PROVE  TargetAdvances(t, g)
  <2>1. \/ targetGen'[t][g] = targetGen[t][g]
        \/ targetGen[t][g] = "ready" /\ targetGen'[t][g] = "resettable"
    BY <1>0, <1>6, Zenon DEF FinalizeTargetRun, BindOutcome
  <2>2. <<"ready", "resettable">> \in TargetTransitions
    BY Zenon DEF TargetTransitions
  <2> QED
    BY <2>1, <2>2, OneEdge, Zenon DEF TargetAdvances
<1>7. CASE CompleteLeaseTermination
  <2>1. targetGen'[t][g] = IF g = targetCurrent[t] THEN RetiredTarget(targetGen[t][g])
                                                   ELSE targetGen[t][g]
    BY <1>7, Zenon DEF CompleteLeaseTermination
  <2> QED
    BY <2>1, OneEdge, RetiredTargetAdvances, Zenon DEF TargetAdvances
<1>8. ASSUME LeaseNext, ~ CompleteLeaseTermination PROVE UNCHANGED targetGen
  BY <1>8, ZenonT(60) DEF LeaseNext, AcquireResearchSession, RenewLease, BeginReleaseResearchSession,
              BeginDueLeaseExpiry, Tick, targetVars
<1>9. ASSUME IncidentNext, ~ \E i \in Incidents : RecoverTarget(i) PROVE UNCHANGED targetGen
  BY <1>9, ZenonT(60) DEF IncidentNext, CreateIncident, TransitionIncident, RecoverAgent,
              CompleteIncidentRecovery, SealRunIncidents, targetVars
<1>10. ASSUME TargetNext, targetGen' # targetGen
       PROVE  \/ \E x \in Targets : \/ CreateTarget(x) \/ QuarantineTarget(x)
                                    \/ \E h \in Generations, s \in TargetAsks :
                                         TransitionTargetGeneration(x, h, s)
                                    \/ \E i \in Incidents \cup {None} : ResetTarget(x, i)
              \/ \E r \in Runs, s \in {"completed", "failed"}, b \in Bundles :
                   FinalizeTargetRun(r, s, b)
  BY <1>10, Zenon DEF TargetNext, StartTargetRun, TransitionTargetRun, CreateTargetOperation,
               TransitionTargetOperation, targetVars
<1>11. CASE LeaseNext
  BY <1>7, <1>8, <1>11, <1>b, Zenon
<1>12. CASE AgentNext
  BY <1>12, <1>b, AgentFrame, Zenon DEF targetVars
<1>13. CASE TargetNext
  BY <1>1, <1>2, <1>3, <1>4, <1>6, <1>10, <1>13, <1>b
<1>14. CASE IncidentNext
  BY <1>5, <1>9, <1>14, <1>b, Zenon
<1>15. CASE UNCHANGED vars
  BY <1>15, <1>b, Zenon DEF vars, targetVars
<1> QED
  BY <1>11, <1>12, <1>13, <1>14, <1>15, Zenon DEF Next
-----------------------------------------------------------------------------
(* Incidents.                                                              *)

\* An incident is created on resources that exist, or it keeps its scope and
\* takes one edge; it leaves "open" only with evidence, which it keeps, and
\* recovers only what it names.
IncidentAdvances(i) ==
    \/ incidents'[i] = incidents[i]
    \/ /\ incidents[i].state = "none" /\ incidents'[i].state = "open"
       /\ incidents'[i].scope \in Scopes /\ ScopeAdmitted(incidents'[i].scope)
    \/ /\ incidents'[i].scope = incidents[i].scope
       /\ <<incidents[i].state, incidents'[i].state>> \in IncidentTransitions
       /\ EvidenceAdvance(i)
       /\ incidents[i].state = "open" => HasEvidence(i)'
       /\ incidents[i].state # "open" => incidents'[i].evidence = incidents[i].evidence
       /\ incidents'[i].state = "recovering" => incidents'[i].intents # {}

\* Only SealRunIncidents writes evidence: every other transition keeps it.
LEMMA IncidentMoves ==
    ASSUME NEW i \in Incidents, incidents[i] \in IncidentRecords, NEW s, NEW intents,
           <<incidents[i].state, s>> \in IncidentTransitions,
           s = "evidence_sealed" => HasEvidence(i),
           s = "recovering" => intents # {},
           incidents'[i] = [incidents[i] EXCEPT !.state = s, !.intents = intents]
    PROVE  IncidentAdvances(i)
<1>1. /\ incidents'[i].state = s /\ incidents'[i].intents = intents
      /\ incidents'[i].scope = incidents[i].scope
      /\ incidents'[i].evidence = incidents[i].evidence
  BY Zenon DEF IncidentRecords
<1>2. incidents[i].state = "open" => s = "evidence_sealed"
  BY Zenon DEF IncidentTransitions
<1> QED
  BY <1>1, <1>2, Zenon DEF IncidentAdvances, EvidenceAdvance, HasEvidence

\* SealRunIncidents adds the bundle of the run to what is attached.
LEMMA IncidentSealed ==
    ASSUME NEW i \in Incidents, incidents[i] \in IncidentRecords, NEW b, b # None,
           incidents[i].state = "open", incidents[i].evidence.bundle \in {None, b},
           incidents'[i] = [incidents[i] EXCEPT
               !.state = "evidence_sealed",
               !.evidence = [bundle |-> b, artifacts |-> incidents[i].evidence.artifacts \cup {b}]]
    PROVE  IncidentAdvances(i)
<1> DEFINE old == incidents[i].evidence
           new == incidents'[i].evidence
<1>1. /\ incidents'[i].state = "evidence_sealed" /\ incidents'[i].scope = incidents[i].scope
      /\ new = [bundle |-> b, artifacts |-> old.artifacts \cup {b}]
  BY Zenon DEF IncidentRecords
<1>2. old \in Evidence
  BY Zenon DEF IncidentRecords
<1>3. new.bundle = b /\ new.artifacts = old.artifacts \cup {b}
  BY <1>1
<1>4. old.bundle = b /\ old.artifacts = old.artifacts \cup {b} => old = new
  BY <1>1, <1>2, Zenon DEF Evidence
<1>5. EvidenceAdvance(i)
  BY <1>1, <1>3, <1>4, Zenon DEF EvidenceAdvance
<1>6. HasEvidence(i)'
  BY <1>3, Zenon DEF HasEvidence
<1>7. <<"open", "evidence_sealed">> \in IncidentTransitions
  BY Zenon DEF IncidentTransitions
<1> QED
  BY <1>1, <1>5, <1>6, <1>7, Zenon DEF IncidentAdvances

\* Every handler advances every incident.
LEMMA IncidentsAdvance ==
    ASSUME TypeOK, [Next]_vars, NEW i \in Incidents
    PROVE  IncidentAdvances(i)
<1>0. incidents \in [Incidents -> IncidentRecords] /\ incidents[i] \in IncidentRecords
  BY Zenon DEF TypeOK
<1>1. CASE UNCHANGED incidents
  BY <1>1, Zenon DEF IncidentAdvances
<1>2. ASSUME NEW x \in Incidents, NEW scope \in ScopeAsks, NEW evidence \in EvidenceAsks,
             CreateIncident(x, scope, evidence)
      PROVE  IncidentAdvances(i)
  BY <1>0, <1>2, ControlCoreAssumption DEF CreateIncident, IncidentAdvances
<1> DEFINE Moved(x, s, intents) ==
      incidents' = [incidents EXCEPT ![x].state = s, ![x].intents = intents]
<1>3. ASSUME NEW x \in Incidents, NEW s, NEW intents,
             <<incidents[x].state, s>> \in IncidentTransitions,
             s = "evidence_sealed" => HasEvidence(x),
             s = "recovering" => intents # {},
             Moved(x, s, intents)
      PROVE  IncidentAdvances(i)
  <2>1. CASE i = x
    <3>1. incidents'[i] = [incidents[i] EXCEPT !.state = s, !.intents = intents]
      BY <1>0, <1>3, <2>1, Zenon
    <3> QED
      BY <1>0, <1>3, <2>1, <3>1, IncidentMoves, Zenon
  <2>2. CASE i # x
    BY <1>0, <1>3, <2>2, Zenon DEF IncidentAdvances
  <2> QED
    BY <2>1, <2>2, Zenon
<1>4. ASSUME NEW x \in Incidents, NEW s \in IncidentStates, NEW intents \in IntentAsks,
             TransitionIncident(x, s, intents)
      PROVE  IncidentAdvances(i)
  BY <1>3, <1>4, Zenon DEF TransitionIncident
<1>5. ASSUME NEW x \in Incidents, RecoverTarget(x)
      PROVE  IncidentAdvances(i)
  <2>1. <<incidents[x].state, "recovering">> \in IncidentTransitions
    BY <1>5, Zenon DEF RecoverTarget, IncidentTransitions
  <2>2. incidents[x].intents \cup {"target"} # {}
    BY Zenon
  <2>3. Moved(x, "recovering", incidents[x].intents \cup {"target"})
    BY <1>5, Zenon DEF RecoverTarget
  <2> HIDE DEF Moved
  <2> QED
    BY <1>3, <2>1, <2>2, <2>3
<1>6. ASSUME NEW x \in Incidents, RecoverAgent(x)
      PROVE  IncidentAdvances(i)
  <2>1. <<incidents[x].state, "recovering">> \in IncidentTransitions
    BY <1>6, Zenon DEF RecoverAgent, IncidentTransitions
  <2>2. incidents[x].intents \cup {"agent"} # {}
    BY Zenon
  <2>3. Moved(x, "recovering", incidents[x].intents \cup {"agent"})
    BY <1>6, Zenon DEF RecoverAgent
  <2> HIDE DEF Moved
  <2> QED
    BY <1>3, <2>1, <2>2, <2>3
<1>7. ASSUME NEW x \in Incidents, CompleteIncidentRecovery(x)
      PROVE  IncidentAdvances(i)
  <2>1. <<incidents[x].state, "resolved">> \in IncidentTransitions
    BY <1>7, Zenon DEF CompleteIncidentRecovery, IncidentTransitions
  <2>2. Moved(x, "resolved", incidents[x].intents)
    BY <1>0, <1>7, Zenon DEF CompleteIncidentRecovery, IncidentRecords
  <2> HIDE DEF Moved
  <2> QED
    BY <1>3, <2>1, <2>2
<1>8. ASSUME NEW r \in Runs, NEW sealed \in SUBSET Incidents, SealRunIncidents(r, sealed)
      PROVE  IncidentAdvances(i)
  <2> DEFINE b == runs[r].bundle
  <2>1. CASE i \in sealed /\ incidents[i].state = "open"
    <3>1. incidents'[i] = [incidents[i] EXCEPT
               !.state = "evidence_sealed",
               !.evidence = [bundle |-> b, artifacts |-> incidents[i].evidence.artifacts \cup {b}]]
      BY <1>8, <2>1, Zenon DEF SealRunIncidents
    <3>2. b # None /\ incidents[i].evidence.bundle \in {None, b}
      BY <1>8, <2>1, Zenon DEF SealRunIncidents
    <3> HIDE DEF b
    <3> QED
      BY <1>0, <2>1, <3>1, <3>2, IncidentSealed, Zenon
  <2>2. CASE ~ (i \in sealed /\ incidents[i].state = "open")
    BY <1>8, <2>2, Zenon DEF SealRunIncidents, IncidentAdvances
  <2> QED
    BY <2>1, <2>2, Zenon
<1>9. CASE IncidentNext
  BY <1>2, <1>4, <1>5, <1>6, <1>7, <1>8, <1>9, Zenon DEF IncidentNext
<1> QED
  BY <1>1, <1>9, LeaseFrame, AgentFrame, TargetFrame, Zenon DEF Next, vars

-----------------------------------------------------------------------------
(* The inductive invariant.  A validator compares a record with its        *)
(* predecessor and with the records it names, so the invariant says what   *)
(* the handlers never check again after the record was first admitted.     *)

\* A release began before the deadline, and no termination in the future.
LeaseStamps ==
    /\ initiatedAt <= now
    /\ termination \in {"releasing", "released"} => initiatedAt < expiresAt

\* What an incident was admitted for still exists and still agrees with it.
ScopesStand == \A i \in Incidents : ScopeAdmitted(incidents[i].scope)

\* An incident that was sealed has its evidence, recovered or not.
SealedHasEvidence ==
    \A i \in Incidents : incidents[i].state \notin {"none", "open"} => HasEvidence(i)

\* A completed or failed run has its bundle.
OutcomeHasBundle ==
    \A r \in Runs : runs[r].state \in {"completed", "failed"} => runs[r].bundle # None

CoreReplayInv == LeaseStamps /\ ScopesStand /\ SealedHasEvidence /\ OutcomeHasBundle

\* The invariants of ControlCore the argument rests on.
CoreFacts == /\ TypeOK /\ LeasePhasesAgree /\ ReferencesResolve /\ ExpiryOnlyWhenDue

\* No record is stamped in the future.
UpdatedInPast ==
    updatedAt \in [Aggregates -> Int] /\ \A k \in Aggregates : updatedAt[k] <= now

-----------------------------------------------------------------------------
(* Time and leases.                                                        *)

\* The clock Core reads never moves back.
LEMMA ClockAdvances ==
    ASSUME TypeOK, [Next]_vars
    PROVE  now' \in Int /\ now <= now'
<1>1. now \in Int /\ MaxTime \in Int /\ ClockSlip \in Int
  BY ControlCoreAssumption DEF TypeOK
<1>2. CASE LeaseNext
  BY <1>1, <1>2 DEF LeaseNext, AcquireResearchSession, RenewLease, BeginReleaseResearchSession,
                    BeginDueLeaseExpiry, CompleteLeaseTermination, Tick, SecondRead
<1> QED
  BY <1>1, <1>2, AgentFrame, TargetFrame, IncidentFrame DEF Next, vars

\* What a step does to the lease record: it is acquired, renewed, re-bound to
\* the next agent generation, or its termination begins or completes.
LeaseStep ==
    \/ UNCHANGED <<session, lease, leaseGeneration, expiresAt, termination, initiatedAt>>
    \/ /\ session = "none" /\ session' = "leased" /\ lease' = "active"
       /\ UNCHANGED <<now, termination, initiatedAt>>
    \/ /\ LeaseActive(now) /\ expiresAt' >= expiresAt
       /\ UNCHANGED <<session, lease, termination, initiatedAt>>
    \/ /\ session = "leased" /\ session' = "releasing" /\ termination = "none"
       /\ UNCHANGED <<leaseGeneration, expiresAt>>
       /\ initiatedAt' = now' /\ now' = now
       /\ \/ LeaseActive(now) /\ lease' = "releasing" /\ termination' = "releasing"
          \/ lease' = lease /\ termination' = "expiring"
    \/ /\ TerminationInProgress
       /\ <<lease, lease'>> \in LeaseTransitions /\ <<session, session'>> \in SessionTransitions
       /\ lease' = termination'
       /\ termination' = IF termination = "releasing" THEN "released" ELSE "expired"
       /\ UNCHANGED <<now, leaseGeneration, expiresAt, initiatedAt>>

\* Every handler treats the lease in one of these ways.
LEMMA LeaseSteps ==
    ASSUME ClockSlip = 0, TypeOK, [Next]_vars
    PROVE  LeaseStep
<1>0. now \in Int /\ expiresAt \in Int /\ MaxTime \in Int /\ TTLs \subseteq Nat
  BY ControlCoreAssumption DEF TypeOK
<1>1. \A at \in SecondRead : at = now
  BY <1>0 DEF SecondRead
<1>2. ASSUME NEW ttl \in TTLs, AcquireResearchSession(ttl) PROVE LeaseStep
  BY <1>2, Zenon DEF AcquireResearchSession, LeaseStep
<1>3. ASSUME NEW ttl \in TTLs, RenewLease(ttl) PROVE LeaseStep
  <2>1. expiresAt' >= expiresAt
    BY <1>0, <1>1, <1>3 DEF RenewLease
  <2> QED
    BY <1>3, <2>1, Zenon DEF RenewLease, LeaseStep
<1>4. CASE BeginReleaseResearchSession
  BY <1>1, <1>4, Zenon DEF BeginReleaseResearchSession, LeaseActive, LeaseStep
<1>5. CASE BeginDueLeaseExpiry
  BY <1>1, <1>5, Zenon DEF BeginDueLeaseExpiry, LeaseStep
<1>6. CASE CompleteLeaseTermination
  BY <1>6, Zenon DEF CompleteLeaseTermination, LeaseStep
<1>7. CASE Tick
  BY <1>7, Zenon DEF Tick, leaseVars, LeaseStep
<1>8. CASE LeaseNext
  BY <1>2, <1>3, <1>4, <1>5, <1>6, <1>7, <1>8, Zenon DEF LeaseNext
<1>9. ASSUME NEW i \in Incidents, RecoverAgent(i) PROVE LeaseStep
  BY <1>0, <1>9 DEF RecoverAgent, LeaseStep
<1>10. ASSUME IncidentNext, ~ \E i \in Incidents : RecoverAgent(i) PROVE UNCHANGED leaseVars
  BY <1>10, Zenon DEF IncidentNext, CreateIncident, TransitionIncident, RecoverTarget,
               CompleteIncidentRecovery, SealRunIncidents
<1>11. UNCHANGED leaseVars => LeaseStep
  BY Zenon DEF leaseVars, LeaseStep
<1> QED
  BY <1>8, <1>9, <1>10, <1>11, AgentFrame, TargetFrame, Zenon DEF Next, vars

\* validateReplaySessionProjection accepts the session of every step.
LEMMA SessionAccepted ==
    ASSUME LeasePhasesAgree, LeaseStep
    PROVE  SessionReplays
<1>1. <<"leased", "releasing">> \in SessionTransitions
  BY Zenon DEF SessionTransitions
<1>2. session = "none" \/ session' = session \/ <<session, session'>> \in SessionTransitions
  BY <1>1, Zenon DEF LeaseStep
<1> QED
  BY <1>2, OneEdge, Zenon DEF SessionReplays

\* validateReplayLeaseProjection accepts every lease that is written.
LEMMA LeaseAccepted ==
    ASSUME CoreFacts, CoreFacts', LeaseStamps, LeaseStep, LeaseWritten, [Next]_vars
    PROVE  LeaseReplays
<1>1. /\ leaseGeneration' = agentCurrent' /\ leaseGeneration = agentCurrent
      /\ agentCurrent \in Int /\ agentCurrent' \in Int
      /\ expiresAt \in Int /\ initiatedAt \in Int /\ now \in Int /\ now' \in Int
      /\ expiresAt' \in Int /\ initiatedAt' \in Int
      /\ <<session, lease, termination>> \in
           {<<"none", "none", "none">>, <<"leased", "active", "none">>,
            <<"releasing", "releasing", "releasing">>, <<"releasing", "active", "expiring">>,
            <<"released", "released", "released">>, <<"released", "expired", "expired">>}
  BY ControlCoreAssumption DEF CoreFacts, TypeOK, LeasePhasesAgree
<1>2. GenerationAdvance(leaseGeneration, leaseGeneration')
  BY <1>1, AgentSteps, Zenon DEF CoreFacts, AgentRolls, GenerationAdvance
<1>3. now <= now'
  BY ClockAdvances, Zenon DEF CoreFacts
<1>4. ASSUME session = "none", session' = "leased", lease' = "active",
             UNCHANGED <<now, termination, initiatedAt>>
      PROVE  LeaseReplays
  BY <1>1, <1>4 DEF LeaseReplays, LeaseValid, LeaseTerminationValid, LeaseStamps
<1>5. ASSUME LeaseActive(now), expiresAt' >= expiresAt,
             UNCHANGED <<session, lease, termination, initiatedAt>>
      PROVE  LeaseReplays
  <2>1. StateAdvance(LeaseTransitions, lease, lease')
    BY <1>5, OneEdge, Zenon
  <2> QED
    BY <1>1, <1>2, <1>3, <1>5, <2>1 DEF LeaseReplays, LeaseValid, LeaseTerminationValid,
       LeaseTerminationAdvance, LeaseStamps, LeaseActive
<1>6. ASSUME session = "leased", termination = "none", UNCHANGED <<leaseGeneration, expiresAt>>,
             initiatedAt' = now', now' = now,
             LeaseActive(now), lease' = "releasing", termination' = "releasing"
      PROVE  LeaseReplays
  <2>1. <<"active", "releasing">> \in LeaseTransitions
    BY Zenon DEF LeaseTransitions
  <2>2. StateAdvance(LeaseTransitions, lease, lease')
    BY <1>6, <2>1, OneEdge, Zenon DEF LeaseActive
  <2> QED
    BY <1>1, <1>2, <1>6, <2>2 DEF LeaseReplays, LeaseValid, LeaseTerminationValid,
       LeaseTerminationAdvance, LeaseActive
<1>7. ASSUME session = "leased", termination = "none", UNCHANGED <<leaseGeneration, expiresAt>>,
             initiatedAt' = now', now' = now, lease' = lease, termination' = "expiring"
      PROVE  LeaseReplays
  <2>1. StateAdvance(LeaseTransitions, lease, lease')
    BY <1>7, OneEdge, Zenon
  <2>2. initiatedAt' >= expiresAt'
    BY <1>7, Zenon DEF CoreFacts, ExpiryOnlyWhenDue
  <2> QED
    BY <1>1, <1>2, <1>7, <2>1, <2>2 DEF LeaseReplays, LeaseValid, LeaseTerminationValid,
       LeaseTerminationAdvance
<1>8. ASSUME TerminationInProgress, <<lease, lease'>> \in LeaseTransitions, lease' = termination',
             termination' = (IF termination = "releasing" THEN "released" ELSE "expired"),
             UNCHANGED <<now, leaseGeneration, expiresAt, initiatedAt>>
      PROVE  LeaseReplays
  <2>1. StateAdvance(LeaseTransitions, lease, lease')
    BY <1>8, OneEdge, Zenon
  <2>2. /\ termination = "releasing" => initiatedAt < expiresAt
        /\ termination = "expiring" => initiatedAt >= expiresAt
        /\ initiatedAt <= now
    BY Zenon DEF CoreFacts, ExpiryOnlyWhenDue, LeaseStamps
  <2>3. termination \in {"releasing", "expiring"} /\ lease # "none"
    BY <1>1, <1>8, Zenon DEF TerminationInProgress
  <2>4. LeaseTerminationAdvance
    BY <1>8, <2>3, Zenon DEF LeaseTerminationAdvance
  <2>5. LeaseTerminationValid
    BY <1>8, <2>2, <2>3, Zenon DEF LeaseTerminationValid
  <2>6. LeaseValid
    BY <1>8, <2>2, <2>5, Zenon DEF LeaseValid
  <2> QED
    BY <1>1, <1>2, <1>8, <2>1, <2>3, <2>4, <2>6 DEF LeaseReplays
<1>9. ~ UNCHANGED <<session, lease, leaseGeneration, expiresAt, termination, initiatedAt>>
  BY Zenon DEF LeaseWritten
<1> QED
  BY <1>4, <1>5, <1>6, <1>7, <1>8, <1>9, Zenon DEF LeaseStep

\* validateReplayAgentWorkspaceProjection accepts the workspace of every step.
LEMMA AgentAccepted ==
    ASSUME CoreFacts, CoreFacts', [Next]_vars
    PROVE  AgentReplays
<1>1. /\ leaseGeneration' = agentCurrent' /\ leaseGeneration = agentCurrent
      /\ agentCurrent \in Int /\ agentCurrent' \in Int
  BY ControlCoreAssumption DEF CoreFacts, TypeOK, LeasePhasesAgree
<1>2. agentCurrent' = agentCurrent \/ agentCurrent' = agentCurrent + 1
  BY AgentSteps, Zenon DEF CoreFacts, AgentRolls
<1>3. AgentValid
  BY <1>1, ControlCoreAssumption DEF CoreFacts, ReferencesResolve, AgentValid, GenerationSequence,
     Generations
<1>4. AgentGenerationHistory
  <2>1. ASSUME NEW g \in Generations, g <= agentCurrent
        PROVE  /\ StateAdvance(AgentTransitions, agentGen[g], agentGen'[g])
               /\ agentRecovery'[g] = agentRecovery[g]
    <3>1. StateAdvance(AgentTransitions, agentGen[g], agentGen'[g])
      BY <2>1, AgentsAdvance, Zenon DEF CoreFacts, AgentAdvances
    <3>2. agentRecovery'[g] = agentRecovery[g]
      BY <1>1, <2>1, AgentClaims DEF CoreFacts, AgentClaimStep
    <3> QED
      BY <3>1, <3>2, Zenon
  <2> QED
    BY <2>1, Zenon DEF AgentGenerationHistory
<1>5. leaseGeneration' <= agentCurrent' /\ agentCurrent' - leaseGeneration <= 1
  <2>1. ASSUME NEW a \in Int, NEW b \in Int, b = a \/ b = a + 1
        PROVE  b <= b /\ b - a <= 1
    BY <2>1
  <2> QED
    BY ONLY <1>1, <1>2, <2>1, Zenon
<1>6. GenerationAdvance(agentCurrent, agentCurrent')
  BY <1>2, Zenon DEF GenerationAdvance
<1> QED
  BY <1>3, <1>4, <1>5, <1>6, Zenon DEF AgentReplays
-----------------------------------------------------------------------------
(* Work, targets and incidents.                                            *)

\* Nothing an incident names is ever deleted or renumbered.
LEMMA ScopeStays ==
    ASSUME CoreFacts, [Next]_vars, NEW scope \in Scopes, ScopeAdmitted(scope)
    PROVE  ScopeAdmitted(scope)'
<1>0. /\ TypeOK /\ agentCurrent \in Int /\ scope.agentGeneration \in Int
      /\ scope.targetGeneration \in Int
      /\ scope.exec \in Execs \cup {None} /\ scope.target \in Targets \cup {None}
      /\ scope.run \in Runs \cup {None}
  BY ControlCoreAssumption DEF CoreFacts, TypeOK, Scopes
<1>1. agentCurrent' \in Int /\ agentCurrent <= agentCurrent'
  BY <1>0, AgentSteps DEF CoreFacts, AgentRolls
<1>2. ASSUME scope.exec # None
      PROVE  /\ execs'[scope.exec].state # "none"
             /\ execs'[scope.exec].generation = scope.agentGeneration
  <2>1. /\ scope.exec \in Execs /\ execs[scope.exec].state # "none"
        /\ execs[scope.exec].generation = scope.agentGeneration
    BY <1>0, <1>2, Zenon DEF ScopeAdmitted
  <2> QED
    BY <1>0, <2>1, ExecSteps, Zenon DEF ExecStep, ExecStates, ExecLive, ExecTerminal
<1>3. ASSUME scope.target # None
      PROVE  /\ targetCurrent'[scope.target] > 0
             /\ scope.targetGeneration <= targetCurrent'[scope.target]
  <2>1. /\ scope.target \in Targets /\ targetCurrent[scope.target] \in Int
        /\ targetCurrent[scope.target] > 0
        /\ scope.targetGeneration <= targetCurrent[scope.target]
    BY <1>0, <1>3, ControlCoreAssumption, SMTT(60) DEF ScopeAdmitted, TypeOK
  <2>2. \/ targetCurrent'[scope.target] = targetCurrent[scope.target]
        \/ targetCurrent'[scope.target] = targetCurrent[scope.target] + 1
    BY <1>0, <2>1, TargetSteps, SMTT(60) DEF TargetRolls, TypeOK
  <2> QED
    BY <1>0, <2>1, <2>2
<1>4. ASSUME scope.run # None
      PROVE  /\ runs'[scope.run].target = scope.target
             /\ runs'[scope.run].generation = scope.targetGeneration
             /\ scope.agentGeneration \in {0, runs'[scope.run].agentGeneration}
  <2>1. /\ scope.run \in Runs /\ scope.target # None
        /\ runs[scope.run].target = scope.target
        /\ runs[scope.run].generation = scope.targetGeneration
        /\ scope.agentGeneration \in {0, runs[scope.run].agentGeneration}
    BY <1>0, <1>4, Zenon DEF ScopeAdmitted
  <2>2. runs[scope.run].state # "none"
    BY <2>1, Zenon DEF CoreFacts, ReferencesResolve
  <2> QED
    BY <1>0, <2>1, <2>2, RunSteps, SMTT(30) DEF RunStep
<1>5. scope.target = None => scope.targetGeneration = 0 /\ scope.run = None
  BY Zenon DEF ScopeAdmitted
<1>6. scope.agentGeneration <= agentCurrent'
  BY <1>0, <1>1 DEF ScopeAdmitted
<1> QED
  BY <1>2, <1>3, <1>4, <1>5, <1>6, Zenon DEF ScopeAdmitted

\* Every handler preserves the invariant.
LEMMA CoreReplayInvNext ==
    ASSUME ClockSlip = 0, CoreFacts, CoreFacts', CoreReplayInv, [Next]_vars
    PROVE  CoreReplayInv'
<1>0. TypeOK /\ LeasePhasesAgree
  BY Zenon DEF CoreFacts
<1>1. LeaseStamps'
  <2>1. /\ now \in Int /\ now' \in Int /\ now <= now'
        /\ initiatedAt \in Int /\ expiresAt \in Int
    BY <1>0, ClockAdvances, ControlCoreAssumption DEF TypeOK
  <2>2. LeaseStep
    BY <1>0, LeaseSteps, Zenon
  <2>3. session = "none" => termination = "none"
    BY <1>0, ZenonT(60) DEF LeasePhasesAgree
  <2> QED
    BY <2>1, <2>2, <2>3 DEF LeaseStep, LeaseStamps, CoreReplayInv, LeaseActive, TerminationInProgress
<1>2. ASSUME NEW i \in Incidents
      PROVE  ScopeAdmitted(incidents[i].scope)'
  <2>1. IncidentAdvances(i)
    BY <1>0, IncidentsAdvance, Zenon
  <2>2. incidents[i].scope \in Scopes /\ ScopeAdmitted(incidents[i].scope)
    BY <1>0, Zenon DEF TypeOK, IncidentRecords, CoreReplayInv, ScopesStand
  <2>3. incidents'[i].scope \in Scopes /\ ScopeAdmitted(incidents'[i].scope)
    BY <2>1, <2>2, SMTT(30) DEF IncidentAdvances
  <2>4. PICK s \in Scopes : s = incidents'[i].scope
    BY <2>3, Zenon
  <2>5. ScopeAdmitted(s)
    BY <2>3, <2>4, Zenon
  <2>6. ScopeAdmitted(s)'
    BY <2>5, ScopeStays, Zenon
  <2> QED
    BY <2>4, <2>6, SMTT(30) DEF ScopeAdmitted
<1>3. ASSUME NEW i \in Incidents, incidents'[i].state \notin {"none", "open"}
      PROVE  HasEvidence(i)'
  <2>1. IncidentAdvances(i)
    BY <1>0, IncidentsAdvance, Zenon
  <2>2. \/ incidents[i].state \notin {"none", "open"} /\ incidents'[i].evidence = incidents[i].evidence
        \/ HasEvidence(i)'
    BY <1>3, <2>1, Zenon DEF IncidentAdvances, IncidentTransitions
  <2> QED
    BY <2>2, Zenon DEF CoreReplayInv, SealedHasEvidence, HasEvidence
<1>4. OutcomeHasBundle'
  BY <1>0, RunsAdvance, Zenon DEF RunAdvances, CoreReplayInv, OutcomeHasBundle
<1> QED
  BY <1>1, <1>2, <1>3, <1>4, Zenon DEF CoreReplayInv, ScopesStand, SealedHasEvidence

\* validateReplayExecProjection accepts every exec that is written, be it only
\* for the incident that names it.
LEMMA ExecAccepted ==
    ASSUME CoreFacts, CoreFacts', CoreReplayInv', [Next]_vars, NEW e \in Execs, ExecWritten(e)
    PROVE  ExecReplays(e)
<1>1. TypeOK
  BY Zenon DEF CoreFacts
<1>2. execs'[e].state # "none"
  <2>1. CASE execs'[e] # execs[e]
    BY <1>1, <2>1, ExecSteps, Zenon DEF ExecStep, ExecStates, ExecLive, ExecTerminal
  <2>2. ASSUME NEW i \in Incidents, incidents'[i].scope.exec = e
        PROVE  execs'[e].state # "none"
    BY <2>2, ControlCoreAssumption, Zenon DEF CoreReplayInv, ScopesStand, ScopeAdmitted
  <2> QED
    BY <2>1, <2>2, Zenon DEF ExecWritten
<1>3. execs'[e].generation \in 1..agentCurrent'
  BY <1>2, SMTT(30) DEF CoreFacts, ReferencesResolve
<1> QED
  BY <1>1, <1>3, ExecsAdvance, Zenon DEF ExecReplays, ExecAdvances

\* validateReplayTargetProjection accepts the target of every step.
LEMMA TargetAccepted ==
    ASSUME CoreFacts, CoreFacts', CoreReplayInv', [Next]_vars, NEW t \in Targets
    PROVE  TargetReplays(t)
<1>0. TypeOK /\ targetCurrent[t] \in Int /\ targetCurrent'[t] \in Int
  BY ControlCoreAssumption DEF CoreFacts, TypeOK
<1>1. ASSUME NEW r \in RunsOf(t)
      PROVE  /\ runs'[r].generation \in 1..targetCurrent'[t]
             /\ runs'[r].agentGeneration \in 1..agentCurrent'
             /\ runs'[r].state \in {"completed", "failed"} => runs'[r].bundle # None
             /\ RunHistory(r)
  <2>1. r \in Runs /\ runs'[r].state # "none" /\ runs'[r].target = t
    BY <1>1, Zenon DEF RunsOf
  <2>2. runs'[r].generation \in 1..targetCurrent'[t] /\ runs'[r].agentGeneration \in 1..agentCurrent'
    BY <2>1, SMTT(30) DEF CoreFacts, ReferencesResolve
  <2>3. runs'[r].state \in {"completed", "failed"} => runs'[r].bundle # None
    BY <2>1, Zenon DEF CoreReplayInv, OutcomeHasBundle
  <2>4. RunHistory(r)
    BY <1>0, <2>1, RunsAdvance, Zenon DEF RunAdvances
  <2> QED
    BY <2>2, <2>3, <2>4, Zenon
<1>2. \A o \in OpsOf(t) : OpHistory(o)
  BY <1>0, OpsAdvance, Zenon DEF OpsOf
<1>3. GenerationSequence(targetGen'[t], targetCurrent'[t])
  BY <1>0, ControlCoreAssumption DEF CoreFacts, ReferencesResolve, GenerationSequence, Generations
<1>4. GenerationAdvance(targetCurrent[t], targetCurrent'[t])
  BY <1>0, TargetSteps, SMTT(30) DEF TargetRolls, GenerationAdvance, TypeOK
<1>5. TargetGenerationHistory(t)
  <2>1. ASSUME NEW g \in Generations, g <= targetCurrent[t]
        PROVE  /\ StateAdvance(TargetTransitions, targetGen[t][g], targetGen'[t][g])
               /\ targetRecovery'[t][g] = targetRecovery[t][g]
    <3>1. StateAdvance(TargetTransitions, targetGen[t][g], targetGen'[t][g])
      BY <1>0, <2>1, TargetsAdvance, Zenon DEF TargetAdvances
    <3>2. targetRecovery'[t][g] = targetRecovery[t][g]
      BY <1>0, <2>1, TargetClaims, SMTT(60) DEF TargetClaimStep
    <3> QED
      BY <3>1, <3>2, Zenon
  <2> QED
    BY <2>1, Zenon DEF TargetGenerationHistory
<1> QED
  BY <1>1, <1>2, <1>3, <1>4, <1>5, Zenon DEF TargetReplays, TargetValid

\* validateReplayIncidentProjection accepts every incident that is written.
LEMMA IncidentAccepted ==
    ASSUME CoreFacts, CoreReplayInv', [Next]_vars,
           NEW i \in Incidents, incidents'[i] # incidents[i]
    PROVE  IncidentReplays(i)
<1>1. IncidentAdvances(i)
  BY IncidentsAdvance, Zenon DEF CoreFacts
<1>2. /\ incidents'[i].state # "none"
      /\ incidents'[i].state = "recovering" => incidents'[i].intents # {}
  BY <1>1, SMTT(30) DEF IncidentAdvances, IncidentTransitions
<1>3. IncidentValid(incidents'[i])
  BY <1>2, SMTT(30) DEF IncidentValid, CoreReplayInv, SealedHasEvidence, HasEvidence
<1>4. incidents[i].state # "none" =>
        /\ incidents'[i].scope = incidents[i].scope
        /\ EvidenceAdvance(i)
        /\ StateAdvance(IncidentTransitions, incidents[i].state, incidents'[i].state)
  BY <1>1, OneEdge, SMTT(30) DEF IncidentAdvances
<1>5. ScopeAdmitted(incidents[i].scope)'
  BY Zenon DEF CoreReplayInv, ScopesStand
<1> QED
  BY <1>3, <1>4, <1>5, SMTT(30) DEF IncidentReplays, ScopeAdmitted

-----------------------------------------------------------------------------
(* The journal.                                                            *)

\* Identifiers of different aggregates differ, so each record goes to its own
\* validator.
LEMMA WrittenRecords ==
    /\ "lease" \in Written => LeaseWritten
    /\ \A e \in Execs \cap Written : ExecWritten(e)
    /\ \A i \in Incidents \cap Written : incidents'[i] # incidents[i]
  BY ReplayAssumption, Zenon DEF Written

\* Every record of every step is accepted.
LEMMA StepReplays ==
    ASSUME ClockSlip = 0, CoreFacts, CoreFacts', CoreReplayInv, CoreReplayInv', UpdatedInPast,
           [Next]_vars
    PROVE  Replays
<1>0. TypeOK /\ LeasePhasesAgree /\ LeaseStamps
  BY Zenon DEF CoreFacts, CoreReplayInv
<1>1. LeaseStep
  BY <1>0, LeaseSteps, Zenon
<1>2. \A k \in Written : RevisionAdvance(k)
  <2>1. now \in Int /\ now' \in Int /\ now <= now'
    BY <1>0, ClockAdvances, ControlCoreAssumption DEF TypeOK
  <2>2. \A k \in Aggregates : updatedAt[k] \in Int /\ updatedAt[k] <= now
    BY Zenon DEF UpdatedInPast
  <2> QED
    BY <2>1, <2>2 DEF RevisionAdvance, Written
<1>3. SessionReplays
  BY <1>0, <1>1, SessionAccepted, Zenon
<1>4. "lease" \in Written => LeaseReplays
  BY <1>0, <1>1, LeaseAccepted, WrittenRecords, Zenon
<1>5. AgentReplays
  BY AgentAccepted, Zenon
<1>6. \A e \in Execs \cap Written : ExecReplays(e)
  BY ExecAccepted, WrittenRecords, Zenon
<1>7. \A t \in Targets \cap Written : TargetReplays(t)
  BY TargetAccepted, Zenon
<1>8. \A i \in Incidents \cap Written : IncidentReplays(i)
  BY IncidentAccepted, WrittenRecords, Zenon
<1> QED
  BY <1>2, <1>3, <1>4, <1>5, <1>6, <1>7, <1>8, Zenon DEF Replays

\* The inductive invariant of the journal.
ReplayInv == CoreReplayInv /\ UpdatedInPast /\ CommittedRecordsReplay

\* It holds of an empty journal.
LEMMA ReplayInvInit == ReplayInit => ReplayInv
<1> SUFFICES ASSUME ReplayInit PROVE ReplayInv
  BY Zenon
<1>1. LeaseStamps /\ OutcomeHasBundle
  BY DEF ReplayInit, Init, LeaseStamps, OutcomeHasBundle
<1>2. SealedHasEvidence
  BY Zenon DEF ReplayInit, Init, SealedHasEvidence
<1>3. ScopesStand
  BY SMTT(30) DEF ReplayInit, Init, ScopesStand, ScopeAdmitted, NoScope
<1>4. UpdatedInPast
  BY SMTT(30) DEF ReplayInit, Init, UpdatedInPast
<1> QED
  BY <1>1, <1>2, <1>3, <1>4, Zenon DEF ReplayInv, CoreReplayInv, CommittedRecordsReplay, ReplayInit

\* A handler and the syncLocked after it preserve the invariant.
LEMMA ReplayInvNext ==
    ASSUME ClockSlip = 0, CoreFacts, CoreFacts', ReplayInv, [ReplayNext]_replayVars
    PROVE  ReplayInv'
<1>1. [Next]_vars
  BY Zenon DEF ReplayNext, replayVars
<1>2. CoreReplayInv'
  BY <1>1, CoreReplayInvNext, Zenon DEF ReplayInv
<1>3. CASE ReplayNext
  <2>1. Replays
    BY <1>1, <1>2, StepReplays, Zenon DEF ReplayInv
  <2>2. CommittedRecordsReplay'
    BY <1>3, <2>1, Zenon DEF ReplayNext, Sync, CommittedRecordsReplay
  <2>3. now \in Int /\ now' \in Int /\ now <= now'
    BY <1>1, ClockAdvances, ControlCoreAssumption, SMTT(30) DEF TypeOK, CoreFacts
  <2>4. UpdatedInPast'
    BY <1>3, <2>3 DEF ReplayNext, Sync, UpdatedInPast, ReplayInv
  <2> QED
    BY <1>2, <2>2, <2>4, Zenon DEF ReplayInv
<1>4. CASE UNCHANGED replayVars
  BY <1>2, <1>4, Zenon DEF ReplayInv, replayVars, vars, UpdatedInPast, CommittedRecordsReplay
<1> QED
  BY <1>3, <1>4, Zenon

\* Whatever a handler of Core commits, the next syncLocked and the next start
\* of the daemon accept: with a clock that does not move within a handler and
\* never moves back, no sequence of calls leaves a record in the journal that
\* replay_validation.go refuses.
THEOREM CommittedReplays ==
    ASSUME ClockSlip = 0
    PROVE  ReplaySpec => []CommittedRecordsReplay
<1>1. ReplayInit => Init
  BY Zenon DEF ReplayInit
<1>2. [ReplayNext]_replayVars => [Next]_vars
  BY Zenon DEF ReplayNext, replayVars
<1>3. ReplaySpec => Spec
  BY <1>1, <1>2, PTL DEF ReplaySpec, Spec
<1>4. TypeOK /\ LeasePhasesAgree /\ ReferencesResolve /\ ExpiryOnlyWhenDue => CoreFacts
  BY Zenon DEF CoreFacts
<1>5. CoreFacts /\ CoreFacts' /\ ReplayInv /\ [ReplayNext]_replayVars => ReplayInv'
  BY ReplayInvNext, Zenon
<1>6. ReplayInv => CommittedRecordsReplay
  BY Zenon DEF ReplayInv
<1> QED
  BY <1>3, <1>4, <1>5, <1>6, ReplayInvInit, TypeCorrect, LeasePhases, ReferencesStand, ExpiryIsDue,
     PTL DEF ReplaySpec

=============================================================================
