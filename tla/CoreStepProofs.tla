--------------------------- MODULE CoreStepProofs ---------------------------
(***************************************************************************)
(* Type correctness of ControlCore, and what one of its steps does to one  *)
(* lease, exec, run, operation, agent generation or target generation, for *)
(* any number of them and of clock ticks: the lease phases agree           *)
(* and outcomes are final.  CoreProofs rests on these lemmas.              *)
(***************************************************************************)
EXTENDS ControlCore, TLAPS

-----------------------------------------------------------------------------
(* What the transition tables of domain/states.go guarantee.               *)

\* guardTransition for an agent generation: only a live generation moves, and
\* only to a state of the vocabulary.
LEMMA AgentTable ==
    \A x, y : <<x, y>> \in AgentTransitions => x \in AgentLive /\ y \in AgentStates
  BY Zenon DEF AgentTransitions, AgentLive, AgentTerminal, AgentStates

\* The same for a target generation.
LEMMA TargetTable ==
    \A x, y : <<x, y>> \in TargetTransitions => x \in TargetLive /\ y \in TargetStates
  BY Zenon DEF TargetTransitions, TargetLive, TargetTerminal, TargetStates

\* The same for a target run.
LEMMA RunTable ==
    \A x, y : <<x, y>> \in RunTransitions => x \in RunLive /\ y \in RunStates
  BY Zenon DEF RunTransitions, RunLive, RunTerminal, RunStates

\* The same for an exec.
LEMMA ExecTable ==
    \A x, y : <<x, y>> \in ExecTransitions => x \in ExecLive /\ y \in ExecStates
  BY Zenon DEF ExecTransitions, ExecLive, ExecTerminal, ExecStates

\* The same for a target operation.
LEMMA OperationTable ==
    \A x, y : <<x, y>> \in OperationTransitions => x \in OperationLive /\ y \in OperationStates
  BY Zenon DEF OperationTransitions, OperationLive, OperationTerminal, OperationStates

\* The same for an incident, whose table has no failure edges.
LEMMA IncidentTable ==
    \A x, y : <<x, y>> \in IncidentTransitions => x \in IncidentStates /\ y \in IncidentStates
  BY Zenon DEF IncidentTransitions, IncidentStates

\* No state is both live and terminal, and "none" is neither.
LEMMA LiveIsNotTerminal ==
    /\ AgentLive \cap AgentTerminal = {} /\ "none" \notin AgentStates
    /\ TargetLive \cap TargetTerminal = {} /\ "none" \notin TargetStates
    /\ RunLive \cap RunTerminal = {} /\ "none" \notin RunStates
    /\ ExecLive \cap ExecTerminal = {} /\ "none" \notin ExecStates
    /\ OperationLive \cap OperationTerminal = {} /\ "none" \notin OperationStates
  BY Zenon DEF AgentLive, AgentTerminal, AgentStates, TargetLive, TargetTerminal, TargetStates,
         RunLive, RunTerminal, RunStates, ExecLive, ExecTerminal, ExecStates,
         OperationLive, OperationTerminal, OperationStates

\* A generation that completeLeaseTermination or RecoverIncident retires is
\* terminal afterwards, whatever state it was in.
LEMMA RetiredIsTerminal ==
    /\ \A s \in AgentStates : RetiredAgent(s) \in AgentTerminal
    /\ \A s \in TargetStates : RetiredTarget(s) \in TargetTerminal
    /\ RetiredAgent("none") = "none" /\ RetiredTarget("none") = "none"
  BY Zenon DEF RetiredAgent, RetiredTarget, AgentStates, AgentLive, AgentTerminal,
         TargetStates, TargetLive, TargetTerminal

\* The retirement paths move a live generation and leave any other alone.
LEMMA RetiredMoves ==
    /\ \A s \in AgentStates \cup {"none"} :
         RetiredAgent(s) = s \/ (s \in AgentLive /\ RetiredAgent(s) \in AgentTerminal)
    /\ \A s \in TargetStates \cup {"none"} :
         RetiredTarget(s) = s \/ (s \in TargetLive /\ RetiredTarget(s) \in TargetStates)
  BY Zenon DEF RetiredAgent, RetiredTarget, AgentStates, AgentLive, AgentTerminal,
         TargetStates, TargetLive, TargetTerminal

\* ResetTarget's own retirement of the generation it replaces.
LEMMA ResetMoves ==
    \A s : LET old == IF s = "resettable" THEN "destroyed" ELSE s
           IN  old = s \/ (s \in TargetLive /\ old \in TargetStates)
  BY Zenon DEF TargetStates, TargetLive, TargetTerminal

\* A rollover of a target leaves every generation in a state of the vocabulary.
LEMMA TargetRollover ==
    ASSUME NEW gens \in [Generations -> TargetStates \cup {"none"}],
           NEW g, NEW s \in TargetStates \cup {"none"}
    PROVE  Rollover(gens, g, s) \in [Generations -> TargetStates \cup {"none"}]
  BY Zenon DEF Rollover, TargetStates, TargetLive

-----------------------------------------------------------------------------
(* A record keeps its shape when a handler assigns one of its fields.       *)

\* Transitions and finalization of an exec.
LEMMA ExecUpdate ==
    ASSUME NEW f \in [Execs -> ExecRecords], NEW e \in Execs, NEW s \in ExecStates
    PROVE  [f EXCEPT ![e].state = s] \in [Execs -> ExecRecords]
<1>1. \A x \in ExecRecords : [x EXCEPT !.state = s] \in ExecRecords
  BY Zenon DEF ExecRecords
<1> QED
  BY <1>1, Zenon

\* Transitions of a run.
LEMMA RunUpdate ==
    ASSUME NEW f \in [Runs -> RunRecords], NEW r \in Runs, NEW s \in RunStates
    PROVE  [f EXCEPT ![r].state = s] \in [Runs -> RunRecords]
<1>1. \A x \in RunRecords : [x EXCEPT !.state = s] \in RunRecords
  BY Zenon DEF RunRecords
<1> QED
  BY <1>1, Zenon

\* Finalization of a run.
LEMMA OutcomeUpdate ==
    ASSUME NEW f \in [Runs -> RunRecords], NEW r \in Runs, NEW s \in RunStates, NEW b \in Bundles
    PROVE  [f EXCEPT ![r].state = s, ![r].bundle = b] \in [Runs -> RunRecords]
<1> DEFINE h == [f EXCEPT ![r].state = s]
<1>1. h \in [Runs -> RunRecords]
  BY RunUpdate, Zenon
<1>2. \A x \in RunRecords : [x EXCEPT !.bundle = b] \in RunRecords
  BY Zenon DEF RunRecords
<1> HIDE DEF h
<1>3. [h EXCEPT ![r].bundle = b] \in [Runs -> RunRecords]
  BY <1>1, <1>2, Zenon
<1> QED
  BY <1>3, Zenon DEF h

\* Transitions of a target operation.
LEMMA OperationUpdate ==
    ASSUME NEW f \in [Ops -> OpRecords], NEW o \in Ops, NEW s \in OperationStates
    PROVE  [f EXCEPT ![o].state = s] \in [Ops -> OpRecords]
<1>1. \A x \in OpRecords : [x EXCEPT !.state = s] \in OpRecords
  BY Zenon DEF OpRecords
<1> QED
  BY <1>1, Zenon

\* Completion of an incident's recovery.
LEMMA IncidentStateUpdate ==
    ASSUME NEW f \in [Incidents -> IncidentRecords], NEW i \in Incidents, NEW s \in IncidentStates
    PROVE  [f EXCEPT ![i].state = s] \in [Incidents -> IncidentRecords]
<1>1. \A x \in IncidentRecords : [x EXCEPT !.state = s] \in IncidentRecords
  BY Zenon DEF IncidentRecords
<1> QED
  BY <1>1, Zenon

\* Transitions and recovery of an incident.
LEMMA IncidentUpdate ==
    ASSUME NEW f \in [Incidents -> IncidentRecords], NEW i \in Incidents,
           NEW s \in IncidentStates, NEW n \in SUBSET {"agent", "target"}
    PROVE  [f EXCEPT ![i].state = s, ![i].intents = n] \in [Incidents -> IncidentRecords]
<1> DEFINE h == [f EXCEPT ![i].state = s]
<1>1. h \in [Incidents -> IncidentRecords]
  BY IncidentStateUpdate, Zenon
<1>2. \A x \in IncidentRecords : [x EXCEPT !.intents = n] \in IncidentRecords
  BY Zenon DEF IncidentRecords
<1> HIDE DEF h
<1>3. [h EXCEPT ![i].intents = n] \in [Incidents -> IncidentRecords]
  BY <1>1, <1>2, Zenon
<1> QED
  BY <1>3, Zenon DEF h

\* Sealing an incident with the bundle of its run.
LEMMA SealedUpdate ==
    ASSUME NEW x \in IncidentRecords, NEW v \in Evidence
    PROVE  [x EXCEPT !.state = "evidence_sealed", !.evidence = v] \in IncidentRecords
<1> DEFINE y == [x EXCEPT !.state = "evidence_sealed"]
<1>1. y \in IncidentRecords
  BY Zenon DEF IncidentRecords, IncidentStates
<1> HIDE DEF y
<1>2. [y EXCEPT !.evidence = v] \in IncidentRecords
  BY <1>1, Zenon DEF IncidentRecords
<1> QED
  BY <1>2, Zenon DEF y

-----------------------------------------------------------------------------

\* Every record keeps its shape and every state its vocabulary, whatever the
\* handlers are asked for and in whatever order.
THEOREM TypeCorrect == Spec => []TypeOK
<1>1. Init => TypeOK
  BY ControlCoreAssumption DEF Init, TypeOK, Generations, ExecRecords, RunRecords, OpRecords,
     IncidentRecords, Scopes, NoScope, Evidence
<1>2. TypeOK /\ [Next]_vars => TypeOK'
  <2> SUFFICES ASSUME TypeOK, [Next]_vars PROVE TypeOK'
    BY Zenon
  <2>1. ASSUME NEW ttl \in TTLs, AcquireResearchSession(ttl)
        PROVE  TypeOK'
    BY ControlCoreAssumption, <2>1
       DEF TypeOK, Generations, leaseVars, agentVars, targetVars, workVars, AcquireResearchSession,
           AgentStates, AgentLive
  <2>2. ASSUME NEW ttl \in TTLs, RenewLease(ttl)
        PROVE  TypeOK'
    BY ControlCoreAssumption, <2>2
       DEF TypeOK, Generations, leaseVars, agentVars, targetVars, workVars, RenewLease, SecondRead
  <2>3. ASSUME BeginReleaseResearchSession
        PROVE  TypeOK'
    BY ControlCoreAssumption, <2>3
       DEF TypeOK, Generations, leaseVars, agentVars, targetVars, workVars,
           BeginReleaseResearchSession, SecondRead
  <2>4. ASSUME BeginDueLeaseExpiry
        PROVE  TypeOK'
    BY ControlCoreAssumption, <2>4
       DEF TypeOK, Generations, leaseVars, agentVars, targetVars, workVars, BeginDueLeaseExpiry,
           SecondRead
  <2>5. ASSUME CompleteLeaseTermination
        PROVE  TypeOK'
    <3>1. targetGen' \in [Targets -> [Generations -> TargetStates \cup {"none"}]]
      BY ControlCoreAssumption, RetiredIsTerminal, <2>5
         DEF CompleteLeaseTermination, TypeOK, TargetStates
    <3>2. agentGen' \in [Generations -> AgentStates \cup {"none"}]
      BY ControlCoreAssumption, RetiredIsTerminal, <2>5, Zenon
         DEF CompleteLeaseTermination, TypeOK, AgentStates
    <3> QED
      BY ControlCoreAssumption, <2>5, <3>1, <3>2, Zenon
         DEF TypeOK, Generations, leaseVars, agentVars, targetVars, workVars,
             CompleteLeaseTermination
  <2>6. ASSUME Tick
        PROVE  TypeOK'
    BY ControlCoreAssumption, <2>6
       DEF TypeOK, Generations, leaseVars, agentVars, targetVars, workVars, Tick
  <2>7. ASSUME NEW g \in Generations, NEW s \in AgentAsks, TransitionAgentGeneration(g, s)
        PROVE  TypeOK'
    BY ControlCoreAssumption, AgentTable, <2>7, Zenon
       DEF TypeOK, Generations, leaseVars, agentVars, targetVars, workVars,
           TransitionAgentGeneration
  <2>8. ASSUME NEW e \in Execs, CreateExec(e)
        PROVE  TypeOK'
    BY ControlCoreAssumption, <2>8, Zenon
       DEF TypeOK, Generations, leaseVars, agentVars, targetVars, workVars, CreateExec,
           ExecRecords, ExecStates, ExecLive
  <2>9. ASSUME NEW e \in Execs, NEW s \in ExecLive, TransitionExec(e, s)
        PROVE  TypeOK'
    <3>1. execs' \in [Execs -> ExecRecords]
      BY ControlCoreAssumption, ExecTable, ExecUpdate, <2>9, Zenon DEF TransitionExec, TypeOK
    <3>2. agentGen' \in [Generations -> AgentStates \cup {"none"}]
      BY ControlCoreAssumption, <2>9, Zenon DEF TransitionExec, TypeOK, AgentStates, AgentLive
    <3> QED
      BY ControlCoreAssumption, <2>9, <3>1, <3>2, Zenon
         DEF TypeOK, Generations, leaseVars, agentVars, targetVars, workVars, TransitionExec
  <2>10. ASSUME NEW e \in Execs, NEW s \in ExecAsks, FinalizeExec(e, s)
        PROVE  TypeOK'
    <3>1. execs' \in [Execs -> ExecRecords]
      <4>1. s \in ExecStates /\ execs' = [execs EXCEPT ![e].state = s]
        BY <2>10, ExecTable, Zenon DEF FinalizeExec
      <4> QED
        BY <4>1, ExecUpdate, Zenon DEF TypeOK
    <3> QED
      BY ControlCoreAssumption, <2>10, <3>1, Zenon
         DEF TypeOK, Generations, leaseVars, agentVars, targetVars, workVars, FinalizeExec
  <2>11. ASSUME NEW t \in Targets, CreateTarget(t)
        PROVE  TypeOK'
    BY ControlCoreAssumption, <2>11
       DEF TypeOK, Generations, leaseVars, agentVars, targetVars, workVars, CreateTarget,
           TargetStates, TargetLive, TargetTerminal
  <2>12. ASSUME NEW t \in Targets, NEW g \in Generations, NEW s \in TargetAsks,
              TransitionTargetGeneration(t, g, s)
        PROVE  TypeOK'
    BY ControlCoreAssumption, TargetTable, <2>12, Zenon
       DEF TypeOK, Generations, leaseVars, agentVars, targetVars, workVars,
           TransitionTargetGeneration
  <2>13. ASSUME NEW t \in Targets, QuarantineTarget(t)
        PROVE  TypeOK'
    <3>1. \A x \in RunRecords : [x EXCEPT !.state = "quarantined"] \in RunRecords
      BY ControlCoreAssumption, <2>13, Zenon DEF RunRecords, RunStates, RunTerminal
    <3>2. runs' \in [Runs -> RunRecords]
      BY ControlCoreAssumption, <3>1, <2>13, Zenon DEF QuarantineTarget, TypeOK
    <3>3. \A x \in OpRecords : [x EXCEPT !.state = "cancelled"] \in OpRecords
      BY ControlCoreAssumption, <2>13, Zenon DEF OpRecords, OperationStates, OperationTerminal
    <3>4. ops' \in [Ops -> OpRecords]
      BY ControlCoreAssumption, <3>3, <2>13, Zenon DEF QuarantineTarget, TypeOK
    <3>5. targetGen' \in [Targets -> [Generations -> TargetStates \cup {"none"}]]
      BY ControlCoreAssumption, <2>13, Zenon DEF QuarantineTarget, TypeOK, TargetStates, TargetTerminal
    <3> QED
      BY ControlCoreAssumption, <2>13, <3>1, <3>2, <3>3, <3>4, <3>5, Zenon
         DEF TypeOK, Generations, leaseVars, agentVars, targetVars, workVars, QuarantineTarget
  <2>14. ASSUME NEW t \in Targets, NEW r \in Runs, StartTargetRun(r, t)
        PROVE  TypeOK'
    BY ControlCoreAssumption, <2>14
       DEF TypeOK, Generations, leaseVars, agentVars, targetVars, workVars, StartTargetRun,
           RunRecords, RunStates, RunLive
  <2>15. ASSUME NEW t \in Targets, NEW i \in Incidents \cup {None}, ResetTarget(t, i)
        PROVE  TypeOK'
    <3>1. targetGen' \in [Targets -> [Generations -> TargetStates \cup {"none"}]]
      BY ControlCoreAssumption, <2>15
         DEF ResetTarget, Rollover, TypeOK, TargetStates, TargetLive, TargetTerminal
    <3>2. targetRecovery' \in [Targets -> [Generations -> Incidents \cup {None}]]
      BY ControlCoreAssumption, <2>15, Zenon DEF ResetTarget, TypeOK
    <3> QED
      BY ControlCoreAssumption, <2>15, <3>1, <3>2
         DEF TypeOK, Generations, leaseVars, agentVars, targetVars, workVars, ResetTarget
  <2>16. ASSUME NEW r \in Runs, NEW s \in RunAsks, TransitionTargetRun(r, s)
        PROVE  TypeOK'
    <3>1. runs' \in [Runs -> RunRecords]
      <4>1. s \in RunStates /\ runs' = [runs EXCEPT ![r].state = s]
        BY <2>16, RunTable, Zenon DEF TransitionTargetRun
      <4> QED
        BY <4>1, RunUpdate, Zenon DEF TypeOK
    <3> QED
      BY ControlCoreAssumption, <2>16, <3>1
         DEF TypeOK, Generations, leaseVars, agentVars, targetVars, workVars, TransitionTargetRun
  <2>17. ASSUME NEW r \in Runs, NEW s \in {"completed", "failed"}, NEW b \in Bundles,
              FinalizeTargetRun(r, s, b)
        PROVE  TypeOK'
    <3>1. runs' \in [Runs -> RunRecords]
      BY ControlCoreAssumption, OutcomeUpdate, <2>17, Zenon
         DEF FinalizeTargetRun, BindOutcome, TypeOK, RunStates, RunTerminal
    <3>2. targetGen' \in [Targets -> [Generations -> TargetStates \cup {"none"}]]
      BY ControlCoreAssumption, <2>17, Zenon
         DEF FinalizeTargetRun, BindOutcome, TypeOK, TargetStates, TargetLive
    <3> QED
      BY ControlCoreAssumption, <2>17, <3>1, <3>2, SMTT(60)
         DEF TypeOK, Generations, leaseVars, agentVars, targetVars, workVars, FinalizeTargetRun,
             BindOutcome
  <2>18. ASSUME NEW o \in Ops, NEW r \in Runs, CreateTargetOperation(o, r)
        PROVE  TypeOK'
    BY ControlCoreAssumption, <2>18, Zenon
       DEF TypeOK, Generations, leaseVars, agentVars, targetVars, workVars, CreateTargetOperation,
           OpRecords, OperationStates, OperationLive
  <2>19. ASSUME NEW o \in Ops, NEW s \in OpAsks, TransitionTargetOperation(o, s)
        PROVE  TypeOK'
    <3>1. ops' \in [Ops -> OpRecords]
      BY ControlCoreAssumption, OperationTable, OperationUpdate, <2>19, Zenon
         DEF TransitionTargetOperation, TypeOK
    <3> QED
      BY ControlCoreAssumption, <2>19, <3>1
         DEF TypeOK, Generations, leaseVars, agentVars, targetVars, workVars,
             TransitionTargetOperation
  <2>20. ASSUME NEW i \in Incidents, NEW scope \in ScopeAsks, NEW evidence \in EvidenceAsks,
              CreateIncident(i, scope, evidence)
        PROVE  TypeOK'
    <3>1. incidents' \in [Incidents -> IncidentRecords]
      BY ControlCoreAssumption, <2>20, Zenon DEF CreateIncident, TypeOK, IncidentRecords, IncidentStates
    <3> QED
      BY ControlCoreAssumption, <2>20, <3>1, Zenon
         DEF TypeOK, Generations, leaseVars, agentVars, targetVars, workVars, CreateIncident
  <2>21. ASSUME NEW i \in Incidents, NEW s \in IncidentStates, NEW intents \in IntentAsks,
              TransitionIncident(i, s, intents)
        PROVE  TypeOK'
    <3>1. incidents' \in [Incidents -> IncidentRecords]
      BY ControlCoreAssumption, IncidentUpdate, <2>21, Zenon DEF TransitionIncident, TypeOK
    <3> QED
      BY ControlCoreAssumption, <2>21, <3>1, Zenon
         DEF TypeOK, Generations, leaseVars, agentVars, targetVars, workVars, TransitionIncident
  <2>22. ASSUME NEW i \in Incidents, RecoverTarget(i)
        PROVE  TypeOK'
    <3>1. incidents[i].intents \cup {"target"} \in SUBSET {"agent", "target"}
      BY ControlCoreAssumption, <2>22, Zenon DEF TypeOK, IncidentRecords
    <3>2. incidents' \in [Incidents -> IncidentRecords]
      BY ControlCoreAssumption, <3>1, IncidentUpdate, <2>22, Zenon
         DEF RecoverTarget, TypeOK, IncidentStates
    <3>3. incidents[i].scope.target \in Targets
      BY ControlCoreAssumption, <2>22, Zenon DEF RecoverTarget, TypeOK, IncidentRecords, Scopes
    <3>4. targetGen' \in [Targets -> [Generations -> TargetStates \cup {"none"}]]
      <4> DEFINE t == incidents[i].scope.target
                 g == incidents[i].scope.targetGeneration
                 S == TargetStates \cup {"none"}
                 minted == Rollover(targetGen[t], g, RetiredTarget(targetGen[t][g]))
      <4>1. g \in Generations /\ targetGen' = [targetGen EXCEPT ![t] = minted]
        BY ControlCoreAssumption, <2>22 DEF RecoverTarget, Generations
      <4>2. targetGen \in [Targets -> [Generations -> S]]
        BY Zenon DEF TypeOK
      <4>3. targetGen[t] \in [Generations -> S] /\ targetGen[t][g] \in S
        BY <3>3, <4>1, <4>2, Zenon
      <4>4. RetiredTarget(targetGen[t][g]) \in S
        BY <4>3, RetiredIsTerminal, Zenon DEF TargetStates
      <4>5. minted \in [Generations -> S]
        BY <4>3, <4>4, TargetRollover, Zenon
      <4> QED
        BY <3>3, <4>1, <4>2, <4>5, Zenon
    <3>5. targetCurrent' \in [Targets -> 0..MaxGen]
      BY ControlCoreAssumption, <3>3, <2>22 DEF RecoverTarget, TypeOK
    <3>6. targetRecovery' \in [Targets -> [Generations -> Incidents \cup {None}]]
      BY ControlCoreAssumption, <2>22, ZenonT(60) DEF RecoverTarget, TypeOK
    <3> QED
      BY ControlCoreAssumption, <2>22, <3>1, <3>2, <3>3, <3>4, <3>5, <3>6, Zenon
         DEF TypeOK, Generations, leaseVars, agentVars, targetVars, workVars, RecoverTarget
  <2>23. ASSUME NEW i \in Incidents, RecoverAgent(i)
        PROVE  TypeOK'
    <3>1. incidents[i].intents \cup {"agent"} \in SUBSET {"agent", "target"}
      BY ControlCoreAssumption, <2>23, Zenon DEF TypeOK, IncidentRecords
    <3>2. incidents' = [incidents EXCEPT ![i].state = "recovering",
                   ![i].intents = incidents[i].intents \cup {"agent"}]
      BY ControlCoreAssumption, <2>23, Zenon DEF RecoverAgent
    <3>3. incidents' \in [Incidents -> IncidentRecords]
      BY ControlCoreAssumption, <3>1, <3>2, IncidentUpdate, <2>23, Zenon DEF TypeOK, IncidentStates
    <3>4. agentGen' \in [Generations -> AgentStates \cup {"none"}]
      BY ControlCoreAssumption, RetiredIsTerminal, <2>23
         DEF RecoverAgent, Rollover, TypeOK, Generations, AgentStates, AgentLive
    <3> QED
      BY ControlCoreAssumption, <2>23, <3>1, <3>2, <3>3, <3>4, SMTT(60)
         DEF TypeOK, Generations, leaseVars, agentVars, targetVars, workVars, RecoverAgent
  <2>24. ASSUME NEW i \in Incidents, CompleteIncidentRecovery(i)
        PROVE  TypeOK'
    <3>1. incidents' \in [Incidents -> IncidentRecords]
      BY ControlCoreAssumption, IncidentStateUpdate, <2>24, Zenon
         DEF CompleteIncidentRecovery, TypeOK, IncidentStates
    <3> QED
      BY ControlCoreAssumption, <2>24, <3>1, Zenon
         DEF TypeOK, Generations, leaseVars, agentVars, targetVars, workVars,
             CompleteIncidentRecovery
  <2>25. ASSUME NEW r \in Runs, NEW sealed \in SUBSET Incidents, SealRunIncidents(r, sealed)
        PROVE  TypeOK'
    <3>1. runs[r].bundle \in Bundles
      BY ControlCoreAssumption, <2>25, Zenon DEF SealRunIncidents, TypeOK, RunRecords
    <3>2. \A x \in IncidentRecords : x.evidence \in Evidence
      BY ControlCoreAssumption, <2>25, Zenon DEF IncidentRecords
    <3>3. \A x \in Evidence : [bundle |-> runs[r].bundle,
                               artifacts |-> x.artifacts \cup {runs[r].bundle}] \in Evidence
      BY ControlCoreAssumption, <3>1, <2>25 DEF Evidence
    <3> DEFINE sealing(j) == [incidents[j] EXCEPT !.state = "evidence_sealed",
                                !.evidence = [bundle |-> runs[r].bundle, artifacts |->
                                    incidents[j].evidence.artifacts \cup {runs[r].bundle}]]
    <3>4. \A j \in Incidents : sealing(j) \in IncidentRecords
      BY <3>2, <3>3, SealedUpdate, Zenon DEF TypeOK
    <3>5. incidents' = [j \in Incidents |->
             IF j \in sealed /\ incidents[j].state = "open" THEN sealing(j) ELSE incidents[j]]
      BY <2>25, Zenon DEF SealRunIncidents
    <3> HIDE DEF sealing
    <3>6. incidents' \in [Incidents -> IncidentRecords]
      BY <3>4, <3>5, Zenon DEF TypeOK
    <3> QED
      BY <2>25, <3>6, Zenon DEF TypeOK, Generations, leaseVars, agentVars, targetVars, workVars,
         SealRunIncidents
  <2>26. ASSUME UNCHANGED vars
        PROVE  TypeOK'
    BY ControlCoreAssumption, <2>26, Zenon
       DEF TypeOK, Generations, leaseVars, agentVars, targetVars, workVars, vars
  <2> QED
    BY <2>1, <2>2, <2>3, <2>4, <2>5, <2>6, <2>7, <2>8, <2>9, <2>10, <2>11, <2>12, <2>13, <2>14,
       <2>15, <2>16, <2>17, <2>18, <2>19, <2>20, <2>21, <2>22, <2>23, <2>24, <2>25, <2>26, Zenon
       DEF Next, LeaseNext, AgentNext, TargetNext, IncidentNext
<1> QED
  BY <1>1, <1>2, PTL DEF Spec

-----------------------------------------------------------------------------
(* What each part of the control plane leaves alone.                       *)

\* sessions.go and lease_termination.go end no work and mint no target.
LEMMA LeaseFrame ==
    LeaseNext => UNCHANGED <<workVars, incidents, targetCurrent, targetRecovery, agentRecovery>>
  BY Zenon DEF LeaseNext, AcquireResearchSession, RenewLease, BeginReleaseResearchSession,
         BeginDueLeaseExpiry, CompleteLeaseTermination, Tick, workVars, agentVars, targetVars

\* execs.go and TransitionAgentGeneration write execs and the states of agent
\* generations only.
LEMMA AgentFrame ==
    AgentNext => UNCHANGED <<now, leaseVars, agentCurrent, agentRecovery, targetVars, runs,
                             ops, incidents>>
  BY ZenonT(60) DEF AgentNext, TransitionAgentGeneration, CreateExec, TransitionExec, FinalizeExec,
         agentVars, workVars

\* targets.go writes targets, runs and operations only.
LEMMA TargetFrame ==
    TargetNext => UNCHANGED <<now, leaseVars, agentVars, execs, incidents>>
  BY ZenonT(60)
     DEF TargetNext, CreateTarget, TransitionTargetGeneration, QuarantineTarget, StartTargetRun,
         ResetTarget, TransitionTargetRun, FinalizeTargetRun, BindOutcome, CreateTargetOperation,
         TransitionTargetOperation, workVars

\* incidents.go writes no exec, run or operation, and of the session and the
\* lease only the agent generation.
LEMMA IncidentFrame ==
    IncidentNext => UNCHANGED <<now, session, lease, expiresAt, termination, initiatedAt, workVars>>
  BY ZenonT(60) DEF IncidentNext, CreateIncident, TransitionIncident, RecoverTarget, RecoverAgent,
         CompleteIncidentRecovery, SealRunIncidents, leaseVars
-----------------------------------------------------------------------------

\* Session, lease and termination record never disagree on the phase of the
\* lease.  Only acquisition, the two beginnings and the completion of a
\* termination, and the recovery of an agent write any of them.
THEOREM LeasePhases == Spec => []LeasePhasesAgree
<1>1. Init => LeasePhasesAgree
  BY Zenon DEF Init, LeasePhasesAgree
<1>2. TypeOK /\ LeasePhasesAgree /\ [Next]_vars => LeasePhasesAgree'
  <2> SUFFICES ASSUME TypeOK, LeasePhasesAgree, [Next]_vars PROVE LeasePhasesAgree'
    BY Zenon
  <2>1. ASSUME NEW ttl \in TTLs, AcquireResearchSession(ttl)
        PROVE  LeasePhasesAgree'
    BY <2>1 DEF AcquireResearchSession, LeasePhasesAgree
  <2>2. ASSUME NEW ttl \in TTLs, RenewLease(ttl)
        PROVE  LeasePhasesAgree'
    BY <2>2, Zenon DEF RenewLease, LeasePhasesAgree, agentVars
  <2>3. CASE BeginReleaseResearchSession
    BY <2>3, Zenon DEF BeginReleaseResearchSession, LeasePhasesAgree, agentVars
  <2>4. CASE BeginDueLeaseExpiry
    BY <2>4, Zenon DEF BeginDueLeaseExpiry, LeasePhasesAgree, agentVars
  <2>5. CASE CompleteLeaseTermination
    BY <2>5, Zenon DEF CompleteLeaseTermination, TerminationInProgress, LeasePhasesAgree,
                LeaseTransitions, SessionTransitions
  <2>6. ASSUME NEW i \in Incidents, RecoverAgent(i)
        PROVE  LeasePhasesAgree'
    BY ControlCoreAssumption, <2>6 DEF RecoverAgent, LeasePhasesAgree
  <2>7. CASE UNCHANGED <<leaseVars, agentCurrent>>
    BY <2>7, ZenonT(60) DEF leaseVars, LeasePhasesAgree
  <2>8. ASSUME IncidentNext, ~ \E i \in Incidents : RecoverAgent(i)
        PROVE  UNCHANGED <<leaseVars, agentCurrent>>
    BY <2>8, ZenonT(60) DEF IncidentNext, CreateIncident, TransitionIncident, RecoverTarget,
                CompleteIncidentRecovery, SealRunIncidents, agentVars
  <2>9. CASE Tick
    BY <2>7, <2>9, Zenon DEF Tick, agentVars
  <2> QED
    BY <2>1, <2>2, <2>3, <2>4, <2>5, <2>6, <2>7, <2>8, <2>9, AgentFrame, TargetFrame, Zenon
       DEF Next, LeaseNext, vars, agentVars
<1> QED
  BY <1>1, <1>2, TypeCorrect, PTL DEF Spec
-----------------------------------------------------------------------------
(* What a step can do to one exec, one run and one operation.              *)

\* An exec is admitted, moves on or ends.
ExecStep(e) ==
    \/ execs'[e] = execs[e]
    \/ /\ execs[e].state = "none" /\ execs'[e].state = "requested"
       /\ execs'[e].generation = agentCurrent
       /\ LeaseActive(now) /\ AgentAcceptsWork(leaseGeneration)
    \/ /\ execs[e].state \in ExecLive /\ execs'[e].state \in ExecStates
       /\ execs'[e].generation = execs[e].generation
       /\ execs'[e].state \in ExecLive => LeaseActive(now)

\* A run is admitted on the current generation of a ready target, moves on or
\* ends.
RunStep(r) ==
    \/ runs'[r] = runs[r]
    \/ /\ runs[r].state = "none" /\ runs'[r].state = "requested"
       /\ runs'[r].target \in Targets
       /\ runs'[r].generation = targetCurrent[runs'[r].target]
       /\ targetCurrent[runs'[r].target] > 0 /\ targetCurrent' = targetCurrent
       /\ runs'[r].agentGeneration = leaseGeneration
       /\ LeaseActive(now) /\ AgentAcceptsWork(leaseGeneration)
    \/ /\ runs[r].state \in RunLive /\ runs'[r].state \in RunStates
       /\ runs'[r].target = runs[r].target /\ runs'[r].generation = runs[r].generation
       /\ runs'[r].agentGeneration = runs[r].agentGeneration
       /\ runs'[r].state \in RunLive => LeaseActive(now)

\* An operation is admitted on a running run, moves on or ends.
OpStep(o) ==
    \/ ops'[o] = ops[o]
    \/ /\ ops[o].state = "none" /\ ops'[o].state = "requested"
       /\ ops'[o].run \in Runs /\ runs[ops'[o].run].state = "running"
       /\ LeaseActive(now) /\ AgentAcceptsWork(runs[ops'[o].run].agentGeneration)
       /\ runs' = runs /\ agentGen' = agentGen
    \/ /\ ops[o].state \in OperationLive /\ ops'[o].state \in OperationStates
       /\ ops'[o].run = ops[o].run
       /\ ops'[o].state \in OperationLive => LeaseActive(now)

\* Every handler treats every exec in one of these ways.
LEMMA ExecSteps ==
    ASSUME TypeOK, [Next]_vars, NEW e \in Execs
    PROVE  ExecStep(e)
<1> USE DEF TypeOK, ExecStep
<1>1. ASSUME NEW x \in Execs, CreateExec(x)
      PROVE  ExecStep(e)
  BY <1>1, Zenon DEF CreateExec, ExecRecords
<1>2. ASSUME NEW x \in Execs, NEW s \in ExecLive, TransitionExec(x, s)
      PROVE  ExecStep(e)
  BY <1>2, ExecTable DEF TransitionExec, ExecRecords
<1>3. ASSUME NEW x \in Execs, NEW s \in ExecAsks, FinalizeExec(x, s)
      PROVE  ExecStep(e)
  BY <1>3, ExecTable, LiveIsNotTerminal DEF FinalizeExec, ExecRecords
<1>4. ASSUME NEW g \in Generations, NEW s \in AgentAsks, TransitionAgentGeneration(g, s)
      PROVE  ExecStep(e)
  BY <1>4, Zenon DEF TransitionAgentGeneration, workVars
<1> QED
  BY <1>1, <1>2, <1>3, <1>4, LeaseFrame, TargetFrame, IncidentFrame, Zenon
     DEF Next, AgentNext, vars, workVars

\* Every handler treats every run in one of these ways.
LEMMA RunSteps ==
    ASSUME TypeOK, [Next]_vars, NEW r \in Runs
    PROVE  RunStep(r)
<1> USE DEF TypeOK, RunStep
<1>1. ASSUME NEW t \in Targets, NEW x \in Runs, StartTargetRun(x, t)
      PROVE  RunStep(r)
  BY <1>1, Zenon DEF StartTargetRun, RunRecords, targetVars
<1>2. ASSUME NEW x \in Runs, NEW s \in RunAsks, TransitionTargetRun(x, s)
      PROVE  RunStep(r)
  BY <1>2, RunTable, LiveIsNotTerminal DEF TransitionTargetRun, RunRecords
<1>3. ASSUME NEW x \in Runs, NEW s \in {"completed", "failed"}, NEW b \in Bundles,
             FinalizeTargetRun(x, s, b)
      PROVE  RunStep(r)
  BY <1>3 DEF FinalizeTargetRun, BindOutcome, RunRecords, RunLive, RunStates, RunTerminal
<1>4. ASSUME NEW t \in Targets, QuarantineTarget(t)
      PROVE  RunStep(r)
  BY <1>4, Zenon DEF QuarantineTarget, RunRecords, RunLive, RunStates, RunTerminal
<1>5. ASSUME TargetNext, runs' # runs
      PROVE  \/ \E t \in Targets : QuarantineTarget(t) \/ \E x \in Runs : StartTargetRun(x, t)
             \/ \E x \in Runs : \/ \E s \in RunAsks : TransitionTargetRun(x, s)
                                \/ \E s \in {"completed", "failed"}, b \in Bundles :
                                     FinalizeTargetRun(x, s, b)
  BY <1>5, Zenon DEF TargetNext, CreateTarget, TransitionTargetGeneration, ResetTarget,
              CreateTargetOperation, TransitionTargetOperation, workVars
<1> QED
  BY <1>1, <1>2, <1>3, <1>4, <1>5, LeaseFrame, AgentFrame, IncidentFrame, Zenon
     DEF Next, vars, workVars

\* Every handler treats every operation in one of these ways.
LEMMA OpSteps ==
    ASSUME TypeOK, [Next]_vars, NEW o \in Ops
    PROVE  OpStep(o)
<1> USE DEF TypeOK, OpStep
<1>1. ASSUME NEW x \in Ops, NEW r \in Runs, CreateTargetOperation(x, r)
      PROVE  OpStep(o)
  BY <1>1, Zenon DEF CreateTargetOperation, OpRecords, agentVars
<1>2. ASSUME NEW x \in Ops, NEW s \in OpAsks, TransitionTargetOperation(x, s)
      PROVE  OpStep(o)
  BY <1>2, OperationTable, LiveIsNotTerminal DEF TransitionTargetOperation, OpRecords
<1>3. ASSUME NEW t \in Targets, QuarantineTarget(t)
      PROVE  OpStep(o)
  BY <1>3, ZenonT(60) DEF QuarantineTarget, OpRecords, OperationLive, OperationStates, OperationTerminal
<1>4. ASSUME TargetNext, ops' # ops
      PROVE  \/ \E t \in Targets : QuarantineTarget(t)
             \/ \E x \in Ops : \/ \E r \in Runs : CreateTargetOperation(x, r)
                               \/ \E s \in OpAsks : TransitionTargetOperation(x, s)
  BY <1>4, ZenonT(60)
     DEF TargetNext, CreateTarget, TransitionTargetGeneration, ResetTarget, StartTargetRun,
              TransitionTargetRun, FinalizeTargetRun, BindOutcome, workVars
<1> QED
  BY <1>1, <1>2, <1>3, <1>4, LeaseFrame, AgentFrame, IncidentFrame, Zenon
     DEF Next, vars, workVars
-----------------------------------------------------------------------------

\* An ended exec, run or operation stays as it ended: every table leaves a
\* terminal state without an edge, and QuarantineTarget and FinalizeTargetRun
\* touch live work only.
THEOREM FinalOutcomes == Spec => OutcomesAreFinal
<1>1. ASSUME TypeOK, [Next]_vars
      PROVE  /\ \A r \in Runs : runs[r].state \in RunTerminal => runs'[r] = runs[r]
             /\ \A e \in Execs : execs[e].state \in ExecTerminal => execs'[e] = execs[e]
             /\ \A o \in Ops : ops[o].state \in OperationTerminal => ops'[o] = ops[o]
  <2>1. ASSUME NEW r \in Runs, runs[r].state \in RunTerminal PROVE runs'[r] = runs[r]
    BY <1>1, <2>1, RunSteps, LiveIsNotTerminal, Zenon DEF RunStep, RunStates
  <2>2. ASSUME NEW e \in Execs, execs[e].state \in ExecTerminal PROVE execs'[e] = execs[e]
    BY <1>1, <2>2, ExecSteps, LiveIsNotTerminal, Zenon DEF ExecStep, ExecStates
  <2>3. ASSUME NEW o \in Ops, ops[o].state \in OperationTerminal PROVE ops'[o] = ops[o]
    BY <1>1, <2>3, OpSteps, LiveIsNotTerminal, Zenon DEF OpStep, OperationStates
  <2> QED
    BY <2>1, <2>2, <2>3, Zenon
<1> QED
  BY <1>1, TypeCorrect, PTL DEF Spec, OutcomesAreFinal

-----------------------------------------------------------------------------
(* What a step can do to the generations of the agent and of a target.     *)

\* The current agent generation stays, or the next one is minted: by the
\* acquisition, or once the current one has no live exec and is retired.
AgentRolls ==
    \/ agentCurrent' = agentCurrent
    \/ /\ agentCurrent' = agentCurrent + 1 /\ agentCurrent' \in Generations
       /\ agentGen'[agentCurrent'] = "provisioning"
       /\ UNCHANGED <<targetVars, workVars>>
       /\ \/ agentCurrent = 0 /\ session = "none"
          \/ /\ LeaseActive(now) /\ agentCurrent > 0
             /\ agentGen[agentCurrent] # "none" => agentGen'[agentCurrent] \in AgentTerminal
             /\ \A e \in Execs :
                  execs[e].generation = agentCurrent => execs[e].state \notin ExecLive

\* A generation is minted, is retired, or moves on.
AgentGenStep(g) ==
    \/ agentGen'[g] = agentGen[g]
    \/ g = agentCurrent + 1 /\ agentCurrent' = g /\ agentGen'[g] = "provisioning"
    \/ /\ agentGen[g] \in AgentLive /\ agentGen'[g] \in AgentStates
       /\ agentGen'[g] = "quiescing" => AgentIdle(g) /\ UNCHANGED workVars

\* Every handler treats the agent workspace in one of these ways.
LEMMA AgentSteps ==
    ASSUME TypeOK, LeasePhasesAgree, [Next]_vars
    PROVE  AgentRolls /\ \A g \in Generations : AgentGenStep(g)
<1> USE ControlCoreAssumption DEF TypeOK, AgentRolls, AgentGenStep, Generations
<1> DEFINE Goal == AgentRolls /\ \A g \in Generations : AgentGenStep(g)
<1>1. ASSUME NEW ttl \in TTLs, AcquireResearchSession(ttl)
      PROVE  Goal
  BY <1>1 DEF AcquireResearchSession, LeasePhasesAgree
<1>2. CASE CompleteLeaseTermination
  <2>1. \A g \in Generations : agentGen'[g] =
          IF g = agentCurrent THEN RetiredAgent(agentGen[g]) ELSE agentGen[g]
    BY <1>2 DEF CompleteLeaseTermination
  <2>2. agentCurrent' = agentCurrent
    BY <1>2, Zenon DEF CompleteLeaseTermination
  <2> QED
    BY <2>1, <2>2, RetiredMoves, Zenon DEF AgentStates, AgentTerminal
<1>3. ASSUME NEW g \in Generations, NEW s \in AgentAsks, TransitionAgentGeneration(g, s)
      PROVE  Goal
  BY <1>3, AgentTable DEF TransitionAgentGeneration
<1>4. ASSUME NEW e \in Execs, NEW s \in ExecLive, TransitionExec(e, s)
      PROVE  Goal
  BY <1>4 DEF TransitionExec, AgentLive, AgentStates
<1>5. ASSUME NEW i \in Incidents, RecoverAgent(i)
      PROVE  Goal
  <2> DEFINE g == incidents[i].scope.agentGeneration
  <2>1. g \in 1..(MaxGen - 1) /\ agentCurrent = g /\ agentCurrent' = g + 1
    BY <1>5, Zenon DEF RecoverAgent
  <2>2. agentGen' = [h \in Generations |-> IF h = g THEN RetiredAgent(agentGen[g])
                       ELSE IF h = g + 1 THEN "provisioning" ELSE agentGen[h]]
    BY <1>5, Zenon DEF RecoverAgent, Rollover
  <2>3. UNCHANGED <<targetVars, workVars>>
    BY <1>5, Zenon DEF RecoverAgent
  <2> HIDE DEF g
  <2>4. AgentRolls
    <3>1. agentGen[g] # "none" => agentGen'[g] \in AgentTerminal
      BY <2>1, <2>2, RetiredIsTerminal
    <3>2. LeaseActive(now) /\ \A e \in Execs : execs[e].generation = g
                                                => execs[e].state \notin ExecLive
      BY <1>5, Zenon DEF RecoverAgent, g
    <3>3. agentGen'[g + 1] = "provisioning" /\ g + 1 \in Generations
      BY <2>1, <2>2
    <3> QED
      BY <2>1, <2>3, <3>1, <3>2, <3>3
  <2>5. RetiredAgent(agentGen[g]) = agentGen[g]
          \/ (agentGen[g] \in AgentLive /\ RetiredAgent(agentGen[g]) \in AgentTerminal)
    BY <2>1, RetiredMoves
  <2>6. \A h \in Generations : AgentGenStep(h)
    BY <2>1, <2>2, <2>5, Zenon DEF AgentStates, AgentTerminal
  <2> QED
    BY <2>4, <2>6, Zenon
<1>6. CASE UNCHANGED <<agentCurrent, agentGen>>
  BY <1>6, Zenon
<1>7. ASSUME LeaseNext, ~ \E ttl \in TTLs : AcquireResearchSession(ttl), ~ CompleteLeaseTermination
      PROVE  UNCHANGED <<agentCurrent, agentGen>>
  BY <1>7, ZenonT(60) DEF LeaseNext, RenewLease, BeginReleaseResearchSession, BeginDueLeaseExpiry, Tick,
              agentVars
<1>8. ASSUME IncidentNext, ~ \E i \in Incidents : RecoverAgent(i)
      PROVE  UNCHANGED <<agentCurrent, agentGen>>
  BY <1>8, ZenonT(60) DEF IncidentNext, CreateIncident, TransitionIncident, RecoverTarget,
              CompleteIncidentRecovery, SealRunIncidents, agentVars
<1>9. ASSUME NEW e \in Execs, CreateExec(e) \/ \E s \in ExecAsks : FinalizeExec(e, s)
      PROVE  UNCHANGED <<agentCurrent, agentGen>>
  BY <1>9, Zenon DEF CreateExec, FinalizeExec, agentVars
<1> HIDE DEF TypeOK, AgentRolls, AgentGenStep
<1>10. CASE LeaseNext
  BY <1>1, <1>2, <1>6, <1>7, <1>10, Zenon
<1>11. CASE AgentNext
  BY <1>3, <1>4, <1>6, <1>9, <1>11, Zenon DEF AgentNext
<1>12. CASE TargetNext
  BY <1>6, <1>12, TargetFrame, Zenon DEF agentVars
<1>13. CASE IncidentNext
  BY <1>5, <1>6, <1>8, <1>13, Zenon
<1>14. CASE UNCHANGED vars
  BY <1>6, <1>14, Zenon DEF vars, agentVars
<1> QED
  BY <1>10, <1>11, <1>12, <1>13, <1>14, Zenon DEF Goal, Next

\* The current generation of a target stays, or the next one is minted: by the
\* creation, or once the current one has no live run and is retired.
TargetRolls(t) ==
    \/ targetCurrent'[t] = targetCurrent[t]
    \/ /\ targetCurrent' = [targetCurrent EXCEPT ![t] = @ + 1]
       /\ targetCurrent'[t] \in Generations
       /\ targetGen'[t][targetCurrent'[t]] = "provisioning"
       /\ UNCHANGED <<agentVars, workVars>> /\ LeaseActive(now)
       /\ \/ targetCurrent[t] = 0
          \/ /\ targetGen[t][targetCurrent[t]] # "none"
                  => targetGen'[t][targetCurrent[t]] \in TargetTerminal
             /\ \A r \in Runs : runs[r].target = t /\ runs[r].generation = targetCurrent[t]
                               => runs[r].state \in RunTerminal

\* A generation of a target is minted, is retired, or moves on.
TargetGenStep(t, g) ==
    \/ targetGen'[t][g] = targetGen[t][g]
    \/ g = targetCurrent[t] + 1 /\ targetCurrent'[t] = g /\ targetGen'[t][g] = "provisioning"
    \/ targetGen[t][g] \in TargetLive /\ targetGen'[t][g] \in TargetStates

\* ResetTarget and RecoverIncident roll one target over and touch no other.
LEMMA MintedTarget ==
    ASSUME TypeOK, NEW x \in Targets, NEW old, targetCurrent[x] \in 1..(MaxGen - 1),
           targetCurrent' = [targetCurrent EXCEPT ![x] = targetCurrent[x] + 1],
           targetGen' = [targetGen EXCEPT ![x] = Rollover(targetGen[x], targetCurrent[x], old)],
           \/ old = targetGen[x][targetCurrent[x]]
           \/ targetGen[x][targetCurrent[x]] \in TargetLive /\ old \in TargetStates,
           targetGen[x][targetCurrent[x]] # "none" => old \in TargetTerminal,
           \A r \in Runs : runs[r].target = x /\ runs[r].generation = targetCurrent[x]
                            => runs[r].state \in RunTerminal,
           UNCHANGED <<agentVars, workVars>>, LeaseActive(now)
    PROVE  \A t \in Targets : TargetRolls(t) /\ \A g \in Generations : TargetGenStep(t, g)
<1>1. \A g \in Generations :
        targetGen'[x][g] = IF g = targetCurrent[x] THEN old
                           ELSE IF g = targetCurrent[x] + 1 THEN "provisioning" ELSE targetGen[x][g]
  BY Zenon DEF Rollover, TypeOK
<1>2. \A t \in Targets \ {x} : targetGen'[t] = targetGen[t] /\ targetCurrent'[t] = targetCurrent[t]
  BY Zenon DEF TypeOK
<1>3. targetCurrent'[x] = targetCurrent[x] + 1 /\ targetCurrent'[x] \in Generations
  BY ControlCoreAssumption DEF TypeOK, Generations
<1>4. TargetRolls(x)
  <2>1. /\ targetGen'[x][targetCurrent[x]] = old
        /\ targetGen'[x][targetCurrent[x] + 1] = "provisioning"
    BY <1>1, <1>3, ControlCoreAssumption DEF Generations
  <2> QED
    BY <1>3, <2>1, Zenon DEF TargetRolls
<1>5. \A g \in Generations : TargetGenStep(x, g)
  BY <1>1, <1>3, Zenon DEF TargetGenStep
<1> QED
  BY <1>2, <1>4, <1>5, ZenonT(60) DEF TargetRolls, TargetGenStep

\* Every handler treats every target in one of these ways.
LEMMA TargetSteps ==
    ASSUME TypeOK, [Next]_vars, NEW t \in Targets
    PROVE  TargetRolls(t) /\ \A g \in Generations : TargetGenStep(t, g)
<1> USE ControlCoreAssumption DEF TypeOK, TargetRolls, TargetGenStep, Generations
<1> DEFINE Goal == TargetRolls(t) /\ \A g \in Generations : TargetGenStep(t, g)
<1>1. ASSUME NEW x \in Targets, CreateTarget(x)
      PROVE  Goal
  <2>1. targetCurrent' = [targetCurrent EXCEPT ![x] = 1] /\ targetCurrent[x] = 0
    BY <1>1, Zenon DEF CreateTarget
  <2>2. targetGen' = [targetGen EXCEPT ![x][1] = "provisioning"]
    BY <1>1, Zenon DEF CreateTarget
  <2>3. UNCHANGED <<agentVars, workVars>> /\ LeaseActive(now)
    BY <1>1, Zenon DEF CreateTarget
  <2>4. TargetRolls(t)
    <3>1. CASE t = x
      <4>1. targetCurrent'[x] = 1 /\ targetGen'[x][1] = "provisioning" /\ 1 \in Generations
        BY <2>1, <2>2
      <4>2. targetCurrent' = [targetCurrent EXCEPT ![x] = targetCurrent[x] + 1]
        BY <2>1
      <4> QED
        BY <2>3, <3>1, <4>1, <4>2
    <3>2. CASE t # x
      BY <2>1, <3>2, SMTT(30)
    <3> QED
      BY <3>1, <3>2, Zenon
  <2>5. \A g \in Generations : TargetGenStep(t, g)
    BY <2>1, <2>2
  <2> QED
    BY <2>4, <2>5, Zenon
<1>2. CASE CompleteLeaseTermination
  BY <1>2, RetiredIsTerminal, Zenon
     DEF CompleteLeaseTermination, TargetStates, RetiredTarget, TargetLive
<1>3. ASSUME NEW x \in Targets, NEW g \in Generations, NEW s \in TargetAsks,
             TransitionTargetGeneration(x, g, s)
      PROVE  Goal
  BY <1>3, TargetTable, SMTT(30) DEF TransitionTargetGeneration
<1>4. ASSUME NEW x \in Targets, QuarantineTarget(x)
      PROVE  Goal
  BY <1>4, TargetTable DEF QuarantineTarget
<1>5. ASSUME NEW x \in Targets, NEW i \in Incidents \cup {None}, ResetTarget(x, i)
      PROVE  Goal
  <2> DEFINE cur == targetCurrent[x]
             old == IF targetGen[x][cur] = "resettable" THEN "destroyed" ELSE targetGen[x][cur]
  <2>1. cur \in 1..(MaxGen - 1) /\ targetCurrent' = [targetCurrent EXCEPT ![x] = cur + 1]
    BY <1>5, SMTT(30) DEF ResetTarget
  <2>2. targetGen' = [targetGen EXCEPT ![x] = Rollover(targetGen[x], cur, old)]
    BY <1>5, Zenon DEF ResetTarget
  <2>3. old = targetGen[x][cur] \/ (targetGen[x][cur] \in TargetLive /\ old \in TargetStates)
    BY ResetMoves, Zenon
  <2>4. UNCHANGED <<agentVars, workVars>> /\ LeaseActive(now)
    BY <1>5, Zenon DEF ResetTarget
  <2>5. old \in TargetTerminal
    BY <1>5, Zenon DEF ResetTarget, TargetTerminal
  <2>6. \A r \in Runs : runs[r].target = x /\ runs[r].generation = cur
                        => runs[r].state \in RunTerminal
    BY <1>5, Zenon DEF ResetTarget
  <2> HIDE DEF old, TypeOK, TargetRolls, TargetGenStep
  <2> QED
    BY <2>1, <2>2, <2>3, <2>4, <2>5, <2>6, MintedTarget, ZenonT(60)
<1>6. ASSUME NEW r \in Runs, NEW s \in {"completed", "failed"}, NEW b \in Bundles,
             FinalizeTargetRun(r, s, b)
      PROVE  Goal
  BY <1>6, SMTT(60) DEF FinalizeTargetRun, BindOutcome, TargetStates, TargetLive
<1>7. ASSUME NEW i \in Incidents, RecoverTarget(i)
      PROVE  Goal
  <2>1. incidents[i].scope.target \in Targets
    BY <1>7, Zenon DEF RecoverTarget, IncidentRecords, Scopes
  <2> DEFINE x == incidents[i].scope.target
             cur == targetCurrent[x]
             old == RetiredTarget(targetGen[x][cur])
  <2>2. cur \in 1..(MaxGen - 1) /\ targetCurrent' = [targetCurrent EXCEPT ![x] = cur + 1]
    BY <1>7, Zenon DEF RecoverTarget
  <2>3. targetGen' = [targetGen EXCEPT ![x] = Rollover(targetGen[x], cur, old)]
    BY <1>7 DEF RecoverTarget
  <2>4. old = targetGen[x][cur] \/ (targetGen[x][cur] \in TargetLive /\ old \in TargetStates)
    BY <2>1, <2>2, RetiredMoves, SMTT(30)
  <2>5. UNCHANGED <<agentVars, workVars>> /\ LeaseActive(now)
    BY <1>7, Zenon DEF RecoverTarget
  <2> HIDE DEF old, x
  <2>6. x \in Targets
    BY <2>1, Zenon DEF x
  <2>7. targetGen[x][cur] # "none" => old \in TargetTerminal
    BY <2>2, <2>6, RetiredIsTerminal DEF old
  <2>8. \A r \in Runs : runs[r].target = x /\ runs[r].generation = cur
                        => runs[r].state \in RunTerminal
    BY <1>7, Zenon DEF RecoverTarget, RunSealed, x
  <2> HIDE DEF TypeOK, TargetRolls, TargetGenStep
  <2> QED
    BY <2>2, <2>3, <2>4, <2>5, <2>6, <2>7, <2>8, MintedTarget, ZenonT(60)
<1>8. CASE UNCHANGED <<targetCurrent, targetGen>>
  BY <1>8, Zenon
<1>9. ASSUME LeaseNext, ~ CompleteLeaseTermination
      PROVE  UNCHANGED <<targetCurrent, targetGen>>
  BY <1>9, ZenonT(60) DEF LeaseNext, AcquireResearchSession, RenewLease, BeginReleaseResearchSession,
              BeginDueLeaseExpiry, Tick, targetVars
<1>10. ASSUME IncidentNext, ~ \E i \in Incidents : RecoverTarget(i)
       PROVE  UNCHANGED <<targetCurrent, targetGen>>
  BY <1>10, ZenonT(60) DEF IncidentNext, CreateIncident, TransitionIncident, RecoverAgent,
               CompleteIncidentRecovery, SealRunIncidents, targetVars
<1>11. ASSUME TargetNext,
              ~ \E x \in Targets : CreateTarget(x) \/ QuarantineTarget(x),
              ~ \E x \in Targets, g \in Generations, a \in TargetAsks :
                  TransitionTargetGeneration(x, g, a),
              ~ \E x \in Targets, i \in Incidents \cup {None} : ResetTarget(x, i),
              ~ \E r \in Runs, a \in {"completed", "failed"}, b \in Bundles :
                  FinalizeTargetRun(r, a, b)
       PROVE  UNCHANGED <<targetCurrent, targetGen>>
  BY <1>11, ZenonT(60) DEF TargetNext, StartTargetRun, TransitionTargetRun, CreateTargetOperation,
               TransitionTargetOperation, targetVars
<1> HIDE DEF TypeOK, TargetRolls, TargetGenStep
<1>12. CASE TargetNext
  BY <1>1, <1>3, <1>4, <1>5, <1>6, <1>8, <1>11, <1>12
<1>13. CASE LeaseNext
  BY <1>2, <1>8, <1>9, <1>13, Zenon
<1>14. CASE AgentNext
  BY <1>8, <1>14, AgentFrame, Zenon DEF targetVars
<1>15. CASE IncidentNext
  BY <1>7, <1>8, <1>10, <1>15, Zenon
<1>16. CASE UNCHANGED vars
  BY <1>8, <1>16, Zenon DEF vars, targetVars
<1> QED
  BY <1>12, <1>13, <1>14, <1>15, <1>16, Zenon DEF Goal, Next

=============================================================================
