----------------------------- MODULE CoreProofs -----------------------------
(***************************************************************************)
(* The safety properties of ControlCore that relate several records,       *)
(* each from the step lemmas of CoreStepProofs, and what incidents and     *)
(* recovery promise (incidents.go): a replaced agent generation lost       *)
(* no evidence, and a recovering incident has its replacement.             *)
(***************************************************************************)
EXTENDS CoreStepProofs

-----------------------------------------------------------------------------

\* Generations are numbered without a gap and every exec, run and operation
\* names a generation, a target and a run that exist, for ever.
THEOREM ReferencesStand == Spec => []ReferencesResolve
<1>1. Init => ReferencesResolve
  BY DEF Init, ReferencesResolve, Generations
<1>2. TypeOK /\ TypeOK' /\ LeasePhasesAgree /\ ReferencesResolve /\ [Next]_vars => ReferencesResolve'
  <2> SUFFICES ASSUME TypeOK, TypeOK', LeasePhasesAgree, ReferencesResolve, [Next]_vars
               PROVE  ReferencesResolve'
    BY Zenon
  <2>1. AgentRolls /\ \A g \in Generations : AgentGenStep(g)
    BY AgentSteps, Zenon
  <2>2. agentCurrent \in Nat /\ agentCurrent' \in Nat /\ agentCurrent' >= agentCurrent
    BY <2>1, ControlCoreAssumption DEF TypeOK, AgentRolls
  <2>3. \A t \in Targets : /\ targetCurrent[t] \in Nat /\ targetCurrent'[t] \in Nat
                           /\ targetCurrent'[t] >= targetCurrent[t]
    BY TargetSteps, ControlCoreAssumption DEF TypeOK, TargetRolls
  <2>4. ASSUME NEW g \in Generations
        PROVE  agentGen'[g] = "none" <=> g > agentCurrent'
    BY <2>1, <2>2, LiveIsNotTerminal, ControlCoreAssumption
       DEF AgentRolls, AgentGenStep, ReferencesResolve, AgentStates, Generations
  <2>5. ASSUME NEW t \in Targets, NEW g \in Generations
        PROVE  targetGen'[t][g] = "none" <=> g > targetCurrent'[t]
    <3>1. TargetRolls(t) /\ TargetGenStep(t, g)
      BY TargetSteps, Zenon
    <3>2. targetCurrent'[t] = targetCurrent[t]
            \/ (/\ targetCurrent'[t] = targetCurrent[t] + 1
                /\ targetGen'[t][targetCurrent'[t]] = "provisioning")
      BY <3>1, Zenon DEF TargetRolls, TypeOK
    <3> QED
      BY <2>3, <3>1, <3>2, LiveIsNotTerminal, ControlCoreAssumption
         DEF TargetGenStep, ReferencesResolve, TargetStates, Generations
  <2>6. ASSUME NEW e \in Execs, execs'[e].state # "none"
        PROVE  execs'[e].generation \in 1..agentCurrent'
    BY <2>2, <2>6, ExecSteps, LiveIsNotTerminal
       DEF ExecStep, AgentAcceptsWork, LeasePhasesAgree, ReferencesResolve, ExecStates, Generations
  <2>7. ASSUME NEW r \in Runs
        PROVE  IF runs'[r].state = "none" THEN runs'[r].target = None
               ELSE /\ runs'[r].target \in Targets
                    /\ runs'[r].generation \in 1..targetCurrent'[runs'[r].target]
                    /\ runs'[r].agentGeneration \in 1..agentCurrent'
    BY <2>2, <2>3, RunSteps, LiveIsNotTerminal
       DEF RunStep, AgentAcceptsWork, LeasePhasesAgree, ReferencesResolve, RunStates, Generations
  <2>8. ASSUME NEW o \in Ops, ops'[o].state # "none"
        PROVE  ops'[o].run \in Runs /\ runs'[ops'[o].run].state # "none"
    <3>1. ops'[o].run \in Runs /\ runs[ops'[o].run].state # "none"
      BY <2>8, OpSteps, LiveIsNotTerminal, Zenon DEF OpStep, ReferencesResolve, OperationStates
    <3> QED
      BY <3>1, RunSteps, LiveIsNotTerminal, Zenon DEF RunStep
  <2> QED
    BY <2>4, <2>5, <2>6, <2>7, <2>8, Zenon DEF ReferencesResolve
<1> QED
  BY <1>1, <1>2, TypeCorrect, LeasePhases, PTL DEF Spec

-----------------------------------------------------------------------------

\* A step that mints a generation mints the next one of one resource and
\* leaves the previous one terminal.
THEOREM SingleRollover == Spec => RolloverIsSingle
<1>1. ASSUME TypeOK, LeasePhasesAgree, ReferencesResolve, [Next]_vars
      PROVE  /\ agentCurrent' # agentCurrent /\ agentCurrent > 0 =>
                  /\ agentCurrent' = agentCurrent + 1 /\ targetCurrent' = targetCurrent
                  /\ agentGen'[agentCurrent] \in AgentTerminal
             /\ \A t \in Targets : targetCurrent'[t] # targetCurrent[t] /\ targetCurrent[t] > 0 =>
                  /\ targetCurrent' = [targetCurrent EXCEPT ![t] = @ + 1]
                  /\ agentCurrent' = agentCurrent
                  /\ targetGen'[t][targetCurrent[t]] \in TargetTerminal
  <2>1. ASSUME agentCurrent' # agentCurrent, agentCurrent > 0
        PROVE  /\ agentCurrent' = agentCurrent + 1 /\ targetCurrent' = targetCurrent
               /\ agentGen'[agentCurrent] \in AgentTerminal
    BY <1>1, <2>1, AgentSteps, ControlCoreAssumption
       DEF AgentRolls, targetVars, ReferencesResolve, TypeOK, Generations
  <2>2. ASSUME NEW t \in Targets, targetCurrent'[t] # targetCurrent[t], targetCurrent[t] > 0
        PROVE  /\ targetCurrent' = [targetCurrent EXCEPT ![t] = @ + 1]
               /\ agentCurrent' = agentCurrent
               /\ targetGen'[t][targetCurrent[t]] \in TargetTerminal
    <3>1. targetCurrent[t] \in Generations /\ targetGen[t][targetCurrent[t]] # "none"
      BY <1>1, <2>2, ControlCoreAssumption DEF TypeOK, Generations, ReferencesResolve
    <3> QED
      BY <1>1, <2>2, <3>1, TargetSteps DEF TargetRolls, agentVars
  <2> QED
    BY <2>1, <2>2, Zenon
<1> QED
  BY <1>1, TypeCorrect, LeasePhases, ReferencesStand, PTL DEF Spec, RolloverIsSingle
-----------------------------------------------------------------------------

\* At most one realization of the agent and of each target is alive.
THEOREM OneLiveGeneration == Spec => []OnlyCurrentGenerationLives
<1>1. Init => OnlyCurrentGenerationLives
  BY ControlCoreAssumption DEF Init, OnlyCurrentGenerationLives, Generations
<1>2. /\ TypeOK /\ TypeOK' /\ LeasePhasesAgree /\ ReferencesResolve
      /\ OnlyCurrentGenerationLives /\ [Next]_vars
      => OnlyCurrentGenerationLives'
  <2> SUFFICES ASSUME TypeOK, TypeOK', LeasePhasesAgree, ReferencesResolve,
                      OnlyCurrentGenerationLives, [Next]_vars
               PROVE  OnlyCurrentGenerationLives'
    BY Zenon
  <2>1. AgentRolls /\ \A g \in Generations : AgentGenStep(g)
    BY AgentSteps, Zenon
  <2>2. agentCurrent \in Nat /\ agentCurrent' \in Nat
    BY ControlCoreAssumption DEF TypeOK
  <2>3. ASSUME NEW g \in Generations, g < agentCurrent'
        PROVE  agentGen'[g] \in AgentTerminal
    <3>1. CASE g < agentCurrent
      BY <2>1, <2>2, <3>1, LiveIsNotTerminal
         DEF AgentGenStep, OnlyCurrentGenerationLives, Generations
    <3>2. CASE g = agentCurrent /\ agentCurrent' = agentCurrent + 1
      BY <2>1, <2>2, <3>2 DEF AgentRolls, ReferencesResolve, Generations
    <3> QED
      BY <2>1, <2>2, <2>3, <3>1, <3>2, SMTT(60) DEF AgentRolls, Generations
  <2>4. ASSUME NEW e \in Execs, execs'[e].generation < agentCurrent'
        PROVE  execs'[e].state \notin ExecLive
    <3>1. execs[e].generation \in Nat /\ execs'[e].generation \in Nat
      BY ControlCoreAssumption DEF TypeOK, ExecRecords
    <3>2. CASE agentCurrent' = agentCurrent
      BY <2>2, <2>4, <3>1, <3>2, ExecSteps DEF ExecStep, OnlyCurrentGenerationLives
    <3>3. CASE agentCurrent' # agentCurrent
      <4>1. execs'[e] = execs[e] /\ agentCurrent' = agentCurrent + 1
        BY <2>1, <3>3, Zenon DEF AgentRolls, workVars
      <4>2. CASE agentCurrent = 0
        BY <2>4, <3>1, <4>1, <4>2 DEF ReferencesResolve, ExecLive
      <4>3. CASE agentCurrent > 0
        BY <2>1, <2>2, <2>4, <3>1, <3>3, <4>1, <4>3 DEF AgentRolls, OnlyCurrentGenerationLives
      <4> QED
        BY <2>2, <4>2, <4>3
    <3> QED
      BY <3>2, <3>3, Zenon
  <2>5. ASSUME NEW t \in Targets
        PROVE  /\ targetCurrent[t] \in Nat /\ targetCurrent'[t] \in Nat
               /\ \/ targetCurrent'[t] = targetCurrent[t]
                  \/ targetCurrent'[t] = targetCurrent[t] + 1 /\ runs' = runs
    BY TargetSteps, ControlCoreAssumption DEF TypeOK, TargetRolls, workVars
  <2>6. ASSUME NEW t \in Targets, NEW g \in Generations, g < targetCurrent'[t]
        PROVE  targetGen'[t][g] \in TargetTerminal
    <3>1. CASE g < targetCurrent[t]
      BY <2>5, <3>1, TargetSteps, LiveIsNotTerminal
         DEF TargetGenStep, OnlyCurrentGenerationLives, Generations
    <3>2. CASE g = targetCurrent[t] /\ targetCurrent'[t] = targetCurrent[t] + 1
      BY <2>5, <3>2, TargetSteps DEF TargetRolls, ReferencesResolve, Generations
    <3> QED
      BY <2>5, <2>6, <3>1, <3>2 DEF Generations
  <2>7. ASSUME NEW r \in Runs, NEW t \in Targets, runs'[r].target = t,
               runs'[r].generation < targetCurrent'[t]
        PROVE  runs'[r].state \in RunTerminal
    <3>1. runs[r].generation \in Nat /\ runs'[r].generation \in Nat
      BY ControlCoreAssumption, SMTT(60) DEF TypeOK, RunRecords
    <3>2. CASE targetCurrent'[t] = targetCurrent[t]
      BY <2>5, <2>7, <3>1, <3>2, RunSteps, LiveIsNotTerminal, SMTT(30)
         DEF RunStep, OnlyCurrentGenerationLives
    <3>3. CASE targetCurrent'[t] # targetCurrent[t]
      <4>1. runs' = runs /\ targetCurrent'[t] = targetCurrent[t] + 1
        BY <2>5, <3>3, Zenon
      <4>2. runs[r].state # "none" /\ runs[r].generation \in 1..targetCurrent[t]
        BY <2>7, <4>1, ControlCoreAssumption, ZenonT(60) DEF ReferencesResolve
      <4>3. CASE runs[r].generation = targetCurrent[t]
        BY <2>5, <2>7, <3>3, <4>1, <4>2, <4>3, TargetSteps DEF TargetRolls
      <4>4. CASE runs[r].generation < targetCurrent[t]
        BY <2>7, <4>1, <4>4, Zenon DEF OnlyCurrentGenerationLives
      <4> QED
        BY <2>5, <3>1, <4>2, <4>3, <4>4
    <3> QED
      BY <3>2, <3>3, Zenon
  <2> QED
    BY <2>3, <2>4, <2>6, <2>7, Zenon DEF OnlyCurrentGenerationLives
<1> QED
  BY <1>1, <1>2, TypeCorrect, LeasePhases, ReferencesStand, PTL DEF Spec

-----------------------------------------------------------------------------

\* From the deadline, or from the start of a termination, on, nothing is
\* admitted and a live item of work only ends.
THEOREM ClosedLeaseDrains == Spec => ClosedLeaseOnlyDrains
<1>1. ASSUME TypeOK, TypeOK', LeasePhasesAgree, [Next]_vars,
             lease # "none", termination # "none" \/ now >= expiresAt
      PROVE  /\ \A e \in Execs : OnlyDrains(execs[e], execs'[e], ExecLive, ExecTerminal)
             /\ \A r \in Runs : OnlyDrains(runs[r], runs'[r], RunLive, RunTerminal)
             /\ \A o \in Ops : OnlyDrains(ops[o], ops'[o], OperationLive, OperationTerminal)
             /\ agentCurrent' = agentCurrent /\ targetCurrent' = targetCurrent
  <2>1. ~ LeaseActive(now) /\ session # "none"
    BY <1>1, ControlCoreAssumption DEF LeaseActive, LeasePhasesAgree, TypeOK
  <2>2. ASSUME NEW e \in Execs PROVE OnlyDrains(execs[e], execs'[e], ExecLive, ExecTerminal)
    BY <1>1, <2>1, ExecSteps, Zenon DEF OnlyDrains, ExecStep, ExecStates
  <2>3. ASSUME NEW r \in Runs PROVE OnlyDrains(runs[r], runs'[r], RunLive, RunTerminal)
    BY <1>1, <2>1, RunSteps, Zenon DEF OnlyDrains, RunStep, RunStates
  <2>4. ASSUME NEW o \in Ops PROVE OnlyDrains(ops[o], ops'[o], OperationLive, OperationTerminal)
    BY <1>1, <2>1, OpSteps, Zenon DEF OnlyDrains, OpStep, OperationStates
  <2>5. agentCurrent' = agentCurrent
    BY <1>1, <2>1, AgentSteps, Zenon DEF AgentRolls
  <2>6. \A t \in Targets : targetCurrent'[t] = targetCurrent[t]
    BY <1>1, <2>1, TargetSteps, Zenon DEF TargetRolls
  <2>7. targetCurrent' = targetCurrent
    BY <1>1, <2>6 DEF TypeOK
  <2> QED
    BY <2>2, <2>3, <2>4, <2>5, <2>7, Zenon
<1> QED
  BY <1>1, TypeCorrect, LeasePhases, PTL DEF Spec, ClosedLeaseOnlyDrains
-----------------------------------------------------------------------------

\* A lease that has ended left nothing alive.  The completion retires only the
\* current generations: that the replaced ones are terminal already is
\* OneLiveGeneration.
THEOREM TerminationDrains == Spec => []TerminatedLeaseIsDrained
<1>1. Init => TerminatedLeaseIsDrained
  BY Zenon DEF Init, TerminatedLeaseIsDrained
<1>2. /\ TypeOK /\ TypeOK' /\ LeasePhasesAgree /\ LeasePhasesAgree' /\ ReferencesResolve
      /\ OnlyCurrentGenerationLives /\ TerminatedLeaseIsDrained /\ [Next]_vars
      => TerminatedLeaseIsDrained'
  <2> SUFFICES ASSUME TypeOK, TypeOK', LeasePhasesAgree, LeasePhasesAgree', ReferencesResolve,
                      OnlyCurrentGenerationLives, TerminatedLeaseIsDrained, [Next]_vars,
                      lease' \in {"released", "expired"}
               PROVE  TerminatedLeaseIsDrained'
    BY Zenon DEF TerminatedLeaseIsDrained
  <2>1. session' = "released"
    BY Zenon DEF LeasePhasesAgree
  <2>2. CASE lease \in {"released", "expired"}
    <3>1. ~ LeaseActive(now) /\ session # "none"
      BY <2>2, Zenon DEF LeaseActive, LeasePhasesAgree
    <3>2. \A e \in Execs : execs'[e].state \notin ExecLive
      BY <2>2, <3>1, ExecSteps, Zenon DEF ExecStep, TerminatedLeaseIsDrained
    <3>3. \A r \in Runs : runs'[r].state \notin RunLive
      BY <2>2, <3>1, RunSteps, Zenon DEF RunStep, TerminatedLeaseIsDrained
    <3>4. \A o \in Ops : ops'[o].state \notin OperationLive
      BY <2>2, <3>1, OpSteps, Zenon DEF OpStep, TerminatedLeaseIsDrained
    <3>5. ASSUME NEW g \in Generations
          PROVE  agentGen'[g] \notin AgentLive
      <4>1. agentCurrent \in Nat /\ agentCurrent' = agentCurrent
        BY <3>1, AgentSteps, ControlCoreAssumption DEF AgentRolls, TypeOK
      <4>2. agentGen[g] \notin AgentLive
        BY <2>2, Zenon DEF TerminatedLeaseIsDrained
      <4> QED
        BY <4>1, <4>2, AgentSteps DEF AgentGenStep
    <3>6. ASSUME NEW t \in Targets, NEW g \in Generations
          PROVE  targetGen'[t][g] \notin TargetLive
      <4>1. targetCurrent[t] \in Nat /\ targetCurrent'[t] = targetCurrent[t]
        BY <3>1, TargetSteps, ControlCoreAssumption DEF TargetRolls, TypeOK
      <4>2. targetGen[t][g] \notin TargetLive
        BY <2>2, Zenon DEF TerminatedLeaseIsDrained
      <4> QED
        BY <4>1, <4>2, TargetSteps DEF TargetGenStep
    <3> QED
      BY <2>1, <3>2, <3>3, <3>4, <3>5, <3>6, Zenon DEF TerminatedLeaseIsDrained
  <2>3. CASE CompleteLeaseTermination
    <3>1. WorkFinalized' /\ UNCHANGED <<agentCurrent, targetCurrent>>
      BY <2>3, Zenon DEF CompleteLeaseTermination, WorkFinalized, workVars
    <3>2. ASSUME NEW g \in Generations
          PROVE  agentGen'[g] \notin AgentLive
      <4>1. agentGen'[g] = IF g = agentCurrent THEN RetiredAgent(agentGen[g]) ELSE agentGen[g]
        BY <2>3, Zenon DEF CompleteLeaseTermination, TypeOK
      <4>2. g < agentCurrent => agentGen[g] \in AgentTerminal
        BY Zenon DEF OnlyCurrentGenerationLives
      <4>3. g > agentCurrent => agentGen[g] = "none"
        BY Zenon DEF ReferencesResolve
      <4>4. agentGen[g] \in AgentStates => RetiredAgent(agentGen[g]) \in AgentTerminal
        BY RetiredIsTerminal, Zenon
      <4>5. agentGen[g] \in AgentStates \cup {"none"} /\ RetiredAgent("none") = "none"
        BY RetiredIsTerminal, Zenon DEF TypeOK
      <4>6. g < agentCurrent \/ g = agentCurrent \/ g > agentCurrent
        BY ControlCoreAssumption DEF TypeOK, Generations
      <4> QED
        BY <4>1, <4>2, <4>3, <4>4, <4>5, <4>6, LiveIsNotTerminal, Zenon DEF AgentStates
    <3>3. ASSUME NEW t \in Targets, NEW g \in Generations
          PROVE  targetGen'[t][g] \notin TargetLive
      <4>1. targetGen'[t][g] =
              IF g = targetCurrent[t] THEN RetiredTarget(targetGen[t][g]) ELSE targetGen[t][g]
        BY <2>3, Zenon DEF CompleteLeaseTermination, TypeOK
      <4>2. g < targetCurrent[t] => targetGen[t][g] \in TargetTerminal
        BY Zenon DEF OnlyCurrentGenerationLives
      <4>3. g > targetCurrent[t] => targetGen[t][g] = "none"
        BY Zenon DEF ReferencesResolve
      <4>4. targetGen[t][g] \in TargetStates => RetiredTarget(targetGen[t][g]) \in TargetTerminal
        BY RetiredIsTerminal, Zenon
      <4>5. targetGen[t][g] \in TargetStates \cup {"none"} /\ RetiredTarget("none") = "none"
        BY RetiredIsTerminal, Zenon DEF TypeOK
      <4>6. g < targetCurrent[t] \/ g = targetCurrent[t] \/ g > targetCurrent[t]
        BY ControlCoreAssumption DEF TypeOK, Generations
      <4> QED
        BY <4>1, <4>2, <4>3, <4>4, <4>5, <4>6, LiveIsNotTerminal, Zenon DEF TargetStates
    <3> QED
      BY <2>1, <3>1, <3>2, <3>3, SMTT(30) DEF TerminatedLeaseIsDrained, WorkFinalized
  <2>4. ASSUME lease \notin {"released", "expired"}
        PROVE  CompleteLeaseTermination
    <3>1. lease' # lease
      BY <2>4, Zenon
    <3>2. ~ AgentNext /\ ~ TargetNext /\ ~ IncidentNext
      BY <3>1, AgentFrame, TargetFrame, IncidentFrame, Zenon DEF leaseVars
    <3>3. LeaseNext
      BY <3>1, <3>2, Zenon DEF Next, vars, leaseVars
    <3> QED
      BY <3>1, <3>3, Zenon DEF LeaseNext, AcquireResearchSession, RenewLease, BeginDueLeaseExpiry,
                        BeginReleaseResearchSession, Tick, leaseVars
  <2> QED
    BY <2>2, <2>3, <2>4, Zenon
<1> QED
  BY <1>1, <1>2, TypeCorrect, LeasePhases, ReferencesStand, OneLiveGeneration, PTL DEF Spec

-----------------------------------------------------------------------------

\* No renewal, in whatever order it meets the reaper, leaves an expiry that
\* began before the deadline.
THEOREM ExpiryIsDue == Spec => []ExpiryOnlyWhenDue
<1>1. Init => ExpiryOnlyWhenDue
  BY Zenon DEF Init, ExpiryOnlyWhenDue
<1>2. TypeOK /\ LeasePhasesAgree /\ ExpiryOnlyWhenDue /\ [Next]_vars => ExpiryOnlyWhenDue'
  <2> SUFFICES ASSUME TypeOK, LeasePhasesAgree, ExpiryOnlyWhenDue, [Next]_vars
               PROVE  ExpiryOnlyWhenDue'
    BY Zenon
  <2> USE DEF ExpiryOnlyWhenDue
  <2>1. ASSUME NEW ttl \in TTLs, AcquireResearchSession(ttl)
        PROVE  ExpiryOnlyWhenDue'
    BY <2>1, Zenon DEF AcquireResearchSession, LeasePhasesAgree
  <2>2. ASSUME NEW ttl \in TTLs, RenewLease(ttl)
        PROVE  ExpiryOnlyWhenDue'
    BY <2>2, Zenon DEF RenewLease, LeaseActive
  <2>3. CASE BeginReleaseResearchSession
    BY <2>3, Zenon DEF BeginReleaseResearchSession
  <2>4. CASE BeginDueLeaseExpiry
    BY <2>4, ControlCoreAssumption DEF BeginDueLeaseExpiry, SecondRead, TypeOK
  <2>5. CASE CompleteLeaseTermination
    BY <2>5, SMTT(30) DEF CompleteLeaseTermination, TerminationInProgress
  <2>6. CASE UNCHANGED <<expiresAt, termination, initiatedAt>>
    BY <2>6, Zenon
  <2>7. CASE Tick
    BY <2>6, <2>7, Zenon DEF Tick, leaseVars
  <2> QED
    BY <2>1, <2>2, <2>3, <2>4, <2>5, <2>6, <2>7, AgentFrame, TargetFrame, IncidentFrame, Zenon
       DEF Next, LeaseNext, vars, leaseVars
<1> QED
  BY <1>1, <1>2, TypeCorrect, LeasePhases, PTL DEF Spec

-----------------------------------------------------------------------------

\* Quiescing and admission exclude one another: work is admitted only to a
\* ready or running generation, and only an idle generation starts quiescing.
THEOREM QuiescingStaysIdle == Spec => []QuiescingIsIdle
<1>1. Init => QuiescingIsIdle
  BY Zenon DEF Init, QuiescingIsIdle
<1>2. TypeOK /\ LeasePhasesAgree /\ ReferencesResolve /\ QuiescingIsIdle /\ [Next]_vars
      => QuiescingIsIdle'
  <2> SUFFICES ASSUME TypeOK, LeasePhasesAgree, ReferencesResolve, QuiescingIsIdle, [Next]_vars,
                      NEW g \in Generations, agentGen'[g] = "quiescing"
               PROVE  /\ \A e \in Execs : execs'[e].generation = g => execs'[e].state \notin ExecLive
                      /\ \A o \in Ops : ops'[o].state \in OperationLive
                                          => runs'[ops'[o].run].agentGeneration # g
    BY Zenon DEF QuiescingIsIdle
  <2>1. agentGen[g] = "quiescing" \/ (AgentIdle(g) /\ UNCHANGED workVars)
    BY AgentSteps, Zenon DEF AgentGenStep
  <2>2. CASE AgentIdle(g) /\ UNCHANGED workVars
    BY <2>2, Zenon DEF AgentIdle, workVars
  <2>3. CASE agentGen[g] = "quiescing"
    <3>1. ASSUME NEW e \in Execs, execs'[e].generation = g
          PROVE  execs'[e].state \notin ExecLive
      BY <2>3, <3>1, ExecSteps, Zenon DEF ExecStep, AgentAcceptsWork, LeasePhasesAgree, QuiescingIsIdle
    <3>2. ASSUME NEW o \in Ops, ops'[o].state \in OperationLive
          PROVE  runs'[ops'[o].run].agentGeneration # g
      <4>1. CASE ops[o].state \in OperationLive
        <5>1. ops'[o].run = ops[o].run
          BY <4>1, OpSteps, LiveIsNotTerminal, SMTT(30) DEF OpStep, OperationStates
        <5>2. runs[ops[o].run].agentGeneration # g
          BY <2>3, <4>1, SMTT(30) DEF QuiescingIsIdle
        <5>3. ops[o].run \in Runs /\ runs[ops[o].run].state # "none"
          BY <4>1, LiveIsNotTerminal, Zenon DEF ReferencesResolve, OperationStates
        <5> QED
          BY <5>1, <5>2, <5>3, RunSteps, SMTT(60) DEF RunStep
      <4>2. CASE ops[o].state \notin OperationLive
        BY <2>3, <3>2, <4>2, OpSteps, SMTT(30) DEF OpStep, AgentAcceptsWork
      <4> QED
        BY <4>1, <4>2, Zenon
    <3> QED
      BY <3>1, <3>2, Zenon
  <2> QED
    BY <2>1, <2>2, <2>3, SMTT(30)
<1> QED
  BY <1>1, <1>2, TypeCorrect, LeasePhases, ReferencesStand, PTL DEF Spec

-----------------------------------------------------------------------------
\* The inductive invariant of recovery: a sealed incident carries evidence,
\* and a generation that was not minted yet is claimed by no incident, so
\* that minting one never takes a replacement away from another incident.
RecoveryInv ==
    /\ \A i \in Incidents : incidents[i].state = "evidence_sealed" => HasEvidence(i)
    /\ \A g \in Generations : g > agentCurrent => agentRecovery[g] = None
    /\ \A t \in Targets, g \in Generations : g > targetCurrent[t] => targetRecovery[t][g] = None

-----------------------------------------------------------------------------
(* What a step can do to one incident and to the claims on generations.    *)

\* An incident is created, is sealed with evidence, is resolved, or starts to
\* recover; its scope never changes, nor does the evidence of a sealed one.
IncidentStep(i) ==
    \/ incidents'[i] = incidents[i]
    \/ incidents[i].state = "none" /\ incidents'[i].state = "open"
    \/ /\ incidents'[i].scope = incidents[i].scope
       /\ \/ /\ incidents[i].state \notin {"recovering", "resolved"}
             /\ incidents'[i].state \notin {"none", "recovering"}
             /\ incidents'[i].state = "evidence_sealed" => HasEvidence(i)'
          \/ /\ incidents'[i].evidence = incidents[i].evidence
             /\ incidents[i].state = "recovering" /\ incidents'[i].state = "resolved"
          \/ /\ incidents'[i].evidence = incidents[i].evidence
             /\ incidents[i].state = "evidence_sealed" /\ incidents'[i].state = "recovering"
             /\ RecoverTarget(i) \/ RecoverAgent(i)

\* Every handler treats every incident in one of these ways.
LEMMA IncidentSteps ==
    ASSUME TypeOK, [Next]_vars, NEW i \in Incidents
    PROVE  IncidentStep(i)
<1> USE DEF TypeOK, IncidentStep, IncidentRecords
<1>1. ASSUME NEW x \in Incidents, NEW scope \in ScopeAsks, NEW evidence \in EvidenceAsks,
             CreateIncident(x, scope, evidence)
      PROVE  IncidentStep(i)
  BY <1>1, Zenon DEF CreateIncident
<1>2. ASSUME NEW x \in Incidents, NEW s \in IncidentStates, NEW intents \in IntentAsks,
             TransitionIncident(x, s, intents)
      PROVE  IncidentStep(i)
  <2>1. incidents[x].state \notin {"recovering", "resolved"} /\ s \notin {"none", "recovering"}
    BY <1>2, Zenon DEF TransitionIncident, IncidentTransitions, IncidentStates
  <2>2. incidents' = [incidents EXCEPT ![x] = [incidents[x] EXCEPT !.state = s, !.intents = intents]]
    BY <1>2, Zenon DEF TransitionIncident
  <2>3. s = "evidence_sealed" => HasEvidence(x)
    BY <1>2, Zenon DEF TransitionIncident
  <2>4. CASE i = x
    <3>1. /\ incidents'[i].state = s /\ incidents'[i].scope = incidents[i].scope
          /\ incidents'[i].evidence = incidents[i].evidence
      BY <2>2, <2>4
    <3> QED
      BY <2>1, <2>3, <2>4, <3>1, Zenon DEF HasEvidence
  <2>5. CASE i # x
    BY <2>2, <2>5, Zenon
  <2> QED
    BY <2>4, <2>5, Zenon
<1>3. ASSUME NEW x \in Incidents, RecoverTarget(x)
      PROVE  IncidentStep(i)
  <2>1. /\ incidents[x].state = "evidence_sealed"
        /\ incidents' = [incidents EXCEPT ![x] =
             [incidents[x] EXCEPT !.state = "recovering",
                                  !.intents = incidents[x].intents \cup {"target"}]]
    BY <1>3, Zenon DEF RecoverTarget
  <2> QED
    BY <1>3, <2>1
<1>4. ASSUME NEW x \in Incidents, RecoverAgent(x)
      PROVE  IncidentStep(i)
  <2>1. /\ incidents[x].state = "evidence_sealed"
        /\ incidents' = [incidents EXCEPT ![x] =
             [incidents[x] EXCEPT !.state = "recovering",
                                  !.intents = incidents[x].intents \cup {"agent"}]]
    BY <1>4, Zenon DEF RecoverAgent
  <2> QED
    BY <1>4, <2>1
<1>5. ASSUME NEW x \in Incidents, CompleteIncidentRecovery(x)
      PROVE  IncidentStep(i)
  BY <1>5 DEF CompleteIncidentRecovery
<1>6. ASSUME NEW r \in Runs, NEW sealed \in SUBSET Incidents, SealRunIncidents(r, sealed)
      PROVE  IncidentStep(i)
  <2> DEFINE b == runs[r].bundle
  <2>1. /\ b # None
        /\ incidents'[i] = IF i \in sealed /\ incidents[i].state = "open"
                 THEN [incidents[i] EXCEPT !.state = "evidence_sealed",
                                           !.evidence = [bundle |-> b, artifacts |->
                                             incidents[i].evidence.artifacts \cup {b}]]
                 ELSE incidents[i]
    BY <1>6, Zenon DEF SealRunIncidents
  <2>2. CASE i \in sealed /\ incidents[i].state = "open"
    <3>1. /\ incidents'[i].state = "evidence_sealed" /\ incidents'[i].scope = incidents[i].scope
          /\ incidents'[i].evidence.bundle = b
      BY <2>1, <2>2
    <3> QED
      BY <2>1, <2>2, <3>1, Zenon DEF HasEvidence
  <2> QED
    BY <2>1, <2>2, Zenon
<1>7. CASE UNCHANGED incidents
  BY <1>7, Zenon
<1> HIDE DEF TypeOK, IncidentStep, IncidentRecords
<1>8. CASE IncidentNext
  BY <1>1, <1>2, <1>3, <1>4, <1>5, <1>6, <1>8, Zenon DEF IncidentNext
<1> QED
  BY <1>7, <1>8, LeaseFrame, AgentFrame, TargetFrame, Zenon DEF Next, vars

\* The recovery incident of an agent generation is written once, when the
\* generation is minted for it.
AgentClaimStep(g) ==
    \/ agentRecovery'[g] = agentRecovery[g]
    \/ /\ g = agentCurrent + 1 /\ agentCurrent' = g
       /\ agentRecovery'[g] \in Incidents /\ RecoverAgent(agentRecovery'[g])

\* The recovery incident of a target generation is written once, when the
\* generation is minted, be it by a recovery or by a reset.
TargetClaimStep(t, g) ==
    \/ targetRecovery'[t][g] = targetRecovery[t][g]
    \/ g = targetCurrent[t] + 1 /\ targetCurrent'[t] = g

\* Every handler treats the claims on agent generations in this way.
LEMMA AgentClaims ==
    ASSUME TypeOK, [Next]_vars, NEW g \in Generations
    PROVE  AgentClaimStep(g)
<1>1. ASSUME NEW i \in Incidents, RecoverAgent(i)
      PROVE  AgentClaimStep(g)
  <2>1. /\ agentCurrent' = agentCurrent + 1
        /\ agentRecovery' = [agentRecovery EXCEPT ![agentCurrent + 1] = i]
    BY <1>1, Zenon DEF RecoverAgent
  <2> QED
    BY <1>1, <2>1, Zenon DEF AgentClaimStep, TypeOK
<1>2. CASE UNCHANGED agentRecovery
  BY <1>2, ZenonT(60) DEF AgentClaimStep
<1>3. ASSUME IncidentNext, ~ \E i \in Incidents : RecoverAgent(i)
      PROVE  UNCHANGED agentRecovery
  BY <1>3, ZenonT(60) DEF IncidentNext, CreateIncident, TransitionIncident, RecoverTarget,
              CompleteIncidentRecovery, SealRunIncidents, agentVars
<1> QED
  BY <1>1, <1>2, <1>3, LeaseFrame, AgentFrame, TargetFrame, Zenon DEF Next, vars, agentVars

\* After the acquisition only RecoverIncident mints an agent generation.
LEMMA OnlyRecoveryReplaces ==
    ASSUME [Next]_vars, session # "none", agentCurrent' # agentCurrent
    PROVE  \E i \in Incidents : RecoverAgent(i)
<1>1. ~ LeaseNext
  BY Zenon DEF LeaseNext, AcquireResearchSession, RenewLease, BeginReleaseResearchSession,
         BeginDueLeaseExpiry, CompleteLeaseTermination, Tick, agentVars
<1>2. IncidentNext
  BY <1>1, AgentFrame, TargetFrame, Zenon DEF Next, vars, agentVars
<1>3. (~ \E i \in Incidents : RecoverAgent(i)) => UNCHANGED agentCurrent
  BY <1>2, ZenonT(60) DEF IncidentNext, CreateIncident, TransitionIncident, RecoverTarget,
              CompleteIncidentRecovery, SealRunIncidents, agentVars
<1> QED
  BY <1>3, Zenon

\* Every handler treats the claims on target generations in this way.
LEMMA TargetClaims ==
    ASSUME TypeOK, [Next]_vars, NEW t \in Targets, NEW g \in Generations
    PROVE  TargetClaimStep(t, g)
<1>1. ASSUME NEW x \in Targets, NEW i,
             targetCurrent' = [targetCurrent EXCEPT ![x] = targetCurrent[x] + 1],
             targetRecovery' = [targetRecovery EXCEPT ![x][targetCurrent[x] + 1] = i]
      PROVE  TargetClaimStep(t, g)
  <2>1. targetRecovery \in [Targets -> [Generations -> Incidents \cup {None}]]
    BY Zenon DEF TypeOK
  <2>2. CASE t = x
    BY <1>1, <2>1, <2>2, Zenon DEF TargetClaimStep, TypeOK
  <2>3. CASE t # x
    BY <1>1, <2>1, <2>3, Zenon DEF TargetClaimStep
  <2> QED
    BY <2>2, <2>3, Zenon
<1>2. ASSUME NEW x \in Targets, NEW i \in Incidents \cup {None}, ResetTarget(x, i)
      PROVE  TargetClaimStep(t, g)
  BY <1>1, <1>2, Zenon DEF ResetTarget
<1>3. ASSUME NEW i \in Incidents, RecoverTarget(i)
      PROVE  TargetClaimStep(t, g)
  <2>1. incidents[i].scope.target \in Targets
    BY <1>3, Zenon DEF RecoverTarget, TypeOK, IncidentRecords, Scopes
  <2> QED
    BY <1>1, <1>3, <2>1, Zenon DEF RecoverTarget
<1>4. CASE UNCHANGED targetRecovery
  BY <1>4, ZenonT(60) DEF TargetClaimStep
<1>5. ASSUME IncidentNext, ~ \E i \in Incidents : RecoverTarget(i)
      PROVE  UNCHANGED targetRecovery
  BY <1>5, ZenonT(60) DEF IncidentNext, CreateIncident, TransitionIncident, RecoverAgent,
              CompleteIncidentRecovery, SealRunIncidents, targetVars
<1>6. ASSUME TargetNext, ~ \E x \in Targets, i \in Incidents \cup {None} : ResetTarget(x, i)
      PROVE  UNCHANGED targetRecovery
  BY <1>6, ZenonT(60) DEF TargetNext, CreateTarget, TransitionTargetGeneration, QuarantineTarget,
              StartTargetRun, TransitionTargetRun, FinalizeTargetRun, BindOutcome,
              CreateTargetOperation, TransitionTargetOperation, targetVars
<1> QED
  BY <1>2, <1>3, <1>4, <1>5, <1>6, LeaseFrame, AgentFrame, Zenon DEF Next, vars, targetVars

-----------------------------------------------------------------------------

\* Sealed incidents carry evidence and generations to come are unclaimed.
THEOREM RecoveryIsPrepared == Spec => []RecoveryInv
<1>1. Init => RecoveryInv
  BY DEF Init, RecoveryInv, Generations
<1>2. TypeOK /\ TypeOK' /\ LeasePhasesAgree /\ RecoveryInv /\ [Next]_vars => RecoveryInv'
  <2> SUFFICES ASSUME TypeOK, TypeOK', LeasePhasesAgree, RecoveryInv, [Next]_vars
               PROVE  RecoveryInv'
    BY Zenon
  <2>1. ASSUME NEW i \in Incidents, incidents'[i].state = "evidence_sealed"
        PROVE  HasEvidence(i)'
    <3>1. IncidentStep(i)
      BY IncidentSteps, Zenon
    <3>2. CASE incidents'[i] = incidents[i]
      BY <2>1, <3>2, Zenon DEF RecoveryInv, HasEvidence
    <3> QED
      BY <2>1, <3>1, <3>2, Zenon DEF IncidentStep
  <2>2. ASSUME NEW g \in Generations, g > agentCurrent'
        PROVE  agentRecovery'[g] = None
    <3>1. agentCurrent \in Nat /\ agentCurrent' \in Nat /\ agentCurrent' >= agentCurrent
      BY AgentSteps, ControlCoreAssumption DEF TypeOK, AgentRolls
    <3>2. agentRecovery[g] = None
      BY <2>2, <3>1 DEF RecoveryInv, Generations
    <3> QED
      BY <2>2, <3>1, <3>2, AgentClaims DEF AgentClaimStep, Generations
  <2>3. ASSUME NEW t \in Targets, NEW g \in Generations, g > targetCurrent'[t]
        PROVE  targetRecovery'[t][g] = None
    <3>1. /\ targetCurrent[t] \in Nat /\ targetCurrent'[t] \in Nat
          /\ targetCurrent'[t] >= targetCurrent[t]
      BY TargetSteps, ControlCoreAssumption DEF TypeOK, TargetRolls
    <3>2. targetRecovery[t][g] = None
      BY <2>3, <3>1 DEF RecoveryInv, Generations
    <3> QED
      BY <2>3, <3>1, <3>2, TargetClaims DEF TargetClaimStep, Generations
  <2> QED
    BY <2>1, <2>2, <2>3, Zenon DEF RecoveryInv
<1> QED
  BY <1>1, <1>2, TypeCorrect, LeasePhases, PTL DEF Spec

-----------------------------------------------------------------------------

\* However incidents compete, the one that recovers has the generation it was
\* given: a later recovery or reset mints another generation, and the claim
\* of the first is never overwritten.
THEOREM RecoveryHasReplacement == Spec => []RecoveringIncidentHasReplacement
<1>1. Init => RecoveringIncidentHasReplacement
  BY DEF Init, RecoveringIncidentHasReplacement
<1>2. TypeOK /\ TypeOK' /\ RecoveryInv /\ RecoveringIncidentHasReplacement /\ [Next]_vars
      => RecoveringIncidentHasReplacement'
  <2> SUFFICES ASSUME TypeOK, TypeOK', RecoveryInv, RecoveringIncidentHasReplacement, [Next]_vars,
                      NEW i \in Incidents, incidents'[i].state = "recovering"
               PROVE  \/ \E g \in 2..MaxGen : /\ agentRecovery'[g] = i
                                              /\ g = incidents'[i].scope.agentGeneration + 1
                      \/ \E t \in Targets, g \in 2..MaxGen :
                           /\ targetRecovery'[t][g] = i /\ t = incidents'[i].scope.target
                           /\ g = incidents'[i].scope.targetGeneration + 1
    BY Zenon DEF RecoveringIncidentHasReplacement
  <2> USE ControlCoreAssumption DEF Generations
  <2>1. IncidentStep(i)
    BY IncidentSteps, Zenon
  <2>2. incidents[i].scope \in Scopes
    BY Zenon DEF TypeOK, IncidentRecords
  <2>3. CASE incidents[i].state = "recovering"
    <3>1. incidents'[i].scope = incidents[i].scope
      BY <2>1, <2>3, Zenon DEF IncidentStep
    <3>2. ASSUME NEW g \in 2..MaxGen, agentRecovery[g] = i
          PROVE  agentRecovery'[g] = i
      <4>1. g \in Generations /\ agentCurrent \in Nat
        BY DEF TypeOK
      <4>2. ~ (g > agentCurrent)
        BY <3>2, <4>1, Zenon DEF RecoveryInv
      <4> QED
        BY <3>2, <4>1, <4>2, AgentClaims DEF AgentClaimStep
    <3>3. ASSUME NEW t \in Targets, NEW g \in 2..MaxGen, targetRecovery[t][g] = i
          PROVE  targetRecovery'[t][g] = i
      <4>1. g \in Generations /\ targetCurrent[t] \in Nat
        BY DEF TypeOK
      <4>2. ~ (g > targetCurrent[t])
        BY <3>3, <4>1, Zenon DEF RecoveryInv
      <4> QED
        BY <3>3, <4>1, <4>2, TargetClaims DEF TargetClaimStep
    <3> QED
      BY <2>3, <3>1, <3>2, <3>3 DEF RecoveringIncidentHasReplacement
  <2>4. CASE RecoverAgent(i)
    <3> DEFINE g == incidents[i].scope.agentGeneration
    <3>1. g \in 1..(MaxGen - 1) /\ agentRecovery' = [agentRecovery EXCEPT ![g + 1] = i]
      BY <2>4, Zenon DEF RecoverAgent
    <3>2. incidents'[i].scope = incidents[i].scope
      BY <2>1, <2>4, Zenon DEF IncidentStep, RecoverAgent
    <3>3. g + 1 \in 2..MaxGen /\ g + 1 \in Generations
      BY <3>1, ControlCoreAssumption DEF Generations
    <3>4. agentRecovery \in [Generations -> Incidents \cup {None}]
      BY Zenon DEF TypeOK
    <3>5. agentRecovery'[g + 1] = i
      BY <3>1, <3>3, <3>4
    <3> QED
      BY <3>2, <3>3, <3>5, Zenon
  <2>5. CASE RecoverTarget(i)
    <3> DEFINE t == incidents[i].scope.target
               g == incidents[i].scope.targetGeneration
    <3>1. /\ t \in Targets /\ g \in 1..(MaxGen - 1)
          /\ targetRecovery' = [targetRecovery EXCEPT ![t][g + 1] = i]
      BY <2>2, <2>5, SMTT(60) DEF RecoverTarget, Scopes
    <3>2. incidents'[i].scope = incidents[i].scope
      BY <2>1, <2>5, SMTT(30) DEF IncidentStep, RecoverTarget
    <3>3. g + 1 \in 2..MaxGen /\ g + 1 \in Generations
      BY <3>1, ControlCoreAssumption DEF Generations
    <3>4. targetRecovery \in [Targets -> [Generations -> Incidents \cup {None}]]
      BY Zenon DEF TypeOK
    <3>5. targetRecovery'[t][g + 1] = i
      BY <3>1, <3>3, <3>4
    <3> QED
      BY <3>1, <3>2, <3>3, <3>5, Zenon
  <2> QED
    BY <2>1, <2>3, <2>4, <2>5, Zenon DEF IncidentStep
<1> QED
  BY <1>1, <1>2, TypeCorrect, RecoveryIsPrepared, PTL DEF Spec

-----------------------------------------------------------------------------

\* A replaced agent generation lost no evidence: only RecoverIncident mints a
\* generation after the first, for a sealed incident of exactly the one it
\* retires, and only when every run of that one is bound to its bundle.
THEOREM ReplacementKeepsEvidence == Spec => []AgentReplacementKeepsEvidence
<1>1. Init => AgentReplacementKeepsEvidence
  BY DEF Init, AgentReplacementKeepsEvidence
<1>2. /\ TypeOK /\ TypeOK' /\ LeasePhasesAgree /\ ReferencesResolve /\ RecoveryInv
      /\ AgentReplacementKeepsEvidence /\ [Next]_vars
      => AgentReplacementKeepsEvidence'
  <2> SUFFICES ASSUME TypeOK, TypeOK', LeasePhasesAgree, ReferencesResolve, RecoveryInv,
                      AgentReplacementKeepsEvidence, [Next]_vars
               PROVE  AgentReplacementKeepsEvidence'
    BY Zenon
  <2> USE ControlCoreAssumption DEF Generations
  <2>1. AgentRolls
    BY AgentSteps, Zenon
  <2>2. agentCurrent \in Nat /\ agentCurrent' \in Nat /\ leaseGeneration = agentCurrent
    BY DEF TypeOK, LeasePhasesAgree
  <2>3. ASSUME NEW g \in 2..MaxGen, g <= agentCurrent'
        PROVE  /\ agentRecovery'[g] \in Incidents
               /\ incidents'[agentRecovery'[g]].state \in {"recovering", "resolved"}
               /\ incidents'[agentRecovery'[g]].scope.agentGeneration = g - 1
               /\ \/ incidents'[agentRecovery'[g]].evidence.bundle # None
                  \/ incidents'[agentRecovery'[g]].evidence.artifacts # {}
    <3>1. CASE g <= agentCurrent
      <4> DEFINE i == agentRecovery[g]
      <4>1. /\ i \in Incidents /\ incidents[i].state \in {"recovering", "resolved"}
            /\ incidents[i].scope.agentGeneration = g - 1 /\ HasEvidence(i)
        BY <3>1, Zenon DEF AgentReplacementKeepsEvidence
      <4>2. agentRecovery'[g] = i
        BY <2>2, <3>1, AgentClaims DEF AgentClaimStep
      <4>3. /\ incidents'[i].scope = incidents[i].scope
            /\ incidents'[i].evidence = incidents[i].evidence
            /\ incidents'[i].state \in {"recovering", "resolved"}
        BY <4>1, IncidentSteps, Zenon DEF IncidentStep
      <4> QED
        BY <4>1, <4>2, <4>3, Zenon DEF HasEvidence
    <3>2. CASE g > agentCurrent
      <4>1. g = agentCurrent + 1 /\ agentCurrent' = g /\ agentCurrent > 0
        BY <2>1, <2>2, <2>3, <3>2 DEF AgentRolls
      <4>2. PICK i \in Incidents : RecoverAgent(i)
        BY <2>2, <4>1, OnlyRecoveryReplaces, SMTT(60) DEF LeasePhasesAgree
      <4>3. /\ agentRecovery'[g] = i /\ incidents[i].scope.agentGeneration = g - 1
            /\ incidents[i].state = "evidence_sealed"
        BY <2>2, <4>1, <4>2, SMTT(60) DEF RecoverAgent, TypeOK
      <4>4. incidents'[i].state = "recovering"
        BY <4>2 DEF RecoverAgent, TypeOK, IncidentRecords
      <4>5. /\ incidents'[i].scope = incidents[i].scope
            /\ incidents'[i].evidence = incidents[i].evidence
        BY <4>3, <4>4, IncidentSteps, Zenon DEF IncidentStep
      <4>6. HasEvidence(i)
        BY <4>3, Zenon DEF RecoveryInv
      <4> QED
        BY <4>3, <4>4, <4>5, <4>6, Zenon DEF HasEvidence
    <3> QED
      BY <2>2, <3>1, <3>2
  <2>4. ASSUME NEW r \in Runs, runs'[r].agentGeneration \in 1..(agentCurrent' - 1)
        PROVE  runs'[r].state \in RunTerminal /\ runs'[r].bundle # None
    <3>1. runs[r].agentGeneration \in Nat /\ runs'[r].agentGeneration \in Nat
      BY SMTT(60) DEF TypeOK, RunRecords
    <3>2. CASE agentCurrent' = agentCurrent
      <4>1. RunStep(r)
        BY RunSteps, Zenon
      <4>2. \/ runs'[r].agentGeneration = runs[r].agentGeneration /\ runs[r].state # "none"
            \/ runs'[r] = runs[r]
        <5>1. runs'[r].agentGeneration # leaseGeneration
          BY <2>2, <2>4, <3>1, <3>2
        <5>2. runs[r].state \in RunLive => runs[r].state # "none"
          BY LiveIsNotTerminal, Zenon DEF RunStates
        <5> QED
          BY <4>1, <5>1, <5>2, Zenon DEF RunStep
      <4>3. runs[r].state \in RunTerminal /\ runs[r].bundle # None
        BY <2>2, <2>4, <3>1, <3>2, <4>2, Zenon DEF AgentReplacementKeepsEvidence
      <4> QED
        BY <4>1, <4>3, LiveIsNotTerminal, Zenon DEF RunStep, RunStates
    <3>3. CASE agentCurrent' # agentCurrent
      <4>1. agentCurrent' = agentCurrent + 1 /\ runs'[r] = runs[r]
        BY <2>1, <3>3, Zenon DEF AgentRolls, workVars
      <4>2. CASE runs[r].agentGeneration < agentCurrent
        BY <2>2, <2>4, <3>1, <4>1, <4>2 DEF AgentReplacementKeepsEvidence
      <4>3. CASE runs[r].agentGeneration = agentCurrent
        <5>1. agentCurrent > 0
          BY <2>2, <2>4, <3>1, <4>1, <4>3
        <5>2. PICK i \in Incidents : RecoverAgent(i)
          BY <2>2, <4>1, <5>1, OnlyRecoveryReplaces DEF LeasePhasesAgree
        <5> QED
          BY <4>1, <4>3, <5>2, Zenon DEF RecoverAgent, RunSealed
      <4> QED
        BY <2>2, <2>4, <3>1, <4>1, <4>2, <4>3
    <3> QED
      BY <3>2, <3>3, Zenon
  <2> QED
    BY <2>3, <2>4, Zenon DEF AgentReplacementKeepsEvidence, HasEvidence
<1> QED
  BY <1>1, <1>2, TypeCorrect, LeasePhases, ReferencesStand, RecoveryIsPrepared, PTL DEF Spec

=============================================================================
