--------------------------- MODULE MCOrchestration ---------------------------
(***************************************************************************)
(* Model-checking instance of the orchestration sagas, the target drivers, *)
(* provisioning admission and the supervisor of an exec inside the guest.  *)
(* They share no variables, so one run explores them side by side: focus,  *)
(* chosen once, is the component that takes the steps.                     *)
(***************************************************************************)
EXTENDS Naturals

VARIABLES focus,
          lease, gen, run, bound, owner, intent, contained, stage, prep, known,
          marker, journal, rec, unit, specimen, mode, fin, job, reaper, destroyer,
          faults, crashes, cur, agent, incident, exec, export, box, proc, work, taken,
          driver, op, call, stream, emu, held, disk, status, ctrl, phase, files,
          configured, up, target, expired, control, link, arrived, guest, cause,
          inputs, drained, clean, terminal, leader, child, exit, signal, pending,
          produced, budget, pump, posted, truncated

Run == INSTANCE RunSaga WITH Collectors <- {TRUE}, MaxCrashes <- 1, MaxFaults <- 1
Intrinsic == INSTANCE RunSaga WITH Collectors <- {FALSE}, MaxCrashes <- 1, MaxFaults <- 0
Agent == INSTANCE AgentSaga WITH MaxGen <- 2, MaxWrites <- 0, MaxCrashes <- 1, MaxFaults <- 1
Export == INSTANCE AgentSaga WITH MaxGen <- 2, MaxWrites <- 1, MaxCrashes <- 1, MaxFaults <- 0
Android == INSTANCE AndroidTargets WITH
    MaxCrashes <- 1, MaxFaults <- 1
Linux == INSTANCE LinuxTargets WITH
    MaxCrashes <- 2, MaxFaults <- 2
\* One policy pair is stricter than the other; a second configuration changes
\* what one view costs.
MCLimit == [p |-> 3, q |-> 2]
MCMaxConcurrent == [p |-> 2, q |-> 1]
MCPlan(p, c) == [pair |-> p, cost |-> c]
MCConfigurations ==
    {[agents |-> [v |-> MCPlan("p", c), w |-> MCPlan("q", 1)], target |-> MCPlan("p", 1)] : c \in 1..2}
Plans == INSTANCE Provisioning WITH
    Sessions <- {"s1", "s2"}, Targets <- {"t1", "t2"}, Views <- {"v", "w"},
    Pairs <- {"p", "q"}, Limit <- MCLimit, MaxConcurrent <- MCMaxConcurrent,
    Configurations <- MCConfigurations, MaxCrashes <- 1, MaxFaults <- 1
Guest == INSTANCE GuestSupervisor WITH
    Streams <- {"stdout"}, MaxOutput <- 2, MaxBudget <- 1, MaxInput <- 1

ownRun == <<gen, intent, contained, stage, prep, known, marker, journal, rec, unit,
            specimen, fin, job, reaper, destroyer>>
ownAgent == <<cur, incident, exec, export, proc, work, taken, driver, call, stream>>
ownAndroid == <<emu, held, disk>>
ownLinux == <<files>>
ownPlans == <<configured, target>>
ownGuest == <<expired, control, link, arrived, guest, cause, inputs, drained, clean,
              terminal, leader, child, exit, signal, pending, produced, budget, pump,
              posted, truncated>>
shared == <<lease, run, bound, owner, mode, faults, crashes, agent, box, op, status,
            ctrl, phase, up>>
sumVars == <<focus, shared, ownRun, ownAgent, ownAndroid, ownLinux, ownPlans, ownGuest>>

\* The saga of a run is explored with failing steps for a run that has external
\* collectors, and without them for one that has the intrinsic collector alone;
\* the saga of an agent with failing calls, and with a guest that writes to its
\* workspace.  A daemon crash happens in each of them.
Runs == {"run", "intrinsic"}
Agents == {"agent", "export"}

\* What the variables of a component hold while another one runs.
Unused == "unused"
RestRun == /\ gen = Unused /\ intent = Unused /\ contained = Unused /\ stage = Unused
           /\ prep = Unused /\ known = Unused /\ marker = Unused /\ journal = Unused
           /\ rec = Unused /\ unit = Unused /\ specimen = Unused /\ fin = Unused
           /\ job = Unused /\ reaper = Unused /\ destroyer = Unused
RestAgent == /\ cur = Unused /\ incident = Unused /\ exec = Unused /\ export = Unused
             /\ proc = Unused /\ work = Unused /\ taken = Unused /\ driver = Unused
             /\ call = Unused /\ stream = Unused
RestAndroid == /\ emu = Unused /\ held = Unused /\ disk = Unused
RestLinux == /\ files = Unused
RestPlans == /\ configured = Unused /\ target = Unused
RestGuest == /\ expired = Unused /\ control = Unused /\ link = Unused
             /\ arrived = Unused /\ guest = Unused /\ cause = Unused
             /\ inputs = Unused /\ drained = Unused /\ clean = Unused
             /\ terminal = Unused /\ leader = Unused /\ child = Unused
             /\ exit = Unused /\ signal = Unused /\ pending = Unused
             /\ produced = Unused /\ budget = Unused /\ pump = Unused
             /\ posted = Unused /\ truncated = Unused

InitRun ==
    /\ (focus = "run" /\ Run!Init) \/ (focus = "intrinsic" /\ Intrinsic!Init)
    /\ RestAgent /\ RestAndroid /\ RestLinux /\ RestPlans /\ RestGuest
    /\ agent = Unused /\ box = Unused /\ op = Unused /\ status = Unused
    /\ ctrl = Unused /\ phase = Unused /\ up = Unused
InitAgent ==
    /\ focus \in Agents /\ Agent!Init
    /\ RestRun /\ RestAndroid /\ RestLinux /\ RestPlans /\ RestGuest /\ run = Unused
    /\ owner = Unused /\ status = Unused /\ ctrl = Unused /\ phase = Unused
    /\ up = Unused
InitAndroid ==
    /\ focus = "android" /\ Android!Init
    /\ RestRun /\ RestAgent /\ RestLinux /\ RestPlans /\ RestGuest /\ lease = Unused
    /\ bound = Unused /\ mode = Unused /\ agent = Unused /\ box = Unused
    /\ up = Unused
InitLinux ==
    /\ focus = "linux" /\ Linux!Init
    /\ RestRun /\ RestAgent /\ RestAndroid /\ RestPlans /\ RestGuest /\ lease = Unused
    /\ bound = Unused /\ mode = Unused /\ agent = Unused /\ up = Unused
InitPlans ==
    /\ focus = "plans" /\ Plans!Init
    /\ RestRun /\ RestAgent /\ RestAndroid /\ RestLinux /\ RestGuest /\ lease = Unused
    /\ run = Unused /\ bound = Unused /\ owner = Unused /\ mode = Unused
    /\ box = Unused /\ status = Unused /\ ctrl = Unused /\ phase = Unused
InitGuest ==
    /\ focus = "guest" /\ Guest!Init
    /\ RestRun /\ RestAgent /\ RestAndroid /\ RestLinux /\ RestPlans /\ lease = Unused
    /\ run = Unused /\ bound = Unused /\ owner = Unused /\ mode = Unused
    /\ faults = Unused /\ crashes = Unused /\ agent = Unused /\ box = Unused
    /\ op = Unused /\ status = Unused /\ ctrl = Unused /\ phase = Unused
Init == \/ InitRun \/ InitAgent \/ InitAndroid \/ InitLinux \/ InitPlans \/ InitGuest

OnlyRun(A, B) ==
    /\ (focus = "run" /\ A) \/ (focus = "intrinsic" /\ B)
    /\ UNCHANGED <<focus, ownAgent, ownAndroid, ownLinux, ownPlans, ownGuest, agent,
                  box, op, status, ctrl, phase, up>>
OnlyAgent(A, B) ==
    /\ (focus = "agent" /\ A) \/ (focus = "export" /\ B)
    /\ UNCHANGED <<focus, ownRun, ownAndroid, ownLinux, ownPlans, ownGuest, run, owner,
                  status, ctrl, phase, up>>
OnlyAndroid(A) ==
    /\ focus = "android" /\ A
    /\ UNCHANGED <<focus, ownRun, ownAgent, ownLinux, ownPlans, ownGuest, lease, bound,
                  mode, agent, box, up>>
OnlyLinux(A) ==
    /\ focus = "linux" /\ A
    /\ UNCHANGED <<focus, ownRun, ownAgent, ownAndroid, ownPlans, ownGuest, lease,
                  bound, mode, agent, up>>
OnlyPlans(A) ==
    /\ focus = "plans" /\ A
    /\ UNCHANGED <<focus, ownRun, ownAgent, ownAndroid, ownLinux, ownGuest, lease, run,
                  bound, owner, mode, box, status, ctrl, phase>>
OnlyGuest(A) ==
    /\ focus = "guest" /\ A
    /\ UNCHANGED <<focus, ownRun, ownAgent, ownAndroid, ownLinux, ownPlans, lease, run,
                  bound, owner, mode, faults, crashes, agent, box, op, status, ctrl,
                  phase>>

\* The drivers and admission may have nothing left to do; a saga may not.
Stopped == focus \in {"android", "linux", "plans"} /\ UNCHANGED sumVars

RunStep == OnlyRun(Run!Next, Intrinsic!Next)
AgentStep == OnlyAgent(Agent!Next, Export!Next)
AndroidStep == OnlyAndroid(Android!Next)
LinuxStep == OnlyLinux(Linux!Next)
PlansStep == OnlyPlans(Plans!Next)
GuestStep == OnlyGuest(Guest!Next)

Next == RunStep \/ AgentStep \/ AndroidStep \/ LinuxStep \/ PlansStep \/ GuestStep \/ Stopped

\* The fairness of RunSaga, AgentSaga and GuestSupervisor, a condition of the one
\* beside conditions of the others: only one of them runs.
Reaping == \/ OnlyRun(Run!ReaperNext, Intrinsic!ReaperNext)
           \/ OnlyAgent(Agent!GoOnTerminating, Export!GoOnTerminating)
Starting == \/ OnlyRun(Run!BootNext, Intrinsic!BootNext)
            \/ OnlyAgent(Agent!StartDaemon, Export!StartDaemon)
            \/ OnlyGuest(Guest!HostNext /\ expired')
Finalizing == \/ OnlyRun(Run!FinNext, Intrinsic!FinNext)
              \/ OnlyAgent(Agent!SagaStep, Export!SagaStep)
              \/ OnlyGuest(Guest!SupervisorNext /\ guest # "stdin")
Working == \/ OnlyRun(Run!JobNext, Intrinsic!JobNext)
           \/ OnlyAgent(Agent!ExecStep, Export!ExecStep)
           \/ OnlyGuest(Guest!PumpNext)
Exporting == \/ \E c \in BOOLEAN : OnlyAgent(Agent!ExportStep(c), Export!ExportStep(c))
             \/ OnlyGuest(Guest!ProcessNext /\ signal = "kill")

Spec ==
    /\ Init /\ [][Next]_sumVars
    /\ WF_sumVars(Finalizing) /\ WF_sumVars(Working) /\ WF_sumVars(Exporting)
    /\ WF_sumVars(Starting) /\ SF_sumVars(Reaping)

-----------------------------------------------------------------------------
(* Properties                                                              *)

\* Every variable of the component that runs keeps its type.
TypeOK ==
    CASE focus = "run"       -> Run!TypeOK
      [] focus = "intrinsic" -> Intrinsic!TypeOK
      [] focus = "agent"     -> Agent!TypeOK
      [] focus = "export"    -> Export!TypeOK
      [] focus = "android"   -> Android!TypeOK
      [] focus = "linux"     -> Linux!TypeOK
      [] focus = "plans"     -> Plans!TypeOK
      [] focus = "guest"     -> Guest!TypeOK

\* A restart is refused only in the states the components list: every other
\* durable state that a crash or a failed call can leave behind is one that
\* startup reconciliation adopts, finishes or cleans up (reconcileStartup,
\* ReconcileProvisioning of the drivers, resolvePersistedPhysicalPlans).
RefusalIsExplained ==
    CASE focus \in Runs    -> Run!RefusalIsExplained
      [] focus \in Agents  -> Agent!RefusalIsExplained
      [] focus = "android" -> Android!RefusalIsExplained
      [] focus = "linux"   -> Linux!RefusalIsExplained
      [] focus = "plans"   -> Plans!RestartRefusalIsExplained
      [] OTHER             -> TRUE

\* A terminal run has an anchored publication with its outcome, and a bundle is
\* completed only for a terminal run, whole and with its observers committed,
\* whoever of stop, rollback, quarantine, lease termination and startup ended
\* the run (stopAndFinalizeRun, publishObservationBundle); and the terminal
\* frame of an exec that reports no error follows whole output, but for the one
\* race it names (guest/supervisor.go).
TerminalHasPublication ==
    /\ focus \in Runs => Run!TerminalHasPublication /\ Run!CompletedBundleIsWhole
    /\ focus = "guest" => Guest!TruncationIsExplained

\* A target is contained only after its run's evidence is complete, in a live
\* quarantine and in one that startup resumes (QuarantineTarget).
ContainmentAfterEvidence == focus \in Runs => Run!ContainmentAfterEvidence

\* No target is removed under a live run; no container, process or directory of
\* an agent outlives the lease that is reported ended; an exec that Core records
\* as cleaned up has no process left, nor one whose guest confirms its cleanup
\* (DestroyTarget, releasePhysical, rollbackAcquisition, recoverPersistedExecs,
\* guest/supervisor.go).
NothingOutlivesTheLease ==
    /\ focus \in Runs => Run!NoLiveRunWithoutTarget
    /\ focus \in Agents => Agent!NothingOutlivesTheLease /\ Agent!ConfirmedExecIsDead
    /\ focus = "guest" => Guest!ConfirmedIsClean

\* The owner, the preparation and the outcome of a finalization never change, a
\* specimen that stopped never executes again, and a failed generation keeps its
\* container until its replacement's plan is durably bound
\* (reserveRunFinalization, StartTargetRun, RecoverIncident).
EvidenceIsKept ==
    [][CASE focus \in Runs   -> Run!KeepsOutcome /\ Run!KeepsStopped
         [] focus \in Agents -> Agent!KeepsEvidence
         [] OTHER            -> TRUE]_sumVars

\* An export is committed only with the sealed content of the revision the
\* client named (sealExportWorkspace, directory Seal).
ExportIsThePreview == [][(focus \in Agents) => Agent!ExportsPreview]_sumVars

\* A port pair belongs to one generation, whatever was leased, booted, torn
\* down or recovered (DurableEmulatorAllocator).
EndpointOwnedOnce == focus = "android" => Android!EndpointOwnedOnce

\* A target whose stop boundary or quarantine is on record does not run, across
\* crashes and reconciliation.
FrozenStaysStopped ==
    CASE focus = "android" -> Android!FrozenStaysStopped
      [] focus = "linux"   -> Linux!FrozenStaysStopped
      [] OTHER             -> TRUE

\* A generation that Core calls ready is the driver's and physically whole, and
\* what physically exists is what the durable plan binds.
ReadyIsWhole ==
    CASE focus = "android" -> Android!ReadyIsWhole
      [] focus = "linux"   -> Linux!ReadyIsWhole
      [] focus = "plans"   -> Plans!PhysicalIsBound
      [] OTHER             -> TRUE

\* What lives is within the limits of the policy it was admitted under, and
\* what escapes the count is a failed generation's (AdmitAgent, AdmitTarget).
LiveWithinLimit == focus = "plans" => Plans!LiveWithinLimit /\ Plans!UncountedIsFailed

\* A lease that is due or whose termination has begun ends, except in the
\* states the sagas list (ReconcileLeaseTerminations); an exec past its deadline
\* ends, unless its supervisor is blocked writing to a process that does not
\* read.
TerminationEnds ==
    \/ []<>(CASE focus \in Runs   -> ~Run!Terminating \/ mode = "refused"
             [] focus \in Agents -> lease # "terminating" \/ Agent!TerminationOver
             [] focus = "guest"   -> expired => guest \in {"stdin", "done"}
             [] OTHER             -> TRUE)
    \/ <>[](focus \in Runs /\ Run!HeldByAnother)
    \/ <>[](focus \in Runs /\ Run!Unassemblable)
===============================================================================
