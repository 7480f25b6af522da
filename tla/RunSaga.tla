------------------------------ MODULE RunSaga ------------------------------
(***************************************************************************)
(* One target generation and its run, from StartTargetRun to the public    *)
(* bundle (internal/orchestration), with everything that competes for      *)
(* them: an explicit stop, the rollback of a failed start, target          *)
(* quarantine, target destruction, lease termination, the two              *)
(* maximum-duration timers, a crash between any two steps, and startup     *)
(* reconciliation.  Core allows one run per generation, so one generation  *)
(* has one run.                                                            *)
(*                                                                         *)
(* Every step that makes something durable is an action of its own; a      *)
(* fault is such a step reporting failure.  Locks: Controller.mu holds     *)
(* StartTargetRun, ReleaseResearchSession and the reaper apart,            *)
(* targetRunLifecycleMu holds StartTargetRun, StopTargetRun and            *)
(* QuarantineTarget apart (they share `job`); DestroyTarget takes neither. *)
(* The bundle reservation lets one identity into stopAndFinalizeRun, so at *)
(* most one call is past it: `fin` is that call.  Each caller retries with *)
(* the key it used before.                                                 *)
(***************************************************************************)
EXTENDS Naturals

CONSTANTS
    Collectors,     \* whether external collectors may be configured beside the intrinsic one
    MaxCrashes,     \* bound on daemon crashes
    MaxFaults       \* bound on steps that report failure

VARIABLES
    lease,      \* Core: active, due (past expiry), expiring (terminating), expired
    gen,        \* Core: state of the target generation
    run,        \* Core: state of its run
    bound,      \* Core: the run has its provisioning plan bound
    owner,      \* Service: namespace of the run's bundle reservation
    intent,     \* Service: the destroy or quarantine operation reserved
    contained,  \* Service: containment evidence of the quarantine is durable
    stage,      \* Service: what of the finalization is durable
    prep,       \* Service: content of the stop preparation
    known,      \* Service, in memory: preparation and publication loaded
    marker,     \* observer marker
    journal,    \* what the run's observer journal and collector plan hold
    rec,        \* coordinator record, in memory
    unit,       \* the physical target: up, contained, absent
    specimen,   \* the run in the target driver
    mode,       \* the daemon: down, a startup step, refused, serving
    fin,        \* the call of stopAndFinalizeRun past its reservation
    job,        \* the call holding targetRunLifecycleMu
    reaper,     \* the call draining the lease
    destroyer,  \* the call of DestroyTarget
    faults, crashes

coreVars     == <<lease, gen, run, bound>>
serviceVars  == <<owner, intent, contained, stage, prep, known>>
observerVars == <<marker, journal, rec>>
driverVars   == <<unit, specimen>>
actorVars    == <<mode, fin, job, reaper, destroyer>>
vars == <<coreVars, serviceVars, observerVars, driverVars, actorVars, faults, crashes>>

RunLive     == {"requested", "preparing", "observing", "running"}
RunTerminal == {"completed", "failed", "quarantined"}
GenTerminal == {"quarantined", "destroyed"}
StartSteps  == {"plan", "preparing", "physical", "observe", "observing", "launch",
                "running", "rollback", "undo"}
Stages      == {"prepFile", "prepBound", "prepRecord", "pubFile", "pubRecord",
                "file", "index", "completed"}
NoPrep == [outcome |-> "none", evidence |-> "none", initial |-> "none"]
NoRec  == [phase |-> "none", result |-> "none", receipt |-> "none"]
NoFin  == [by |-> "none", pc |-> "none"]

LeaseActive        == lease = "active"
LeaseAllowsCleanup == lease \in {"active", "expiring"}
Serving            == mode = "serving"

Init ==
    /\ lease = "active" /\ gen = "ready" /\ run = "none" /\ bound = FALSE
    /\ owner = "none" /\ intent = "none" /\ contained = FALSE
    /\ stage = {} /\ prep = NoPrep /\ known = {}
    /\ marker = "none" /\ rec = NoRec
    /\ journal \in [external : Collectors, lost : {FALSE}, batch : {FALSE}, receipt : {"none"},
                    facts : {FALSE}]
    /\ unit = "up" /\ specimen = "none"
    /\ mode = "serving" /\ fin = NoFin /\ job = "idle" /\ reaper = "idle"
    /\ destroyer = "idle" /\ faults = 0 /\ crashes = 0

-----------------------------------------------------------------------------
(* stopAndFinalizeRun                                                      *)

\* RestoreFinalized: the stopped record has a result and the receipt.
Restored == rec.phase = "stopped" /\ rec.result # "none" /\ rec.receipt # "none"

MayReserveAlways(by) == by # "none"
MayReserve(by) == owner \in {"none", by}

\* reserveBundle, and the choice of where to resume.
Reserve(by) ==
    /\ owner' = by
    /\ fin' = [by |-> by,
               pc |-> IF "prep" \in known THEN "resume"
                      ELSE IF Restored THEN "assemble" ELSE "prepareStop"]

\* The caller after stopAndFinalizeRun succeeded.
Succeeded ==
    /\ fin' = NoFin
    /\ mode' = CASE Serving -> mode
                 [] mode = "finalizing"  -> "observers"
                 [] mode = "qrecovering" -> "qcontain"
                 [] mode = "recovering"  -> "gate"
    /\ reaper' = IF Serving /\ fin.by = "termination" THEN "release" ELSE reaper
    /\ job' = IF ~Serving \/ fin.by = "termination" THEN job
              ELSE IF fin.by = "quarantine" THEN "q.runs" ELSE "idle"
    /\ UNCHANGED destroyer

FailedWithoutLostRun(notFound) ==
    /\ fin' = NoFin
    /\ mode' = IF Serving THEN mode ELSE "refused"
    /\ reaper' = IF ~Serving \/ fin.by # "termination" THEN reaper
                 ELSE IF run \in RunTerminal THEN "release" ELSE "idle"
    /\ job' = IF ~Serving \/ fin.by = "termination" THEN job ELSE "idle"
    /\ UNCHANGED <<destroyer>>

\* The caller after it failed.  Lease termination goes on when the run is
\* terminal all the same, and once when the coordinator lost the run.
Failed(notFound) ==
    /\ fin' = NoFin
    /\ mode' = IF Serving THEN mode ELSE "refused"
    /\ reaper' = IF ~Serving \/ fin.by # "termination" THEN reaper
                 ELSE IF run \in RunTerminal THEN "release"
                 ELSE IF notFound /\ reaper = "drain" THEN "lost" ELSE "idle"
    /\ job' = IF ~Serving \/ fin.by = "termination" THEN job ELSE "idle"
    /\ UNCHANGED destroyer

At(pc)   == mode # "down" /\ fin.pc = pc
Goto(pc) == fin' = [fin EXCEPT !.pc = pc] /\ UNCHANGED <<mode, job, reaper, destroyer>>

\* A step reports failure.  During startup that ends the process, as Crash does.
Fault == Serving /\ faults < MaxFaults /\ faults' = faults + 1

ResumePhase == IF journal.lost THEN "recovering" ELSE "active"

PrepareStop ==
    /\ At("prepareStop")
    /\ \/ /\ rec.phase = "none" /\ Failed(TRUE) /\ UNCHANGED <<rec, faults>>
       \/ /\ rec.phase # "none" /\ Goto("stopRun")
          /\ rec' = IF rec.phase \in {"active", "recovering", "stop-canceling"}
                    THEN [rec EXCEPT !.phase = "stop-prepared"] ELSE rec
          /\ UNCHANGED faults
       \/ /\ rec.phase \in {"active", "recovering", "stop-canceling"}
          /\ Fault /\ Failed(FALSE)
          /\ \E phase \in {ResumePhase, "stop-canceling"} : rec' = [rec EXCEPT !.phase = phase]
    /\ UNCHANGED <<coreVars, serviceVars, marker, journal, driverVars, crashes>>

\* driver.StopRun: a specimen that ran and was not interrupted completes, also
\* under StopForce.  On failure the collectors go back to collecting, and the
\* driver has already marked the run as finishing.
StopRun ==
    /\ At("stopRun")
    /\ \/ /\ unit = "up" /\ Goto("collect")
          /\ specimen' = CASE specimen \in {"executing", "halting", "exited"} -> "exited"
                           [] OTHER -> "aborted"
          /\ UNCHANGED <<rec, faults>>
       \/ /\ Fault /\ Failed(FALSE)
          /\ specimen' = CASE specimen = "prepared" -> "interrupted"
                           [] specimen = "executing" -> "halting"
                           [] OTHER -> specimen
          /\ \E phase \in {ResumePhase, "stop-canceling"} :
               rec' = IF rec.phase = "stop-prepared" THEN [rec EXCEPT !.phase = phase] ELSE rec
    /\ UNCHANGED <<coreVars, serviceVars, marker, journal, unit, crashes>>

\* stopLocked up to the journaled stop batch.
CollectStoppedObservers ==
    /\ At("collect")
    /\ \/ /\ rec.result # "none" /\ Goto("receipt")
          /\ UNCHANGED <<marker, journal, rec, faults>>
       \/ /\ rec.result = "none" /\ Goto("apply")
          /\ marker' = "stopping" /\ rec' = [rec EXCEPT !.phase = "stopping"]
          /\ journal' = [journal EXCEPT !.batch = TRUE]
          /\ UNCHANGED faults
       \/ /\ rec.result = "none" /\ Fault /\ Failed(FALSE)
          /\ marker' = "stopping" /\ rec' = [rec EXCEPT !.phase = "stopping"]
          /\ UNCHANGED journal
    /\ UNCHANGED <<coreVars, serviceVars, driverVars, crashes>>

\* stopLocked after the batch.  The stopped phase reaches memory before the
\* checkpoint that may fail.
ApplyStoppedObserverBatch ==
    /\ At("apply")
    /\ \/ /\ Goto("receipt") /\ marker' = "stopped"
          /\ rec' = [rec EXCEPT !.phase = "stopped", !.result = "partial"]
          /\ UNCHANGED faults
       \/ /\ Fault /\ Failed(FALSE) /\ UNCHANGED marker
          /\ \E phase \in {"stopping", "stopped"} : rec' = [rec EXCEPT !.phase = phase]
    /\ UNCHANGED <<coreVars, serviceVars, journal, driverVars, crashes>>

ReceiptUnclassified == specimen
Receipt == IF specimen = "exited" THEN "completed" ELSE "failed"

\* Finalize up to the journaled receipt.
FinalizeReceipt ==
    /\ At("receipt")
    /\ rec' = [rec EXCEPT !.receipt = IF rec.receipt = "none" THEN Receipt ELSE rec.receipt]
    /\ \/ /\ Goto("facts") /\ UNCHANGED faults
          /\ journal' = [journal EXCEPT !.receipt = rec'.receipt]
       \/ /\ rec.receipt = "none" /\ Fault /\ Failed(FALSE) /\ UNCHANGED journal
    /\ UNCHANGED <<coreVars, serviceVars, marker, driverVars, crashes>>

\* Finalize after the receipt: lifecycle facts, intrinsic coverage, lifecycle
\* artifact, checkpoint.  Only a failing checkpoint clears the result.
FinalizeFacts ==
    /\ At("facts")
    /\ \/ /\ Goto("assemble") /\ rec' = [rec EXCEPT !.result = "full"]
          /\ journal' = [journal EXCEPT !.facts = TRUE] /\ UNCHANGED faults
       \/ /\ Fault /\ Failed(FALSE) /\ UNCHANGED journal
          /\ \E result \in {rec.result, "none"} : rec' = [rec EXCEPT !.result = result]
    /\ UNCHANGED <<coreVars, serviceVars, marker, driverVars, crashes>>

\* assembleTargetRunResult: what the outcome may be.  A required collector may
\* have left a gap.
Outcomes ==
    IF rec.receipt = "failed" \/ journal.lost THEN {"failed"}
    ELSE IF journal.external THEN {"completed", "failed"} ELSE {"completed"}

\* Without external collectors the evidence before the facts has no artifact,
\* event or coverage, which assembleTargetRunResult refuses.
Assemblable == rec.result = "full" \/ journal.external

\* prepareStoppedBundle: the exact preparation file.
PrepareStoppedBundle ==
    /\ At("assemble")
    /\ \E outcome \in Outcomes :
         LET new == [outcome |-> outcome, evidence |-> rec.result, initial |-> run] IN
         /\ "prepFile" \in stage => outcome = prep.outcome
         /\ IF Assemblable /\ ("prepFile" \in stage => prep = new)
            THEN prep' = new /\ stage' = stage \cup {"prepFile"} /\ Goto("bind")
            ELSE Failed(FALSE) /\ UNCHANGED <<prep, stage>>
    /\ UNCHANGED <<coreVars, owner, intent, contained, known, observerVars, driverVars,
                   faults, crashes>>

\* A durable step of stopAndFinalizeRun that changes nothing but the stage.
Record(pc, what, next) ==
    /\ At(pc) /\ stage' = stage \cup {what} /\ Goto(next)
    /\ UNCHANGED <<coreVars, owner, intent, contained, prep, observerVars, driverVars,
                   faults, crashes>>

BindStoppedPreparation == Record("bind", "prepBound", "anchor") /\ UNCHANGED known
AnchorStopPreparationInMemory == Record("anchor", "prepFile", "resume") /\ known' = known \cup {"prep"}
AnchorStopPreparation  == Record("anchor", "prepRecord", "resume") /\ known' = known \cup {"prep"}
AnchorPublication      == Record("pubAnchor", "pubRecord", "commit") /\ known' = known \cup {"pub"}
PublishBundle          == Record("file", "file", "index") /\ UNCHANGED known

\* resumeBundleStopPreparation up to the publication file.  A completed result
\* staged while the run was observing first takes the run to running.
ResumeStopPreparation ==
    /\ At("resume")
    /\ LET promote == prep.outcome = "completed" /\ prep.initial = "observing" /\ run = "observing"
           now == IF promote THEN "running" ELSE run
       IN  CASE run \in RunTerminal /\ "pub" \in known ->
                  Goto("file") /\ UNCHANGED <<run, stage>>
             [] run \in RunLive /\ (promote => LeaseActive)
                /\ (prep.outcome = "completed" => now = "running") ->
                  Goto("pubAnchor") /\ run' = now /\ stage' = stage \cup {"pubFile"}
             [] OTHER -> Failed(FALSE) /\ UNCHANGED <<run, stage>>
    /\ UNCHANGED <<lease, gen, bound, owner, intent, contained, prep, known, observerVars,
                   driverVars, faults, crashes>>

\* Core.FinalizeTargetRun: the terminal state, and the generation resettable.
CommitRun ==
    /\ At("commit")
    /\ IF LeaseAllowsCleanup
       THEN /\ Goto("file") /\ run' = prep.outcome
            /\ gen' = IF gen = "ready" THEN "resettable" ELSE gen
       ELSE Failed(FALSE) /\ UNCHANGED <<run, gen>>
    /\ UNCHANGED <<lease, bound, serviceVars, observerVars, driverVars, faults, crashes>>

IndexBundleThenComplete ==
    /\ At("index") /\ stage' = stage \cup {"index"}
    /\ IF mode = "finalizing" THEN Succeeded ELSE Goto("complete")
    /\ UNCHANGED <<coreVars, owner, intent, contained, prep, known, observerVars,
                   driverVars, faults, crashes>>

\* The index ends ReconcileRunFinalizations; a live call goes on to the observers.
IndexBundle ==
    /\ At("index") /\ stage' = stage \cup {"index"}
    /\ IF mode = "finalizing" THEN Succeeded ELSE Goto("observers")
    /\ UNCHANGED <<coreVars, owner, intent, contained, prep, known, observerVars,
                   driverVars, faults, crashes>>

CommitObservers ==
    /\ At("observers")
    /\ IF rec.phase \in {"stopped", "committed"} /\ rec.result # "none"
       THEN marker' = "committed" /\ rec' = [rec EXCEPT !.phase = "committed"] /\ Goto("complete")
       ELSE Failed(FALSE) /\ UNCHANGED <<marker, rec>>
    /\ UNCHANGED <<coreVars, serviceVars, journal, driverVars, faults, crashes>>

CommitBundleCompletion ==
    /\ At("complete") /\ stage' = stage \cup {"completed"} /\ Succeeded
    /\ UNCHANGED <<coreVars, owner, intent, contained, prep, known, observerVars,
                   driverVars, faults, crashes>>

\* A durable write of one of the later steps fails before it takes effect.
FinalizationFault ==
    /\ fin.pc \in {"assemble", "bind", "anchor", "resume", "pubAnchor", "commit", "file",
                   "index", "observers", "complete"}
    /\ Fault /\ Failed(FALSE)
    /\ UNCHANGED <<coreVars, serviceVars, observerVars, driverVars, crashes>>

FinNext ==
    \/ PrepareStop \/ StopRun \/ CollectStoppedObservers \/ ApplyStoppedObserverBatch
    \/ FinalizeReceipt \/ FinalizeFacts \/ PrepareStoppedBundle
    \/ BindStoppedPreparation \/ AnchorStopPreparation \/ ResumeStopPreparation
    \/ AnchorPublication \/ CommitRun \/ PublishBundle \/ IndexBundle
    \/ CommitObservers \/ CommitBundleCompletion

\* resumeTerminalBundle and completeStoppedBundle of a terminal run.
Completable ==
    /\ "pub" \in known
    /\ \/ marker = "committed"
       \/ rec.phase \in {"stopped", "committed"} /\ rec.result # "none"
CompleteTerminalRun ==
    /\ stage' = stage \cup {"file", "index", "completed"} /\ marker' = "committed"
    /\ rec' = IF rec.phase = "none" THEN rec ELSE [rec EXCEPT !.phase = "committed"]

-----------------------------------------------------------------------------
(* StartTargetRun, StopTargetRun and QuarantineTarget                      *)

JobAt(step) == Serving /\ job = step
JobGoes(step) == job' = step /\ UNCHANGED <<mode, fin, reaper, destroyer>>

\* Core.StartTargetRun, or its replay by a caller that retries.
StartTargetRun ==
    /\ JobAt("idle") /\ reaper = "idle" /\ JobGoes("plan")
    /\ \/ run = "none" /\ LeaseActive /\ gen = "ready" /\ run' = "requested"
       \/ run \in RunLive \ {"running"} /\ UNCHANGED run
    /\ UNCHANGED <<lease, gen, bound, serviceVars, observerVars, driverVars, faults, crashes>>

BindTargetRunPlan ==
    /\ JobAt("plan")
    /\ IF bound \/ LeaseActive
       THEN bound' = TRUE /\ JobGoes(IF run = "requested" THEN "preparing" ELSE "physical")
       ELSE UNCHANGED bound /\ JobGoes("idle")
    /\ UNCHANGED <<lease, gen, run, serviceVars, observerVars, driverVars, faults, crashes>>

\* transitionRun: it needs an active lease; without one StartTargetRun goes to `else`.
Transition(step, state, next, else) ==
    /\ JobAt(step)
    /\ IF LeaseActive THEN run' = state /\ JobGoes(next) ELSE UNCHANGED run /\ JobGoes(else)
    /\ UNCHANGED <<lease, gen, bound, serviceVars, observerVars, driverVars, faults, crashes>>

TransitionToPreparing == Transition("preparing", "preparing", "physical", "idle")
TransitionToObserving == Transition("observing", "observing", "launch", "rollback")
TransitionToRunning   == Transition("running", "running", "idle", "rollback")

PreparedAgain(s) == IF s = "executing" THEN s ELSE "prepared"

\* driver.PrepareRun claims the generation durably before it prepares the run.
Prepared(s) == IF s \in {"none", "claimed"} THEN "prepared" ELSE s
PrepareRun ==
    /\ JobAt("physical")
    /\ \/ /\ unit = "up" /\ specimen' = Prepared(specimen) /\ JobGoes("observe")
          /\ UNCHANGED faults
       \/ /\ Fault /\ JobGoes("rollback")
          /\ \E s \in {specimen, IF specimen = "none" THEN "claimed" ELSE specimen} : specimen' = s
    /\ UNCHANGED <<coreVars, serviceVars, observerVars, unit, crashes>>

\* observers.Start: a fresh record is owned and active, or (fault) it was not
\* recorded, or a required collector failed and the record is stopped.
StartObservers(ok, failed) ==
    \/ /\ rec.phase = "none" /\ ok
       /\ rec' = [NoRec EXCEPT !.phase = "active"] /\ marker' = "owned" /\ UNCHANGED faults
    \/ rec.phase = "active" /\ ok /\ UNCHANGED <<rec, marker, faults>>
    \/ rec.phase \notin {"none", "active"} /\ failed /\ UNCHANGED <<rec, marker, faults>>
    \/ rec.phase = "none" /\ Fault /\ failed /\ UNCHANGED <<rec, marker>>
    \/ /\ rec.phase = "none" /\ journal.external /\ Fault /\ failed
       /\ rec' = [NoRec EXCEPT !.phase = "stopped"] /\ marker' = "stopped"

StartRunObservers ==
    /\ JobAt("observe")
    /\ StartObservers(JobGoes(IF run = "preparing" THEN "observing" ELSE "launch"),
                      JobGoes("rollback"))
    /\ UNCHANGED <<coreVars, serviceVars, journal, driverVars, crashes>>

StartRun ==
    /\ JobAt("launch")
    /\ \/ /\ specimen \in {"prepared", "executing"} /\ specimen' = "executing"
          /\ JobGoes("running") /\ UNCHANGED faults
       \/ /\ specimen \notin {"prepared", "executing"} /\ UNCHANGED <<specimen, faults>>
          /\ JobGoes("rollback")
       \/ Fault /\ UNCHANGED specimen /\ JobGoes("rollback")
    /\ UNCHANGED <<coreVars, serviceVars, observerVars, unit, crashes>>

\* A call of stopAndFinalizeRun by the job: admitted, or refused for another owner.
Finalize(by, waiting) ==
    IF MayReserve(by)
    THEN Reserve(by) /\ job' = waiting /\ UNCHANGED <<mode, reaper, destroyer>>
    ELSE UNCHANGED owner /\ JobGoes("idle")

RollbackRun ==
    /\ JobAt("rollback")
    /\ IF run \in RunTerminal THEN UNCHANGED owner /\ JobGoes("idle")
                              ELSE Finalize("rollback", "undo")
    /\ UNCHANGED <<coreVars, intent, contained, stage, prep, known, observerVars, driverVars,
                   faults, crashes>>

StopTargetRun ==
    /\ JobAt("idle") /\ run = "running" /\ MayReserve("stop") /\ Finalize("stop", "stopping")
    /\ UNCHANGED <<coreVars, intent, contained, stage, prep, known, observerVars, driverVars,
                   faults, crashes>>

\* StopTargetRun again, for the terminal run it finalized before.
StopTerminalRun ==
    /\ JobAt("idle") /\ run \in RunTerminal /\ owner = "stop" /\ "completed" \notin stage
    /\ Completable /\ CompleteTerminalRun
    /\ UNCHANGED <<coreVars, owner, intent, contained, prep, known, journal, driverVars,
                   actorVars, faults, crashes>>

\* Ready -> Resettable needs an active lease; Resettable has been closed before.
AdmissionCloses == gen = "resettable" \/ (gen = "ready" /\ LeaseActive)

\* The quarantine intent is exclusive with a destroy intent.
QuarantineTarget ==
    /\ JobAt("idle") /\ gen \notin GenTerminal /\ intent \in {"none", "quarantine"}
    /\ intent' = "quarantine" /\ JobGoes("q.admission")
    /\ UNCHANGED <<coreVars, owner, contained, stage, prep, known, observerVars, driverVars,
                   faults, crashes>>

CloseQuarantineAdmission ==
    /\ JobAt("q.admission")
    /\ IF AdmissionCloses
       THEN gen' = "resettable" /\ JobGoes("q.runs")
       ELSE UNCHANGED gen /\ JobGoes("idle")
    /\ UNCHANGED <<lease, run, bound, serviceVars, observerVars, driverVars, faults, crashes>>

ContainBeforeRuns ==
    /\ JobAt("q.runs") /\ JobGoes("q.contain")
    /\ UNCHANGED <<coreVars, serviceVars, observerVars, driverVars, faults, crashes>>

\* finalizeTargetRunsForQuarantine and requireTargetQuarantineRunsFinalized.
FinalizeRunsForQuarantine ==
    /\ JobAt("q.runs")
    /\ CASE run = "none" -> JobGoes("q.contain") /\ UNCHANGED <<owner, stage, marker, rec>>
         [] run \in RunTerminal /\ Completable ->
              CompleteTerminalRun /\ JobGoes("q.contain") /\ UNCHANGED owner
         [] run \in RunLive /\ ~contained ->
              Finalize("quarantine", "q.wait") /\ UNCHANGED <<stage, marker, rec>>
         [] OTHER -> JobGoes("idle") /\ UNCHANGED <<owner, stage, marker, rec>>
    /\ UNCHANGED <<coreVars, intent, contained, prep, known, journal, driverVars, faults, crashes>>

\* driver.Quarantine, unless its evidence is durable already.
ContainTarget ==
    /\ JobAt("q.contain")
    /\ \/ contained /\ JobGoes("q.commit") /\ UNCHANGED <<unit, faults>>
       \/ /\ ~contained /\ unit # "absent" /\ gen \notin GenTerminal
          /\ unit' = "contained" /\ JobGoes("q.record") /\ UNCHANGED faults
       \/ ~contained /\ (unit = "absent" \/ gen \in GenTerminal) /\ JobGoes("idle")
          /\ UNCHANGED <<unit, faults>>
       \/ ~contained /\ Fault /\ JobGoes("idle") /\ UNCHANGED unit
    /\ UNCHANGED <<coreVars, serviceVars, observerVars, specimen, crashes>>

PersistContainment ==
    /\ JobAt("q.record") /\ contained' = TRUE /\ JobGoes("q.commit")
    /\ UNCHANGED <<coreVars, owner, intent, stage, prep, known, observerVars, driverVars,
                   faults, crashes>>

\* Core.QuarantineTarget also ends every live run of the generation.
Quarantined ==
    /\ gen' = "quarantined"
    /\ run' = IF run \in RunLive THEN "quarantined" ELSE run

CommitTargetQuarantine ==
    /\ JobAt("q.commit") /\ JobGoes("idle")
    /\ IF gen \notin GenTerminal /\ LeaseAllowsCleanup THEN Quarantined ELSE UNCHANGED <<gen, run>>
    /\ UNCHANGED <<lease, bound, serviceVars, observerVars, driverVars, faults, crashes>>

JobNext ==
    \/ BindTargetRunPlan \/ TransitionToPreparing \/ PrepareRun \/ StartRunObservers
    \/ TransitionToObserving \/ StartRun \/ TransitionToRunning \/ RollbackRun
    \/ CloseQuarantineAdmission \/ FinalizeRunsForQuarantine \/ ContainTarget
    \/ PersistContainment \/ CommitTargetQuarantine

-----------------------------------------------------------------------------
(* DestroyTarget                                                           *)

DestroyerAt(step) == Serving /\ destroyer = step
DestroyerGoes(step) == destroyer' = step /\ UNCHANGED <<mode, fin, job, reaper>>

DestroyTarget ==
    /\ DestroyerAt("idle") /\ gen \notin GenTerminal
    /\ \/ intent = "destroy" /\ DestroyerGoes("admission")
       \/ intent # "destroy" /\ run \notin RunLive /\ DestroyerGoes("reserve")
    /\ UNCHANGED <<coreVars, serviceVars, observerVars, driverVars, faults, crashes>>

ReserveDestroy ==
    /\ DestroyerAt("reserve")
    /\ IF intent = "none" THEN intent' = "destroy" /\ DestroyerGoes("admission")
                          ELSE UNCHANGED intent /\ DestroyerGoes("idle")
    /\ UNCHANGED <<coreVars, owner, contained, stage, prep, known, observerVars, driverVars,
                   faults, crashes>>

CloseDestroyAdmission ==
    /\ DestroyerAt("admission")
    /\ IF AdmissionCloses
       THEN gen' = "resettable" /\ DestroyerGoes("physical")
       ELSE UNCHANGED gen /\ DestroyerGoes("idle")
    /\ UNCHANGED <<lease, run, bound, serviceVars, observerVars, driverVars, faults, crashes>>

DestroyPhysicalUnchecked ==
    /\ DestroyerAt("physical") /\ unit' = "absent" /\ DestroyerGoes("commit")
    /\ UNCHANGED <<coreVars, serviceVars, observerVars, specimen, faults, crashes>>

\* Quiescence is asserted again behind the admission barrier.
DestroyPhysical ==
    /\ DestroyerAt("physical")
    /\ \/ run \notin RunLive /\ unit' = "absent" /\ DestroyerGoes("commit") /\ UNCHANGED faults
       \/ run \in RunLive /\ DestroyerGoes("idle") /\ UNCHANGED <<unit, faults>>
       \/ Fault /\ DestroyerGoes("idle") /\ UNCHANGED unit
    /\ UNCHANGED <<coreVars, serviceVars, observerVars, specimen, crashes>>

CommitDestroyed ==
    /\ DestroyerAt("commit") /\ DestroyerGoes("idle")
    /\ gen' = IF gen = "resettable" /\ LeaseActive THEN "destroyed" ELSE gen
    /\ UNCHANGED <<lease, run, bound, serviceVars, observerVars, driverVars, faults, crashes>>

DestroyNext == ReserveDestroy \/ CloseDestroyAdmission \/ DestroyPhysical \/ CommitDestroyed

-----------------------------------------------------------------------------
(* Lease termination: ReconcileLeaseTerminations, ReleaseResearchSession   *)

ReaperAt(step) == Serving /\ reaper = step
ReaperGoes(step) == reaper' = step /\ UNCHANGED <<mode, fin, job, destroyer>>

LeaseDue ==
    /\ lease = "active" /\ lease' = "due"
    /\ UNCHANGED <<gen, run, bound, serviceVars, observerVars, driverVars, actorVars, faults,
                   crashes>>

\* A release of the active lease enters the same drain.
ReleaseResearchSession ==
    /\ ReaperAt("idle") /\ job \notin StartSteps /\ LeaseActive
    /\ lease' = "expiring" /\ ReaperGoes("drain")
    /\ UNCHANGED <<gen, run, bound, serviceVars, observerVars, driverVars, faults, crashes>>

ReconcileLeaseTerminations ==
    /\ ReaperAt("idle") /\ job \notin StartSteps /\ lease \in {"due", "expiring"}
    /\ lease' = "expiring" /\ ReaperGoes("drain")
    /\ UNCHANGED <<gen, run, bound, serviceVars, observerVars, driverVars, faults, crashes>>

\* finalizeTerminationRuns: the first call, and the second after the lost run
\* was prepared again.
FinalizeTerminationRun(step) ==
    /\ ReaperAt(step) /\ fin.by # "termination"
    /\ IF run \in RunLive
       THEN IF MayReserve("termination")
            THEN Reserve("termination") /\ UNCHANGED <<mode, job, reaper, destroyer>>
            ELSE UNCHANGED owner /\ ReaperGoes("idle")
       ELSE UNCHANGED owner /\ ReaperGoes("release")
    /\ UNCHANGED <<coreVars, intent, contained, stage, prep, known, observerVars, driverVars,
                   faults, crashes>>

\* prepareLostTerminationRun: PrepareRun, then observers.Start.  The plan of an
\* unbound run is not bound here.
PrepareLostRun ==
    /\ ReaperAt("lost")
    /\ \/ /\ unit = "up" /\ specimen' = Prepared(specimen) /\ ReaperGoes("observe")
          /\ UNCHANGED faults
       \/ Fault /\ ReaperGoes("idle") /\ UNCHANGED specimen
    /\ UNCHANGED <<coreVars, serviceVars, observerVars, unit, crashes>>

StartLostObservers ==
    /\ ReaperAt("observe") /\ StartObservers(ReaperGoes("redrain"), ReaperGoes("idle"))
    /\ UNCHANGED <<coreVars, serviceVars, journal, driverVars, crashes>>

\* releasePhysical.
ReleasePhysical ==
    /\ ReaperAt("release")
    /\ \/ unit' = "absent" /\ ReaperGoes("complete") /\ UNCHANGED faults
       \/ Fault /\ ReaperGoes("idle") /\ UNCHANGED unit
    /\ UNCHANGED <<coreVars, serviceVars, observerVars, specimen, crashes>>

\* Core.CompleteLeaseTermination retires the generation with the lease.
CompleteLeaseTermination ==
    /\ ReaperAt("complete") /\ ReaperGoes("idle")
    /\ IF run \in RunLive THEN UNCHANGED <<lease, gen>>
       ELSE lease' = "expired" /\ gen' = IF gen \in GenTerminal THEN gen ELSE "destroyed"
    /\ UNCHANGED <<run, bound, serviceVars, observerVars, driverVars, faults, crashes>>

ReaperNext ==
    \/ ReconcileLeaseTerminations \/ FinalizeTerminationRun("drain")
    \/ PrepareLostRun \/ StartLostObservers \/ FinalizeTerminationRun("redrain")
    \/ ReleasePhysical \/ CompleteLeaseTermination

-----------------------------------------------------------------------------
(* Timers and crashes                                                      *)

\* stopAfterMaximumDuration of the coordinator.
ObserverTimer ==
    /\ Serving /\ rec.phase = "active"
    /\ \/ /\ rec' = [rec EXCEPT !.phase = "stopped", !.result = "partial"] /\ marker' = "stopped"
          /\ journal' = [journal EXCEPT !.batch = TRUE] /\ UNCHANGED faults
       \/ /\ Fault /\ rec' = [rec EXCEPT !.phase = "stopping"] /\ marker' = "stopping"
          /\ UNCHANGED journal
    /\ UNCHANGED <<coreVars, serviceVars, driverVars, actorVars, crashes>>

\* expireRun of the driver.
DurationTimer ==
    /\ Serving /\ unit = "up" /\ specimen \in {"executing", "halting"} /\ specimen' = "aborted"
    /\ UNCHANGED <<coreVars, serviceVars, observerVars, unit, actorVars, faults, crashes>>

\* Everything in memory is lost; a running specimen is not stopped by it.
Crash ==
    /\ mode # "down" /\ crashes < MaxCrashes /\ crashes' = crashes + 1
    /\ mode' = "down" /\ fin' = NoFin /\ job' = "idle" /\ reaper' = "idle" /\ destroyer' = "idle"
    /\ rec' = NoRec /\ known' = {}
    /\ UNCHANGED <<coreVars, owner, intent, contained, stage, prep, marker, journal, driverVars,
                   faults>>

-----------------------------------------------------------------------------
(* Startup                                                                 *)

BootAt(step) == mode = step
BootGoes(step) == mode' = step /\ UNCHANGED <<fin, job, reaper, destroyer>>

\* The supervisor starts a daemon that refused to serve again.
Restart ==
    /\ BootAt("refused") /\ BootGoes("down") /\ rec' = NoRec /\ known' = {}
    /\ UNCHANGED <<coreVars, owner, intent, contained, stage, prep, marker, journal, driverVars,
                   faults, crashes>>

Anchored   == "prepRecord" \in stage \/ ("prepBound" \in stage /\ marker \in {"stopped", "committed"})
Unanchored ==
    (IF Anchored THEN {} ELSE {"prepFile"})
        \cup (IF "pubRecord" \in stage THEN {} ELSE {"pubFile"})
Unloadable ==
    \/ run \in RunTerminal /\ "prepFile" \in stage /\ "prepRecord" \notin stage
    \/ run \in RunTerminal /\ "pubFile" \in stage /\ "pubRecord" \notin stage
    \/ "file" \in stage /\ "pubRecord" \notin stage

\* loadBundleStopPreparations, loadBundlePublications and reconcileBundleFiles:
\* a staged file nothing anchors is removed.
LoadService ==
    /\ BootAt("down")
    /\ IF Unloadable THEN BootGoes("refused") /\ UNCHANGED <<stage, prep, known>>
       ELSE /\ BootGoes("finalizations") /\ stage' = stage \ Unanchored
            /\ prep' = IF Anchored THEN prep ELSE NoPrep
            /\ known' = (IF Anchored /\ "prepFile" \in stage THEN {"prep"} ELSE {})
                           \cup (IF "pubRecord" \in stage THEN {"pub"} ELSE {})
    /\ UNCHANGED <<coreVars, owner, intent, contained, observerVars, driverVars, faults, crashes>>

\* closeAdmissionForDueLeaseExpiries, then ReconcileRunFinalizations.
ReconcileRunFinalizations ==
    /\ BootAt("finalizations") /\ lease' = IF lease = "due" THEN "expiring" ELSE lease
    /\ CASE "prep" \in known ->
              mode' = "finalizing" /\ fin' = [by |-> owner, pc |-> "anchor"]
              /\ UNCHANGED <<job, reaper, destroyer>>
         [] "prep" \notin known /\ owner # "none" /\ run \in RunTerminal /\ "pub" \notin known ->
              BootGoes("refused")
         [] OTHER -> BootGoes("observers")
    /\ UNCHANGED <<gen, run, bound, serviceVars, observerVars, driverVars, faults, crashes>>

CleanupAuthorized == lease = "expiring" /\ run \notin RunLive

\* resolvePersistedPhysicalPlans.
PlansResolve ==
    /\ run \in RunLive => gen \notin GenTerminal /\ (bound \/ run = "requested")
    /\ bound /\ run \in RunTerminal => {"pubRecord", "index"} \subseteq stage

\* ReconcilePersistedRuns: every marker belongs to a bound run, and agrees with it.
MarkersMatch ==
    /\ marker # "none" => bound
    /\ bound /\ run \in RunLive => marker # "committed"
    /\ bound /\ run \in RunTerminal => marker \in {"stopped", "committed"}

\* assessTargetReconciliationWithRecovery: a missing target needs an authority.
InventoryClean ==
    unit = "absent" => gen \in GenTerminal \/ intent = "destroy" \/ CleanupAuthorized

ReconcilePersistedRuns ==
    /\ BootAt("observers")
    /\ IF PlansResolve /\ MarkersMatch /\ InventoryClean
       THEN /\ marker' = IF bound /\ run \in RunTerminal THEN "committed" ELSE marker
            /\ stage' = IF "index" \in stage THEN stage \cup {"completed"} ELSE stage
            /\ unit' = IF CleanupAuthorized THEN "absent" ELSE unit
            /\ BootGoes(IF CleanupAuthorized \/ gen \in GenTerminal THEN "gate"
                        ELSE IF intent = "none" THEN "recover" ELSE intent)
       ELSE BootGoes("refused") /\ UNCHANGED <<marker, stage, unit>>
    /\ UNCHANGED <<coreVars, owner, intent, contained, prep, known, journal, rec, specimen,
                   faults, crashes>>

RecoverableWithMarker == specimen # "none" /\ unit = "up" /\ marker # "none"

\* recoverPersistedRuns of a bound live run: RecoverInterruptedRun of the driver
\* needs the durable claim, RecoverInterrupted of the observers the marker.
Recoverable ==
    /\ specimen # "none" /\ unit = "up"
    /\ marker = "none" => run \in {"requested", "preparing"}

\* RecoverInterrupted: the coordinator record rebuilt from marker and journal.
Recovered ==
    CASE marker = "stopped" /\ journal.receipt # "none" ->
           [phase |-> "stopped", result |-> IF journal.facts THEN "full" ELSE "partial",
            receipt |-> journal.receipt]
      [] journal.receipt = "none" /\ journal.batch -> [NoRec EXCEPT !.phase = "stopping"]
      [] OTHER -> [NoRec EXCEPT !.phase = "recovering"]

\* recoveryFinalizationIdentity keeps the identity that reserved before.
RecoverInterruptedRun(next) ==
    IF Recoverable
    THEN /\ specimen' = "interrupted"
         /\ rec' = Recovered
         /\ marker' = IF Recovered.phase = "recovering" THEN "owned" ELSE marker
         /\ journal' = [journal EXCEPT !.lost = @ \/ Recovered.phase = "recovering"]
         /\ owner' = IF owner = "none" THEN "startup" ELSE owner
         /\ fin' = [by |-> owner',
                    pc |-> IF Recovered.receipt # "none" THEN "assemble" ELSE "prepareStop"]
         /\ mode' = next /\ UNCHANGED <<job, reaper, destroyer>>
    ELSE BootGoes("refused") /\ UNCHANGED <<specimen, rec, marker, journal, owner>>

\* resumePersistedTargetQuarantines up to the finalized runs.
ResumeQuarantine ==
    /\ BootAt("quarantine")
    /\ IF unit = "absent" \/ ~AdmissionCloses \/ (run \in RunLive /\ (contained \/ ~bound))
       THEN /\ BootGoes("refused")
            /\ gen' = IF unit # "absent" /\ ~contained /\ AdmissionCloses THEN "resettable" ELSE gen
            /\ UNCHANGED <<specimen, rec, marker, journal, owner>>
       ELSE /\ gen' = "resettable"
            /\ IF run \in RunLive THEN RecoverInterruptedRun("qrecovering")
               ELSE BootGoes("qcontain") /\ UNCHANGED <<specimen, rec, marker, journal, owner>>
    /\ UNCHANGED <<lease, run, bound, intent, contained, stage, prep, known, unit, faults, crashes>>

ResumeContainment ==
    /\ BootAt("qcontain") /\ unit' = "contained"
    /\ BootGoes(IF contained THEN "qcommit" ELSE "qrecord")
    /\ UNCHANGED <<coreVars, serviceVars, observerVars, specimen, faults, crashes>>

ResumePersistContainment ==
    /\ BootAt("qrecord") /\ contained' = TRUE /\ BootGoes("qcommit")
    /\ UNCHANGED <<coreVars, owner, intent, stage, prep, known, observerVars, driverVars,
                   faults, crashes>>

ResumeCommitQuarantine ==
    /\ BootAt("qcommit")
    /\ IF LeaseAllowsCleanup THEN Quarantined /\ BootGoes("gate")
                             ELSE BootGoes("refused") /\ UNCHANGED <<gen, run>>
    /\ UNCHANGED <<lease, bound, serviceVars, observerVars, driverVars, faults, crashes>>

\* resumePersistedTargetDestructions: deferred while the run is live.
ResumeDestruction ==
    /\ BootAt("destroy")
    /\ IF ~AdmissionCloses THEN BootGoes("refused") /\ UNCHANGED <<gen, unit>>
       ELSE /\ gen' = "resettable"
            /\ IF run \in RunLive THEN BootGoes("recover") /\ UNCHANGED unit
                                  ELSE BootGoes("destroyCommit") /\ unit' = "absent"
    /\ UNCHANGED <<lease, run, bound, serviceVars, observerVars, specimen, faults, crashes>>

ResumeCommitDestroyed ==
    /\ BootAt("destroyCommit")
    /\ IF LeaseActive THEN gen' = "destroyed" /\ BootGoes("gate")
                      ELSE UNCHANGED gen /\ BootGoes("refused")
    /\ UNCHANGED <<lease, run, bound, serviceVars, observerVars, driverVars, faults, crashes>>

RecoverPersistedRuns ==
    /\ BootAt("recover")
    /\ IF run \in RunLive /\ bound THEN RecoverInterruptedRun("recovering")
       ELSE BootGoes("gate") /\ UNCHANGED <<specimen, rec, marker, journal, owner>>
    /\ UNCHANGED <<coreVars, intent, contained, stage, prep, known, unit, faults, crashes>>

\* observers.Reconcile: nothing external is owned when service opens.
OpenService ==
    /\ BootAt("gate")
    /\ BootGoes(IF marker \in {"none", "committed"} THEN "serving" ELSE "refused")
    /\ UNCHANGED <<coreVars, serviceVars, observerVars, driverVars, faults, crashes>>

BootNext ==
    \/ Restart \/ LoadService \/ ReconcileRunFinalizations \/ ReconcilePersistedRuns
    \/ ResumeQuarantine \/ ResumeContainment \/ ResumePersistContainment
    \/ ResumeCommitQuarantine \/ ResumeDestruction \/ ResumeCommitDestroyed
    \/ RecoverPersistedRuns \/ OpenService

-----------------------------------------------------------------------------
Callers ==
    StartTargetRun \/ StopTargetRun \/ StopTerminalRun \/ QuarantineTarget \/ DestroyTarget
        \/ ReleaseResearchSession

Environment == FinalizationFault \/ LeaseDue \/ ObserverTimer \/ DurationTimer \/ Crash

\* Nothing is left to do once the lease has ended.
Settled ==
    /\ Serving /\ lease = "expired" /\ {job, reaper, destroyer} = {"idle"} /\ fin = NoFin
    /\ UNCHANGED vars

Next ==
    Settled \/ Callers \/ Environment \/ FinNext \/ JobNext \/ DestroyNext \/ ReaperNext \/ BootNext

\* Every admitted call goes on, the supervisor restarts; the reaper's ticker
\* fires and is not kept off Controller.mu for ever by callers.
Fairness ==
    /\ WF_vars(FinNext) /\ WF_vars(JobNext)
    /\ SF_vars(ReaperNext) /\ WF_vars(BootNext)

Spec == Init /\ [][Next]_vars /\ Fairness


-----------------------------------------------------------------------------
(* Properties                                                              *)

TypeOK ==
    /\ lease \in {"active", "due", "expiring", "expired"}
    /\ gen \in {"ready", "resettable"} \cup GenTerminal
    /\ run \in {"none"} \cup RunLive \cup RunTerminal /\ bound \in BOOLEAN
    /\ owner \in {"none", "rollback", "stop", "quarantine", "termination", "startup"}
    /\ intent \in {"none", "quarantine", "destroy"} /\ contained \in BOOLEAN
    /\ stage \subseteq Stages /\ known \subseteq {"prep", "pub"}
    /\ prep \in [outcome : {"none", "completed", "failed"}, evidence : {"none", "partial", "full"},
                 initial : {"none"} \cup RunLive]
    /\ marker \in {"none", "owned", "stopping", "stopped", "committed"}
    /\ journal \in [external : Collectors, lost : BOOLEAN, batch : BOOLEAN,
                    receipt : {"none", "completed", "failed"}, facts : BOOLEAN]
    /\ rec \in [phase : {"none", "active", "recovering", "stop-prepared", "stop-canceling",
                         "stopping", "stopped", "committed"},
                result : {"none", "partial", "full"}, receipt : {"none", "completed", "failed"}]
    /\ unit \in {"up", "contained", "absent"}
    /\ specimen \in {"none", "claimed", "prepared", "executing", "halting", "interrupted",
                     "exited", "aborted"}
    /\ faults \in 0..MaxFaults /\ crashes \in 0..MaxCrashes

\* A run is terminal only with the outcome of its anchored preparation and a
\* publication anchored before, and its observers stopped first: no path of
\* stop, rollback, quarantine, lease termination or startup ends a run without
\* evidence (FinalizeTargetRun is reached through resumeBundleStopPreparation).
TerminalHasPublication ==
    run \in RunTerminal =>
        /\ {"prepBound", "prepRecord", "pubRecord"} \subseteq stage
        /\ run = prep.outcome /\ marker \in {"stopped", "committed"}

\* A completed bundle (what GetObservationBundle may show) belongs to a terminal
\* run, its file and index are durable and its observers are committed.
CompletedBundleIsWhole ==
    "completed" \in stage =>
        run \in RunTerminal /\ {"file", "index"} \subseteq stage /\ marker = "committed"

\* Containment never predates the finalization of the generation's run, in a
\* live quarantine and in one resumed by startup.
ContainmentAfterEvidence ==
    (contained \/ unit = "contained") => run \notin RunLive /\ (run # "none" => "completed" \in stage)

\* The target is never removed under a live run, whoever removes it.
NoLiveRunWithoutTarget == unit = "absent" => run \notin RunLive

\* The owner of a finalization, an anchored preparation and a terminal run
\* never change, across retries, other callers, crashes and startups.
KeepsOutcome ==
    /\ owner # "none" => owner' = owner
    /\ "prepRecord" \in stage => prep' = prep /\ stage \ {"pubFile"} \subseteq stage'
    /\ run \in RunTerminal => run' = run
OutcomeIsFixed == [][KeepsOutcome]_vars

\* A specimen that stopped, or whose run lost the control plane, never executes
\* again, whatever StartTargetRun is retried with.
KeepsStopped ==
    specimen \in {"interrupted", "exited", "aborted"} => specimen' \notin {"prepared", "executing"}
SpecimenNeverResumes == [][KeepsStopped]_vars

\* The daemon refuses to serve again only in the states listed: a run bound but
\* never claimed in the driver; a run of lease termination that has a marker
\* and no bound plan; a quarantine intent over an unbound run; a destroy or
\* quarantine intent whose admission barrier needs a lease that is no longer
\* active; a completed result staged while the run was observing, whose
\* promotion needs one too; evidence of the intrinsic collector alone, lost
\* after the receipt was journaled; and a lease that fell due while startup ran.
RefusalIsExplained ==
    mode = "refused" =>
        \/ run \in RunLive /\ bound /\ specimen = "none"
        \/ marker # "none" /\ ~bound
        \/ intent = "quarantine" /\ run \in RunLive /\ ~bound
        \/ intent # "none" /\ gen = "ready" /\ ~LeaseActive
        \/ prep.outcome = "completed" /\ prep.initial = "observing" /\ run = "observing" /\ ~LeaseActive
        \/ ~journal.external /\ journal.receipt # "none" /\ ~journal.facts
        \/ lease = "due"

\* A lease that is due or terminating ends, unless a live run is reserved for
\* good by another finalization, the drain's own run has evidence it can never
\* assemble, or every startup refuses.
Terminating == lease \in {"due", "expiring"}
HeldByAnother == run \in RunLive /\ owner \notin {"none", "termination"}
Unassemblable == run \in RunLive /\ Restored /\ ~Assemblable
TerminationEnds ==
    []<>~Terminating \/ <>[]HeldByAnother \/ <>[]Unassemblable \/ []<>(mode = "refused")
=============================================================================
