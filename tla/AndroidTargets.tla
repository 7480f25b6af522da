---------------------------- MODULE AndroidTargets ----------------------------
(***************************************************************************)
(* Android target generations, from the controller's request to the        *)
(* emulator and back after a crash: CreateTarget, ResetTarget and          *)
(* DestroyTarget of the controller (internal/orchestration), the driver    *)
(* that carries them out (internal/drivers/target/cuttlefish), its durable *)
(* endpoint allocator and manifests, and the startup that rebuilds the     *)
(* driver from them.                                                       *)
(*                                                                         *)
(* Target a has generation a1 and, after a reset, a2; target b has b1.  A  *)
(* generation's runtime is named after its console port, so whatever is    *)
(* left at a port meets the next generation that reserves it.  The driver  *)
(* serialises its operations (lifecycleMu), so there is one operation at a *)
(* time, cut into the steps between which the daemon can crash.            *)
(***************************************************************************)
EXTENDS Naturals, EmulatorBackend

CONSTANTS
    MaxCrashes,     \* bound on crashes of the daemon
    MaxFaults       \* bound on failing calls: tools, files, deadlines

Ports == {1, 2}
Gens == {"a1", "a2", "b1"}
First == {"a1", "b1"}

VARIABLES
    emu,        \* the emulator of each port
    held,       \* DurableEmulatorAllocator: the port of each generation, or 0
    disk,       \* the manifests in each generation's state directory
    owner,      \* Driver.targets and cleanupOnly
    status,     \* the status of each active generation
    ctrl,       \* Core's record of each generation
    run,        \* the run of generation a1
    op,         \* the operation in progress
    phase, crashes, faults

androidVars == <<emu, held, disk, owner, status, ctrl, run, op, phase, crashes, faults>>

\* A state directory: the port its manifests name, the create intent, the port
\* a reset transition comes from, the reset outcome, the target and runtime
\* manifests, and of the run its plan, the generation-use gate, its start and
\* its stop; last the quarantine.
NoDir == [port |-> 0, intent |-> FALSE, from |-> 0, outcome |-> "none", target |-> FALSE,
          runtime |-> FALSE, plan |-> FALSE, used |-> FALSE, begun |-> FALSE,
          stop |-> FALSE, quar |-> FALSE]
Idle == [task |-> "none", gen |-> "none", step |-> "none", tear |-> "none", mode |-> "none"]
NoRun == [want |-> FALSE, mem |-> "none", contained |-> FALSE]

\* The manifests are immutable: each is written once, beside the ones before it.
CreateIntended(d, p) == [d EXCEPT !.port = p, !.intent = TRUE]
ResetIntended(d, p, previous) == [d EXCEPT !.port = p, !.from = previous]
ResetConcluded(d, verdict) == [d EXCEPT !.outcome = verdict]
RunPlanned(d) == [d EXCEPT !.plan = TRUE]
RunWithdrawn(d) == [d EXCEPT !.plan = FALSE]
GenerationUsed(d) == [d EXCEPT !.used = TRUE]
RunBegun(d) == [d EXCEPT !.begun = TRUE]
RunStopped(d) == [d EXCEPT !.stop = TRUE]
GenerationQuarantined(d) == [d EXCEPT !.quar = TRUE]

Dir(g) == disk[g].port # 0
Manifested(g) == disk[g].target /\ disk[g].runtime
PortOf(g) == IF Dir(g) THEN disk[g].port ELSE held[g]
EmuOf(g) == IF PortOf(g) = 0 THEN NoEmulator ELSE emu[PortOf(g)]
SetEmu(g, e) == emu' = [emu EXCEPT ![PortOf(g)] = e]

At(s) == op.step = s
Go(s) == op' = [op EXCEPT !.step = s]
Fault == faults < MaxFaults /\ faults' = faults + 1
Well == UNCHANGED faults
Up == phase = "up" /\ op.task = "none"

\* The operations that only remove a generation, and the ones a startup runs,
\* whose failure ends the startup.
Removing == {"destroy", "rollback", "resumeDestroy", "orphan"}
Starting == {"provision", "resumeCreate", "resumeReset", "resumeDestroy", "orphan", "startup"}

TypeOK ==
    /\ emu \in [Ports -> Emulators]
    /\ held \in [Gens -> Ports \cup {0}]
    /\ \A g \in Gens : disk[g].port \in Ports \cup {0} /\ disk[g].from \in Ports \cup {0}
    /\ owner \in [Gens -> {"none", "active", "cleanup", "absent"}]
    /\ status \in [Gens -> {"none", "ready", "resettable", "quarantined"}]
    /\ ctrl \in [Gens -> {"none", "unbound", "bound", "ready", "destroying", "terminal"}]
    /\ run \in [want : BOOLEAN, contained : BOOLEAN,
                mem : {"none", "prepared", "starting", "started", "lost", "stopped",
                       "quarantined"}]
    /\ phase \in {"up", "down", "starting", "refused", "aborted"}
    /\ crashes \in 0..MaxCrashes /\ faults \in 0..MaxFaults

Init ==
    /\ emu = [p \in Ports |-> NoEmulator] /\ held = [g \in Gens |-> 0]
    /\ disk = [g \in Gens |-> NoDir]
    /\ owner = [g \in Gens |-> "none"] /\ status = [g \in Gens |-> "none"]
    /\ ctrl = [g \in Gens |-> "none"]
    /\ run = NoRun /\ op = Idle
    /\ phase = "up" /\ crashes = 0 /\ faults = 0

-----------------------------------------------------------------------------
(* Requests to the controller                                              *)

Task(t, g, s, m) == op' = [task |-> t, gen |-> g, step |-> s, tear |-> "none", mode |-> m]

CreateTarget(g) ==
    /\ Up /\ ctrl[g] = "none"
    /\ ctrl' = [ctrl EXCEPT ![g] = "unbound"] /\ Task("create", g, "bind", "fresh")
    /\ UNCHANGED <<emu, held, disk, owner, status, run, phase, crashes, faults>>

\* Core.ResetTarget retires the previous generation at once.  The driver wants
\* every run stopped and refuses a quarantined generation.
ResetTarget ==
    /\ Up /\ ctrl["a1"] = "ready" /\ ctrl["a2"] = "none" /\ ~run.want
    /\ status["a1"] # "quarantined"
    /\ ctrl' = [ctrl EXCEPT !["a1"] = "terminal", !["a2"] = "unbound"]
    /\ Task("reset", "a2", "bind", "fresh")
    /\ UNCHANGED <<emu, held, disk, owner, status, run, phase, crashes, faults>>

DestroyTarget(g) ==
    /\ Up /\ ctrl[g] \in {"ready", "destroying"} /\ (g = "a1" => ~run.want)
    /\ ctrl' = [ctrl EXCEPT ![g] = "destroying"] /\ Task("destroy", g, "resolve", "none")
    /\ UNCHANGED <<emu, held, disk, owner, status, run, phase, crashes, faults>>

\* ResetTarget retried after a restart: the driver replays an outcome it has
\* recovered, and otherwise no longer owns the previous generation as a target.
RetryReset ==
    /\ Up /\ ctrl["a2"] \in {"unbound", "bound"}
    /\ ctrl' = [ctrl EXCEPT !["a2"] = "bound"]
    /\ IF owner["a2"] = "active" /\ disk["a2"].outcome = "ok"
       THEN Task("reset", "a2", "advance", "none") ELSE Task("rollback", "a1", "resolve", "none")
    /\ UNCHANGED <<emu, held, disk, owner, status, run, phase, crashes, faults>>

\* bindTargetProvisioningPlan; a failure leaves nothing physical to roll back.
Bind ==
    /\ At("bind")
    /\ \/ Well /\ ctrl' = [ctrl EXCEPT ![op.gen] = "bound"] /\ Go("reserve")
       \/ /\ Fault /\ op.task = "create" /\ op' = Idle
          /\ ctrl' = [ctrl EXCEPT ![op.gen] = "terminal"]
    /\ UNCHANGED <<emu, held, disk, owner, status, run, phase, crashes>>

-----------------------------------------------------------------------------
(* Failure of the operation in progress                                    *)

\* A failed create or reset is rolled back; what a startup resumes is not, and
\* its failure ends the startup, for now or until the host is repaired.
Failed ==
    /\ op' = CASE op.task = "create" -> [Idle EXCEPT !.task = "rollback", !.gen = op.gen,
                                                     !.step = "resolve"]
                [] op.task = "reset"  -> [Idle EXCEPT !.task = "rollback", !.gen = "a1",
                                                     !.step = "resolve"]
                [] OTHER              -> Idle
    /\ phase' = CASE op.task \notin Starting                      -> phase
                  [] faults' # faults \/ op.tear = "fail"         -> "aborted"
                  [] OTHER                                        -> "refused"

Return(s) == op' = [Idle EXCEPT !.task = "startup", !.step = s]

-----------------------------------------------------------------------------
(* Booting a generation: Driver.Create, Driver.Reset and their recovery    *)

\* Faulty variant: Reserve asks the host only, not its own reservations.
FreePortsUnreserved == {p \in Ports : emu[p].proc = "none"}

\* DurableEmulatorAllocator.Reserve: the generation's own reservation, else the
\* lowest pair of ports that no generation holds and no process occupies.
FreePorts == {p \in Ports : emu[p].proc = "none" /\ \A g \in Gens : held[g] # p}
Reserved(g) ==
    CASE held[g] # 0     -> held[g]
      [] FreePorts = {}  -> 0
      [] OTHER           -> CHOOSE p \in FreePorts : \A q \in FreePorts : p <= q

Reserve ==
    /\ At("reserve")
    /\ \/ /\ Well /\ Reserved(op.gen) # 0 /\ Go("intent")
          /\ held' = [held EXCEPT ![op.gen] = Reserved(op.gen)] /\ UNCHANGED phase
       \/ Well /\ Reserved(op.gen) = 0 /\ Failed /\ UNCHANGED held
       \/ Fault /\ Failed /\ UNCHANGED held
    /\ UNCHANGED <<emu, disk, owner, status, ctrl, run, crashes>>

\* commitExpectedCreateIntent keeps the reservation when it fails,
\* commitExpectedResetTransition gives it back.
CommitIntent ==
    LET g == op.gen
        dir == IF op.task = "reset" THEN ResetIntended(disk[g], held[g], disk["a1"].port)
                                    ELSE CreateIntended(disk[g], held[g])
    IN  /\ At("intent")
        /\ \/ /\ Well /\ disk' = [disk EXCEPT ![g] = dir]
              /\ Go(IF op.task = "resumeCreate" \/ disk[g].intent THEN "ensure" ELSE "avd")
              /\ UNCHANGED <<held, phase>>
           \/ /\ Fault /\ Failed /\ UNCHANGED disk
              /\ held' = [held EXCEPT ![g] = IF op.task = "reset" THEN 0 ELSE @]
        /\ UNCHANGED <<emu, owner, status, ctrl, run, crashes>>

\* An unretained failure removes the state directory and the reservation of a
\* fresh generation, whatever else is left on the host.
Unretained ==
    IF op.mode = "fresh"
    THEN disk' = [disk EXCEPT ![op.gen] = NoDir] /\ held' = [held EXCEPT ![op.gen] = 0]
    ELSE UNCHANGED <<disk, held>>

\* avdmanager create refuses a name of which anything is left.
CreateAVD ==
    /\ At("avd")
    /\ \/ /\ Well /\ ~Present(EmuOf(op.gen)) /\ SetEmu(op.gen, CreatedAVD(EmuOf(op.gen)))
          /\ Go("data") /\ UNCHANGED <<disk, held, phase>>
       \/ Well /\ Present(EmuOf(op.gen)) /\ Failed /\ Unretained /\ UNCHANGED emu
       \/ /\ Fault /\ ~Present(EmuOf(op.gen)) /\ Failed /\ Unretained
          /\ \E e \in AbandonedAVD(EmuOf(op.gen)) : SetEmu(op.gen, e)
    /\ UNCHANGED <<owner, status, ctrl, run, crashes>>

CreateData ==
    /\ At("data")
    /\ \/ /\ Well /\ SetEmu(op.gen, CreatedData(EmuOf(op.gen))) /\ Go("launch")
          /\ UNCHANGED <<disk, held, phase>>
       \/ /\ Fault /\ Failed /\ Unretained
          /\ \E e \in AbandonedData(EmuOf(op.gen)) : SetEmu(op.gen, e)
    /\ UNCHANGED <<owner, status, ctrl, run, crashes>>

\* cleanupFailedInstance, for an instance this operation created.
Abandon ==
    IF op.mode = "found" THEN Failed
    ELSE op' = [op EXCEPT !.step = "stop", !.tear = "fail"] /\ UNCHANGED phase

\* Start, up to the launch intent and then up to the launcher.
Launch ==
    LET e == EmuOf(op.gen) IN
    /\ At("launch")
    /\ \/ Well /\ Startable(e) /\ SetEmu(op.gen, LaunchIntended(e)) /\ Go("start") /\ UNCHANGED phase
       \/ Well /\ ~Startable(e) /\ Abandon /\ UNCHANGED emu
       \/ Fault /\ SetEmu(op.gen, NeverStarted(e)) /\ Abandon
    /\ UNCHANGED <<held, disk, owner, status, ctrl, run, crashes>>

StartProcess ==
    LET e == EmuOf(op.gen) IN
    /\ At("start")
    /\ \/ Well /\ SetEmu(op.gen, Launched(e)) /\ Go("handoff") /\ UNCHANGED phase
       \/ Fault /\ SetEmu(op.gen, LaunchAbandoned(e)) /\ Abandon
    /\ UNCHANGED <<held, disk, owner, status, ctrl, run, crashes>>

\* waitForManagedHostProcessOwnership waits for the process behind the PID file;
\* at its deadline, or when the launcher ends, it stops what it can reach.
AwaitHandoff ==
    LET e == EmuOf(op.gen) IN
    /\ At("handoff")
    /\ \/ Well /\ Adoptable(e) /\ SetEmu(op.gen, AdoptedProcess(e)) /\ Go("ready") /\ UNCHANGED phase
       \/ Well /\ e.proc = "none" /\ Abandon /\ UNCHANGED emu
       \/ Fault /\ SetEmu(op.gen, Killed(e)) /\ Abandon
    /\ UNCHANGED <<held, disk, owner, status, ctrl, run, crashes>>

\* What follows a booted and manifested generation: a created one becomes the
\* driver's, a replacement first retires its predecessor, if that still exists.
BootDone ==
    LET retire == \/ op.task = "reset"
                  \/ op.task = "resumeReset" /\ Present(emu[disk[op.gen].from])
    IN  /\ op' = CASE op.task = "resumeCreate" -> [Idle EXCEPT !.task = "startup", !.step = "creates"]
                   [] retire -> [op EXCEPT !.step = "stop", !.tear = "retire"]
                   [] op.task = "resumeReset" -> [op EXCEPT !.step = "outcome"]
                   [] OTHER -> [op EXCEPT !.step = "advance"]
        /\ IF op.task \in {"create", "provision"}
           THEN /\ owner' = [owner EXCEPT ![op.gen] = "active"]
                /\ status' = [status EXCEPT ![op.gen] = "ready"]
           ELSE UNCHANGED <<owner, status>>

\* WaitReady.
AwaitReady ==
    LET e == EmuOf(op.gen) IN
    /\ At("ready")
    /\ \/ /\ Well /\ Observable(e) /\ SetEmu(op.gen, Recalled(e)) /\ UNCHANGED phase
          /\ IF Manifested(op.gen) THEN BootDone ELSE Go("target") /\ UNCHANGED <<owner, status>>
       \/ Well /\ ~Observable(e) /\ Abandon /\ UNCHANGED <<emu, owner, status>>
       \/ Fault /\ Abandon /\ UNCHANGED <<emu, owner, status>>
    /\ UNCHANGED <<held, disk, ctrl, run, crashes>>

\* persistTargetRuntimeManifests writes the two in this order.
NotPersisted == IF op.mode = "fresh" THEN Abandon ELSE Failed

\* Faulty variant: the runtime manifest is forgotten.
PersistTargetOnly ==
    /\ At("target")
    /\ \/ /\ Well /\ disk' = [disk EXCEPT ![op.gen].target = TRUE] /\ BootDone /\ UNCHANGED phase
       \/ Fault /\ NotPersisted /\ UNCHANGED <<disk, owner, status>>
    /\ UNCHANGED <<emu, held, ctrl, run, crashes>>

PersistTarget ==
    /\ At("target")
    /\ \/ /\ Well /\ disk' = [disk EXCEPT ![op.gen].target = TRUE]
          /\ Go("runtime") /\ UNCHANGED phase
       \/ Fault /\ NotPersisted /\ UNCHANGED disk
    /\ UNCHANGED <<emu, held, owner, status, ctrl, run, crashes>>

PersistRuntime ==
    /\ At("runtime")
    /\ \/ Well /\ disk' = [disk EXCEPT ![op.gen].runtime = TRUE] /\ BootDone /\ UNCHANGED phase
       \/ Fault /\ NotPersisted /\ UNCHANGED <<disk, owner, status>>
    /\ UNCHANGED <<emu, held, ctrl, run, crashes>>

\* advanceTargetReady.
AdvanceReady ==
    /\ At("advance")
    /\ ctrl' = [ctrl EXCEPT ![op.gen] = "ready"]
    /\ IF op.task = "provision" THEN Return("provision") ELSE op' = Idle
    /\ UNCHANGED <<emu, held, disk, owner, status, run, phase, crashes, faults>>

\* ensureManifestedAndroidInstance: an interrupted boot is carried on from
\* whatever it had reached.
Ensure ==
    LET g == op.gen
        e == EmuOf(g)
        found == [op EXCEPT !.mode = "found"]
    IN  /\ At("ensure")
        /\ \/ /\ Well /\ Present(e) /\ (Manifested(g) \/ e.launch # "none")
              /\ op' = [found EXCEPT !.step = "ready"] /\ UNCHANGED <<emu, phase>>
           \/ /\ Well /\ Present(e) /\ ~Manifested(g) /\ e.launch = "none" /\ Resumable(e)
              /\ SetEmu(g, Unconfigured(e)) /\ op' = [found EXCEPT !.step = "avd"] /\ UNCHANGED phase
           \/ /\ Fault /\ Present(e) /\ ~Manifested(g) /\ e.launch = "none" /\ Resumable(e)
              /\ SetEmu(g, PartlyDeletedAVD(e)) /\ Failed
           \/ /\ Well /\ Present(e) /\ ~Manifested(g) /\ e.launch = "none" /\ ~Resumable(e)
              /\ Failed /\ UNCHANGED emu
           \/ /\ Well /\ ~Present(e) /\ ~disk[g].target /\ ~disk[g].runtime
              /\ op' = [op EXCEPT !.mode = "made", !.step = "avd"] /\ UNCHANGED <<emu, phase>>
           \/ /\ Well /\ ~Present(e) /\ (disk[g].target \/ disk[g].runtime)
              /\ Failed /\ UNCHANGED emu
        /\ UNCHANGED <<held, disk, owner, status, ctrl, run, crashes>>

-----------------------------------------------------------------------------
(* Taking an instance down: Backend.Destroy                                *)

TearGen == IF op.tear = "retire" THEN "a1" ELSE op.gen

\* restoreInstance succeeds for a predecessor that still runs.  One that has
\* been stopped is never started again, and the replacement takes over.
Unretired ==
    /\ UNCHANGED phase
    /\ op' = IF Observable(EmuOf("a1"))
             THEN [op EXCEPT !.step = "stop", !.tear = "undo"]
             ELSE [op EXCEPT !.step = "outcome", !.tear = "torn"]

TearFailed ==
    CASE op.tear = "retire" /\ op.task = "reset" -> Unretired
      [] op.task \in {"destroy", "rollback"} -> op' = [op EXCEPT !.step = "failed"] /\ UNCHANGED phase
      [] OTHER -> Failed

TearStop ==
    LET e == EmuOf(TearGen)
        after == Killed(Recalled(e))
    IN  /\ At("stop")
        /\ \/ /\ Well /\ Known(e) /\ ProvablyStopped(after)
              /\ SetEmu(TearGen, after) /\ Go("delete") /\ UNCHANGED phase
           \/ /\ Well /\ Known(e) /\ ~ProvablyStopped(after)
              /\ SetEmu(TearGen, after) /\ TearFailed
           \/ Well /\ ~Known(e) /\ TearFailed /\ UNCHANGED emu
           \/ Fault /\ TearFailed /\ UNCHANGED emu
        /\ UNCHANGED <<held, disk, owner, status, ctrl, run, crashes>>

TearDelete ==
    LET e == EmuOf(TearGen) IN
    /\ At("delete")
    /\ \/ Well /\ SetEmu(TearGen, WithoutAVD(e)) /\ Go("purge") /\ UNCHANGED phase
       \/ Fault /\ SetEmu(TearGen, PartlyDeletedAVD(e)) /\ TearFailed
    /\ UNCHANGED <<held, disk, owner, status, ctrl, run, crashes>>

\* The data image, the process record and the state directory.  A failed boot
\* and an undone replacement give their reservation back.
TearPurge ==
    LET g == TearGen IN
    /\ At("purge")
    /\ \/ /\ Well /\ SetEmu(g, Destroyed(EmuOf(g))) /\ disk' = [disk EXCEPT ![g] = NoDir]
          /\ CASE op.tear = "retire"  -> Go("outcome") /\ UNCHANGED <<held, phase>>
               [] op.tear = "destroy" -> Go("release") /\ UNCHANGED <<held, phase>>
               [] OTHER -> /\ Failed
                           /\ held' = [held EXCEPT ![g] = IF op.mode = "fresh" THEN 0 ELSE @]
       \/ Fault /\ TearFailed /\ UNCHANGED <<emu, disk, held>>
    /\ UNCHANGED <<owner, status, ctrl, run, crashes>>

-----------------------------------------------------------------------------
(* The end of a reset                                                      *)

\* commitReset: the replacement takes over from its predecessor and its runs.
Supersede ==
    /\ owner' = [owner EXCEPT !["a1"] = "none", !["a2"] = "active"]
    /\ status' = [status EXCEPT !["a1"] = "none", !["a2"] = "ready"]
    /\ run' = NoRun

\* commitDurableResetOutcome, then commitReset in memory.  Only a persisted
\* success releases the previous reservation, best-effort, and is reported.
CommitOutcome ==
    LET verdict == IF op.tear = "torn" THEN "err" ELSE "ok" IN
    /\ At("outcome")
    /\ \/ /\ Well /\ disk' = [disk EXCEPT !["a2"] = ResetConcluded(@, verdict)]
          /\ IF op.task = "resumeReset"
             THEN Return("resets") /\ UNCHANGED <<held, phase>>
             ELSE IF verdict = "ok"
                  THEN /\ Go("advance") /\ held' = [held EXCEPT !["a1"] = 0] /\ UNCHANGED phase
                  ELSE Failed /\ UNCHANGED held
       \/ /\ Fault /\ UNCHANGED held
          /\ \/ UNCHANGED disk /\ Failed
             \/ /\ op.task = "reset" /\ verdict = "ok"
                /\ disk' = [disk EXCEPT !["a2"] = ResetConcluded(@, "ok")] /\ Go("advance") /\ UNCHANGED phase
    /\ IF op.task = "reset" THEN Supersede ELSE UNCHANGED <<owner, status, run>>
    /\ UNCHANGED <<emu, ctrl, crashes>>

-----------------------------------------------------------------------------
(* Driver.Destroy, for DestroyTarget, for rollbackTarget and for a startup *)

\* hasUnstoppedRun and cleanupStoppedRuns: a quarantined run is never cleaned.
RunsBlock(g) == g = "a1" /\ run.mem \notin {"none", "stopped"}

\* What the driver makes of the reference: an owned instance, a cleanup record
\* without a runtime, nothing at all, or a refusal.
Resolved(g) ==
    CASE owner[g] = "active" /\ RunsBlock(g)               -> "failed"
      [] owner[g] \in {"active", "cleanup"}                -> "stop"
      [] owner[g] = "absent" /\ Present(EmuOf(g))          -> "failed"
      [] owner[g] = "absent"                               -> "release"
      [] Dir(g) \/ held[g] # 0                             -> "failed"
      [] OTHER                                             -> "gone"

Resolve ==
    /\ At("resolve")
    /\ op' = [op EXCEPT !.step = Resolved(op.gen), !.tear = "destroy"]
    /\ UNCHANGED <<emu, held, disk, owner, status, ctrl, run, phase, crashes, faults>>

\* The reservation and the state directory, then the driver's own records.
Release ==
    LET g == op.gen IN
    /\ At("release")
    /\ \/ /\ Well /\ held' = [held EXCEPT ![g] = 0] /\ disk' = [disk EXCEPT ![g] = NoDir]
          /\ owner' = [owner EXCEPT ![g] = "none"] /\ status' = [status EXCEPT ![g] = "none"]
          /\ run' = IF g = "a1" THEN NoRun ELSE run
          /\ Go("gone")
          /\ UNCHANGED phase
       \/ /\ Fault /\ UNCHANGED <<held, disk, owner, status, run>>
          /\ IF op.task \in Starting THEN Failed ELSE Go("failed") /\ UNCHANGED phase
    /\ UNCHANGED <<emu, ctrl, crashes>>

\* DestroyTarget records success only.  rollbackTarget tries every reference
\* and then ends the generation, whatever became of it.
DestroyEnds ==
    /\ op.task \in Removing /\ op.step \in {"gone", "failed"}
    /\ CASE op.task = "rollback" /\ op.gen = "a1" /\ ctrl["a2"] # "none" ->
              /\ op' = [op EXCEPT !.gen = "a2", !.step = "resolve"]
              /\ UNCHANGED <<ctrl, phase>>
         [] op.task = "rollback" \/ (op.task = "destroy" /\ At("gone")) ->
              op' = Idle /\ ctrl' = [ctrl EXCEPT ![op.gen] = "terminal"] /\ UNCHANGED phase
         [] op.task = "destroy" -> op' = Idle /\ UNCHANGED <<ctrl, phase>>
         [] At("gone") ->
              /\ Return("settle") /\ UNCHANGED phase
              /\ ctrl' = [ctrl EXCEPT ![op.gen] = IF @ = "destroying" THEN "terminal" ELSE @]
         [] OTHER -> op' = Idle /\ phase' = "refused" /\ UNCHANGED ctrl
    /\ UNCHANGED <<emu, held, disk, owner, status, run, crashes, faults>>

-----------------------------------------------------------------------------
(* The run of generation a1                                                *)

BeginRun ==
    /\ Up /\ ctrl["a1"] = "ready" /\ status["a1"] = "ready"
    /\ run.mem = "none" /\ ~run.want /\ ~disk["a1"].plan /\ ~disk["a1"].used
    /\ run' = [run EXCEPT !.want = TRUE] /\ Task("run", "a1", "plan", "none")
    /\ UNCHANGED <<emu, held, disk, owner, status, ctrl, phase, crashes, faults>>

\* prepareRun: the plan, the material, the generation-use gate, then the record.
\* A run whose material fails leaves nothing; the controller gives it up.
RunFails == run' = [run EXCEPT !.want = FALSE] /\ op' = Idle

PrepareRun ==
    /\ op.task = "run"
    /\ \/ /\ At("plan") /\ Well /\ disk' = [disk EXCEPT !["a1"] = RunPlanned(@)]
          /\ Go("material") /\ UNCHANGED run
       \/ At("plan") /\ Fault /\ RunFails /\ UNCHANGED disk
       \/ At("material") /\ Well /\ Observable(EmuOf("a1")) /\ Go("claim") /\ UNCHANGED <<disk, run>>
       \/ /\ At("material") /\ (Fault \/ (Well /\ ~Observable(EmuOf("a1"))))
          /\ disk' = [disk EXCEPT !["a1"] = RunWithdrawn(@)] /\ RunFails
       \/ /\ At("claim") /\ Well /\ disk' = [disk EXCEPT !["a1"] = GenerationUsed(@)]
          /\ run' = [run EXCEPT !.mem = "prepared"] /\ op' = Idle
       \/ At("claim") /\ Fault /\ RunFails /\ UNCHANGED disk
    /\ UNCHANGED <<emu, held, owner, status, ctrl, phase, crashes>>

\* StartRun waits for the collectors without the lifecycle lock, and checks the
\* run again before it commits the start.
BeginStart ==
    /\ phase = "up" /\ run.mem = "prepared" /\ run.want
    /\ run' = [run EXCEPT !.mem = "starting"]
    /\ UNCHANGED <<emu, held, disk, owner, status, ctrl, op, phase, crashes, faults>>

CommitStart ==
    /\ Up /\ run.mem = "starting"
    /\ \/ /\ Well /\ status["a1"] = "ready" /\ disk' = [disk EXCEPT !["a1"] = RunBegun(@)]
          /\ run' = [run EXCEPT !.mem = "started"]
       \/ Fault /\ run' = [run EXCEPT !.mem = "prepared"] /\ UNCHANGED disk
    /\ UNCHANGED <<emu, held, owner, status, ctrl, op, phase, crashes>>

\* StopRun, and the duration timer; Quarantine of a target without open runs.
BeginContain(t) ==
    /\ Up /\ owner["a1"] = "active"
    /\ \/ t = "halt" /\ run.mem \in {"prepared", "starting", "started", "lost"}
       \/ t = "quarantine" /\ ctrl["a1"] = "ready" /\ ~run.want /\ ~disk["a1"].quar
    /\ Task(t, "a1", "contain", "none")
    /\ UNCHANGED <<emu, held, disk, owner, status, ctrl, run, phase, crashes, faults>>

\* verifyBackendContainment; a run remembers that it was contained.
Containable(e) == Known(e) /\ ProvablyStopped(Killed(Recalled(e)))

\* Faulty variant: a run that was only prepared is taken to have nothing to stop.
ContainStarted ==
    LET e == EmuOf("a1")
        known == op.task = "halt" /\ (run.contained \/ run.mem = "prepared")
    IN  /\ At("contain")
        /\ \/ Well /\ known /\ Go("seal") /\ UNCHANGED <<emu, run>>
           \/ /\ Well /\ ~known /\ Containable(e)
              /\ SetEmu("a1", Killed(Recalled(e))) /\ Go("seal")
              /\ run' = [run EXCEPT !.contained = (op.task = "halt")]
           \/ /\ ~known /\ ((Well /\ ~Containable(e)) \/ Fault)
              /\ op' = Idle /\ UNCHANGED <<emu, run>>
        /\ UNCHANGED <<held, disk, owner, status, ctrl, phase, crashes>>

Contain ==
    LET e == EmuOf("a1")
        known == op.task = "halt" /\ run.contained
    IN  /\ At("contain")
        /\ \/ Well /\ known /\ Go("seal") /\ UNCHANGED <<emu, run>>
           \/ /\ Well /\ ~known /\ Containable(e)
              /\ SetEmu("a1", Killed(Recalled(e))) /\ Go("seal")
              /\ run' = [run EXCEPT !.contained = (op.task = "halt")]
           \/ /\ ~known /\ ((Well /\ ~Containable(e)) \/ Fault)
              /\ op' = Idle /\ UNCHANGED <<emu, run>>
        /\ UNCHANGED <<held, disk, owner, status, ctrl, phase, crashes>>

\* The stop manifest and the quarantine manifest freeze the generation.
Seal ==
    LET halt == op.task = "halt" IN
    /\ At("seal") /\ op' = Idle
    /\ \/ /\ Well
          /\ disk' = [disk EXCEPT !["a1"] = IF halt THEN RunStopped(@) ELSE GenerationQuarantined(@)]
          /\ status' = [status EXCEPT !["a1"] = IF halt THEN "resettable" ELSE "quarantined"]
          /\ run' = [run EXCEPT !.mem = CASE halt -> "stopped"
                                          [] @ = "none" -> @
                                          [] OTHER -> "quarantined"]
       \/ Fault /\ UNCHANGED <<disk, status, run>>
    /\ UNCHANGED <<emu, held, owner, ctrl, phase, crashes>>

\* The controller settles a stopped run.
FinishRun ==
    /\ phase = "up" /\ run.want /\ run.mem = "stopped"
    /\ run' = [run EXCEPT !.want = FALSE]
    /\ UNCHANGED <<emu, held, disk, owner, status, ctrl, op, phase, crashes, faults>>

-----------------------------------------------------------------------------
(* Crash and startup                                                       *)

Crash ==
    /\ phase \in {"up", "starting"} /\ crashes < MaxCrashes
    /\ crashes' = crashes + 1 /\ phase' = "down" /\ op' = Idle
    /\ emu' = [p \in Ports |-> Forgotten(emu[p])]
    /\ owner' = [g \in Gens |-> "none"] /\ status' = [g \in Gens |-> "none"]
    /\ run' = [NoRun EXCEPT !.want = run.want]
    /\ UNCHANGED <<held, disk, ctrl, faults>>

StartDaemon ==
    /\ phase \in {"down", "refused", "aborted"}
    /\ phase' = "starting" /\ Return("provision")
    /\ emu' = [p \in Ports |-> Forgotten(emu[p])]
    /\ owner' = [g \in Gens |-> "none"] /\ status' = [g \in Gens |-> "none"]
    /\ run' = [NoRun EXCEPT !.want = run.want]
    /\ UNCHANGED <<held, disk, ctrl, crashes, faults>>

\* startupTargetInventoryRequest: a pending successor is active once it is
\* bound, and its predecessor is offered for inspection only.
ActiveAt(g) == ctrl[g] \in {"ready", "destroying"} \/ (g = "a2" /\ ctrl[g] = "bound")
CleanupAt(g) == ctrl[g] = "terminal"
PendingReset == ctrl["a2"] \in {"unbound", "bound"}

\* resumePersistedProvisioning: first generations that never became ready.
ResumeProvisioning ==
    LET todo == {g \in First : ctrl[g] \in {"unbound", "bound"}} IN
    /\ At("provision")
    /\ IF todo = {} THEN Return("creates") /\ UNCHANGED ctrl
       ELSE \E g \in todo : /\ Task("provision", g, "reserve", "fresh")
                            /\ ctrl' = [ctrl EXCEPT ![g] = "bound"]
    /\ UNCHANGED <<emu, held, disk, owner, status, run, phase, crashes, faults>>

\* resumeExpectedCreateIntents: an allocation alone, or a create intent.
ResumeCreates ==
    LET todo == {g \in Gens :
                    /\ ActiveAt(g) /\ ~Manifested(g) /\ disk[g].from = 0 /\ held[g] # 0
                    /\ disk[g].intent \/ ~(Present(EmuOf(g)) \/ disk[g].target \/ disk[g].runtime)}
    IN  /\ At("creates")
        /\ IF todo = {} THEN Return("resets")
           ELSE \E g \in todo : Task("resumeCreate", g, "intent", "made")
        /\ UNCHANGED <<emu, held, disk, owner, status, ctrl, run, phase, crashes, faults>>

\* resumeExpectedResetTransitions.
PreviousAuthority == Manifested("a1") /\ disk["a1"].port = disk["a2"].from
ResetAcceptable ==
    LET d == disk["a2"]
        previous == Present(emu[d.from])
    IN  IF d.outcome = "none"
        THEN /\ previous => PreviousAuthority
             /\ Reserved("a2") = d.port
        ELSE /\ held["a2"] = d.port
             /\ Manifested("a2") /\ Present(emu[d.port])
             /\ ~(d.outcome = "ok" /\ previous)

ResumeResets ==
    LET d == disk["a2"]
        found == ActiveAt("a2") /\ d.from # 0
    IN  /\ At("resets") /\ Well
        /\ \/ (found => d.outcome # "none" /\ ResetAcceptable) /\ Return("classify") /\ UNCHANGED <<held, phase>>
           \/ /\ found /\ d.outcome = "none" /\ ResetAcceptable
              /\ held' = [held EXCEPT !["a2"] = d.port]
              /\ Task("resumeReset", "a2", "ensure", "made") /\ UNCHANGED phase
           \/ found /\ ~ResetAcceptable /\ Failed /\ UNCHANGED held
        /\ UNCHANGED <<emu, disk, owner, status, ctrl, run, crashes>>

\* AdoptExpected: the reservation on record, or one nobody else holds.
AdoptablePort(g) == \A h \in Gens \ {g} : held[h] # disk[g].port

\* reconcileExpectedAndroidTarget.
Classified(g) ==
    LET d == disk[g]
        e == EmuOf(g)
        frozen == d.stop \/ d.quar
    IN  CASE ~d.target /\ Dir(g)                         -> "foreign"
          [] ~d.target /\ held[g] = 0                    -> "missing"
          [] ~d.target                                   -> IF Present(e) THEN "foreign" ELSE "residue"
          [] ~d.runtime                                  -> "foreign"
          [] ~Present(e)                                 -> "residue"
          [] ~AdoptablePort(g)                           -> "uncertain"
          [] frozen                                      -> IF StoppedProvable(e) THEN "adopted"
                                                                                  ELSE "uncertain"
          [] Observable(e)                               -> "adopted"
          [] StoppedProvable(e)                          -> IF ActiveAt(g) THEN "stopped"
                                                                           ELSE "adopted"
          [] OTHER                                       -> "uncertain"

\* classifyUnclaimedAndroidTargets: a runtime nobody claims or describes.
Unclaimed(p) ==
    /\ Present(emu[p])
    /\ ~\E g \in Gens : disk[g].port = p /\ Manifested(g)

\* requireSafePendingTargetResets and assessReconciliationWithAllowedMissing.
Missing == {"missing", "residue"}
SafePair ==
    IF ctrl["a2"] = "unbound" THEN Classified("a1") = "adopted"
    ELSE \/ Classified("a1") = "adopted" /\ Classified("a2") \in Missing
         \/ Classified("a1") \in Missing /\ Classified("a2") = "adopted"

\* Faulty variant: a generation being destroyed must still be there.
AssessedStrictly ==
    /\ PendingReset => SafePair
    /\ \A g \in Gens :
          /\ ctrl[g] \in {"ready", "destroying"} =>
                \/ Classified(g) = "adopted"
                \/ Classified(g) = "stopped" /\ g = "a1" /\ run.want
          /\ (CleanupAt(g) /\ ~(g = "a1" /\ PendingReset)) =>
                Classified(g) \in {"adopted"} \cup Missing
    /\ \A p \in Ports : ~Unclaimed(p)

Assessed ==
    /\ PendingReset => SafePair
    /\ \A g \in Gens :
          /\ ctrl[g] = "ready" => \/ Classified(g) = "adopted"
                                  \/ Classified(g) = "stopped" /\ g = "a1" /\ run.want
          /\ ctrl[g] = "destroying" => Classified(g) \in {"adopted"} \cup Missing
          /\ (CleanupAt(g) /\ ~(g = "a1" /\ PendingReset)) =>
                Classified(g) \in {"adopted"} \cup Missing
    /\ \A p \in Ports : ~Unclaimed(p)

\* What commitReconciledAndroidTargets makes of the classes: the records, the
\* statuses the quarantine and stop manifests call for, and the reservations,
\* from which recoverResetOutcomes takes the one of a retired predecessor.
RebuiltOwner(g, class) ==
    CASE ~(ActiveAt(g) \/ CleanupAt(g)) \/ class = "missing" -> "none"
      [] class = "residue" -> "absent"
      [] ActiveAt(g)       -> "active"
      [] OTHER             -> "cleanup"
RebuiltStatus(g, class) ==
    CASE ~ActiveAt(g) \/ class \in Missing      -> "none"
      [] disk[g].quar                           -> "quarantined"
      [] disk[g].stop \/ class = "stopped"      -> "resettable"
      [] OTHER                                  -> "ready"
RebuiltPort(g) ==
    LET from == IF ActiveAt("a2") THEN disk["a2"].from ELSE 0 IN
    CASE from # 0 /\ ~Present(emu[from]) /\ held[g] = from      -> 0
      [] (ActiveAt(g) \/ CleanupAt(g)) /\ Manifested(g)         -> disk[g].port
      [] OTHER                                                 -> held[g]

Reconcile ==
    LET class == [g \in Gens |-> Classified(g)]
        requested == {g \in Gens : ActiveAt(g) \/ CleanupAt(g)}
    IN  /\ At("classify")
        /\ \/ Well /\ ~Assessed /\ Failed /\ UNCHANGED <<emu, held, owner, status>>
           \/ Fault /\ Failed /\ UNCHANGED <<emu, held, owner, status>>
           \/ /\ Well /\ Assessed /\ Return("settle") /\ UNCHANGED phase
              /\ owner' = [g \in Gens |-> RebuiltOwner(g, class[g])]
              /\ status' = [g \in Gens |-> RebuiltStatus(g, class[g])]
              /\ held' = [g \in Gens |-> RebuiltPort(g)]
              /\ emu' = [p \in Ports |->
                    IF \E g \in requested : disk[g].port = p /\ class[g] \in {"adopted", "stopped"}
                    THEN Recalled(emu[p]) ELSE emu[p]]
        /\ UNCHANGED <<disk, ctrl, run, crashes>>

\* resumePersistedTargetDestructions and the cleanup of terminal generations,
\* the predecessor of a completed reset included.
Settle ==
    LET ending == {g \in Gens : ctrl[g] = "destroying"}
        kept == IF PendingReset /\ owner["a1"] = "cleanup" THEN {"a1"} ELSE {}
        orphans == {g \in Gens \ kept : CleanupAt(g) /\ owner[g] \in {"cleanup", "absent"}}
    IN  /\ At("settle")
        /\ CASE ending # {}  -> \E g \in ending : Task("resumeDestroy", g, "resolve", "none")
             [] orphans # {} -> \E g \in orphans : Task("orphan", g, "resolve", "none")
             [] OTHER        -> Return("run")
        /\ UNCHANGED <<emu, held, disk, owner, status, ctrl, run, phase, crashes, faults>>

\* RecoverInterruptedRun: a run that was only partly prepared is prepared, one
\* that may have executed is contained and never resumed.
RecoverRun ==
    LET d == disk["a1"]
        e == EmuOf("a1")
        ready == phase' = "up" /\ op' = Idle
    IN  /\ At("run")
        /\ \/ Well /\ ~run.want /\ ready /\ UNCHANGED <<emu, disk, status, run>>
           \/ Well /\ run.want /\ ~d.plan /\ ~d.used /\ Failed /\ UNCHANGED <<emu, disk, status, run>>
           \/ /\ Well /\ run.want /\ d.plan # d.used /\ Observable(e) /\ ready
              /\ disk' = [disk EXCEPT !["a1"] = GenerationUsed(RunPlanned(@))]
              /\ run' = [run EXCEPT !.mem = "prepared"] /\ UNCHANGED <<emu, status>>
           \/ /\ run.want /\ d.plan # d.used /\ ((Well /\ ~Observable(e)) \/ Fault)
              /\ disk' = [disk EXCEPT !["a1"] = RunWithdrawn(@)] /\ Failed /\ UNCHANGED <<emu, status, run>>
           \/ /\ Well /\ run.want /\ d.plan /\ d.used /\ d.stop /\ ready
              /\ run' = [run EXCEPT !.mem = "stopped", !.contained = TRUE]
              /\ status' = [status EXCEPT !["a1"] = "resettable"] /\ UNCHANGED <<emu, disk>>
           \/ /\ Well /\ run.want /\ d.plan /\ d.used /\ ~d.stop /\ Containable(e) /\ ready
              /\ SetEmu("a1", Killed(Recalled(e)))
              /\ run' = [run EXCEPT !.mem = "lost", !.contained = TRUE]
              /\ status' = [status EXCEPT !["a1"] = "resettable"] /\ UNCHANGED disk
           \/ /\ run.want /\ d.plan /\ d.used /\ ~d.stop
              /\ ((Well /\ ~Containable(e)) \/ Fault) /\ Failed
              /\ UNCHANGED <<emu, disk, status, run>>
        /\ UNCHANGED <<held, owner, ctrl, crashes>>

-----------------------------------------------------------------------------
(* The host, and the whole                                                 *)

HostBoots(p) ==
    /\ emu[p].proc = "launcher" /\ emu' = [emu EXCEPT ![p] = Booted(@)]
    /\ UNCHANGED <<held, disk, owner, status, ctrl, run, op, phase, crashes, faults>>

HostExits(p) ==
    /\ emu[p].proc # "none" /\ Fault /\ emu' = [emu EXCEPT ![p] = Exited(@)]
    /\ UNCHANGED <<held, disk, owner, status, ctrl, run, op, phase, crashes>>

BootNext ==
    \/ Bind \/ Reserve \/ CommitIntent \/ CreateAVD \/ CreateData \/ Launch \/ StartProcess
    \/ AwaitHandoff \/ AwaitReady \/ PersistTarget \/ PersistRuntime \/ AdvanceReady \/ Ensure
TearNext == TearStop \/ TearDelete \/ TearPurge \/ CommitOutcome \/ Resolve \/ Release \/ DestroyEnds
StartupNext ==
    \/ ResumeProvisioning \/ ResumeCreates \/ ResumeResets \/ Reconcile \/ Settle \/ RecoverRun
RunNext ==
    \/ BeginRun \/ PrepareRun \/ BeginStart \/ CommitStart \/ Contain \/ Seal \/ FinishRun
    \/ \E t \in {"halt", "quarantine"} : BeginContain(t)
Requests ==
    \/ \E g \in First : CreateTarget(g)
    \/ \E g \in Gens : DestroyTarget(g)
    \/ ResetTarget \/ RetryReset
Host == \E p \in Ports : HostBoots(p) \/ HostExits(p)

Next == Requests \/ BootNext \/ TearNext \/ RunNext \/ Crash \/ StartDaemon \/ StartupNext \/ Host

Spec == Init /\ [][Next]_androidVars

-----------------------------------------------------------------------------
(* Properties                                                              *)

\* No two generations hold the same ports, and a running emulator always has a
\* generation that holds its ports: Release never frees a live endpoint.
EndpointOwnedOnce ==
    /\ \A g, h \in Gens : g # h /\ held[g] # 0 => held[g] # held[h]
    /\ \A p \in Ports : emu[p].proc # "none" => \E g \in Gens : held[g] = p

\* A generation with a stop or a quarantine manifest never executes again.
FrozenStaysStopped ==
    \A g \in Gens : disk[g].stop \/ disk[g].quar => EmuOf(g).proc = "none"

\* A generation Core calls ready is the driver's, and its AVD, ports and
\* manifests belong together.
ReadyIsWhole ==
    \A g \in Gens : (phase = "up" /\ ctrl[g] = "ready") =>
        /\ owner[g] = "active" /\ Manifested(g) /\ Complete(EmuOf(g))
        /\ held[g] = disk[g].port

\* The ways in which what is on the host keeps every startup from
\* succeeding, and nothing else does.
\*   A launch that named no surviving process cannot be resolved.
LostLaunch(g) == Dir(g) /\ EmuOf(g).launch \in {"intent", "pid"} /\ ~Known(EmuOf(g))
\*   A failed tool left part of an AVD, or one that no manifest describes.
StrayAVD(p) == emu[p].avd = "partial" \/ Unclaimed(p)
\*   A failed boot left a state directory of a generation that has ended.
StrayDirectory(g) == CleanupAt(g) /\ Dir(g) /\ ~Manifested(g)
\*   The emulator of a live generation died and no run is there to recover.
DiedUnattended(g) ==
    /\ ctrl[g] \in {"bound", "ready", "destroying"}
    /\ EmuOf(g).launch # "none" /\ EmuOf(g).proc = "none"
    /\ ~disk[g].stop /\ ~disk[g].quar
\*   A reset left both emulators, or its first port has a new owner since.
Entangled ==
    /\ ctrl["a2"] \in {"unbound", "bound", "ready", "destroying"}
    /\ \/ disk["a2"].outcome = "ok" /\ Present(emu[disk["a2"].from])
       \/ PendingReset /\ ~SafePair
\*   A run was bound and never reached its plan.
UnplannedRun == run.want /\ ~disk["a1"].plan /\ ~disk["a1"].used

\*   A resumed generation finds every port held or occupied.
OutOfPorts == FreePorts = {} /\ \E g \in Gens : ctrl[g] = "bound" /\ held[g] = 0

\* A startup that meets no failing call is refused only for one of these.
RefusalIsExplained ==
    phase = "refused" =>
        \/ \E g \in Gens : LostLaunch(g) \/ StrayDirectory(g) \/ DiedUnattended(g)
        \/ \E p \in Ports : StrayAVD(p)
        \/ Entangled \/ UnplannedRun \/ OutOfPorts
===============================================================================
