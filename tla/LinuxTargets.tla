----------------------------- MODULE LinuxTargets -----------------------------
(***************************************************************************)
(* Linux target generations: what the controller asks of the driver of     *)
(* internal/drivers/target/linuxcontainer, the Docker container and the    *)
(* managed directory of each generation, and the startup that rebuilds the *)
(* driver from the two.  Unlike the Android driver this one keeps no       *)
(* record of a created generation; only resets, quarantines and the one    *)
(* run of a generation leave records in its directory.                     *)
(*                                                                         *)
(* Target a has generation a1 and, after a reset, a2.  The driver          *)
(* serialises its operations (lifecycleMu): there is one at a time, cut    *)
(* into the steps between which the daemon can crash.                      *)
(***************************************************************************)
EXTENDS Naturals

CONSTANTS
    MaxCrashes,     \* bound on crashes of the daemon
    MaxFaults       \* bound on failing calls: Docker, files, the guest

Gens == {"a1", "a2"}

VARIABLES
    box,        \* the container of each generation
    files,      \* what is in the directory of each generation
    owner,      \* Driver.targets and cleanupOnly
    status,     \* the status of each owned generation
    ctrl,       \* Core's record of each generation
    run,        \* the run of generation a1
    op,         \* the operation in progress
    phase, crashes, faults

linuxVars == <<box, files, owner, status, ctrl, run, op, phase, crashes, faults>>

\* The directory itself and the records that a generation can have in it.  A
\* receipt is "receipt" for a completed reset and "failed" for one whose
\* predecessor could not be cleaned up.
Records == {"dir", "intent", "receipt", "failed", "qintent", "qreceipt", "claim", "boundary"}

Idle == [task |-> "none", gen |-> "none", step |-> "none", torn |-> FALSE, bad |-> {},
         transient |-> FALSE]
NoRun == [want |-> FALSE, mem |-> "none"]

At(s) == op.step = s
Go(s) == op' = [op EXCEPT !.step = s]
Fault == faults < MaxFaults /\ faults' = faults + 1
Well == UNCHANGED faults
Up == phase = "up" /\ op.task = "none"
Task(t, g, s) == op' = [Idle EXCEPT !.task = t, !.gen = g, !.step = s]
Return(s) == op' = [op EXCEPT !.task = "startup", !.gen = "none", !.step = s]

Removing == {"destroy", "rollback", "resumeDestroy", "orphan"}
Starting == {"provision", "resumeReset", "resumeDestroy", "orphan", "startup"}

TypeOK ==
    /\ box \in [Gens -> {"none", "created", "running", "exited"}]
    /\ files \in [Gens -> SUBSET Records]
    /\ \A g \in Gens : files[g] # {} => "dir" \in files[g]
    /\ owner \in [Gens -> {"none", "active", "cleanup"}]
    /\ status \in [Gens -> {"none", "ready", "resettable", "quarantined"}]
    /\ ctrl \in [Gens -> {"none", "unbound", "bound", "ready", "destroying", "terminal"}]
    /\ run \in [want : BOOLEAN, mem : {"none", "prepared", "lost", "stopped"}]
    /\ phase \in {"up", "down", "starting", "refused", "aborted"}
    /\ crashes \in 0..MaxCrashes /\ faults \in 0..MaxFaults

Init ==
    /\ box = [g \in Gens |-> "none"] /\ files = [g \in Gens |-> {}]
    /\ owner = [g \in Gens |-> "none"] /\ status = [g \in Gens |-> "none"]
    /\ ctrl = [g \in Gens |-> "none"]
    /\ run = NoRun /\ op = Idle
    /\ phase = "up" /\ crashes = 0 /\ faults = 0

-----------------------------------------------------------------------------
(* Docker and the managed directory                                        *)

\* A container after docker start, stop, kill or rm; a call that fails may have
\* had its effect.
Stopped(b) == IF b = "running" THEN "exited" ELSE b
SetBox(g, b) == box' = [box EXCEPT ![g] = b]
Perhaps(g, b) == \E c \in {b, box[g]} : SetBox(g, c)

\* publishCompleteRunRecord links a synced file into place and then syncs the
\* directory: a failure may leave the record, never part of it.
Recorded(g, r) == files' = [files EXCEPT ![g] = @ \cup {r}]
PerhapsRecorded(g, r) == Recorded(g, r) \/ UNCHANGED files

\* removeManagedDirectory unlinks the entries one by one and last the directory.
Remnants(d) == {{"dir"} \cup s : s \in SUBSET (d \ {"dir"})}
Unlink(g) == \E d \in Remnants(files[g]) : files' = [files EXCEPT ![g] = d]
Removed(g) == files' = [files EXCEPT ![g] = {}]

-----------------------------------------------------------------------------
(* Requests to the controller                                              *)

CreateTarget ==
    /\ Up /\ ctrl["a1"] = "none"
    /\ ctrl' = [ctrl EXCEPT !["a1"] = "unbound"] /\ Task("create", "a1", "bind")
    /\ UNCHANGED <<box, files, owner, status, run, phase, crashes, faults>>

\* Core retires the previous generation at once.  The driver wants its run
\* stopped and refuses a quarantined generation.
ResetTarget ==
    /\ Up /\ ctrl["a1"] = "ready" /\ ctrl["a2"] = "none" /\ ~run.want
    /\ status["a1"] # "quarantined"
    /\ ctrl' = [ctrl EXCEPT !["a1"] = "terminal", !["a2"] = "unbound"]
    /\ Task("reset", "a2", "bind")
    /\ UNCHANGED <<box, files, owner, status, run, phase, crashes, faults>>

\* replayDurableReset: the outcome on record, for a successor that startup has
\* adopted.
RetryReset ==
    /\ Up /\ ctrl["a2"] = "bound"
    /\ IF owner["a2"] = "active" /\ "receipt" \in files["a2"]
       THEN Task("reset", "a2", "advance") ELSE Task("rollback", "a1", "resolve")
    /\ UNCHANGED <<box, files, owner, status, ctrl, run, phase, crashes, faults>>

DestroyTarget(g) ==
    /\ Up /\ ctrl[g] \in {"ready", "destroying"} /\ (g = "a1" => ~run.want)
    /\ ctrl' = [ctrl EXCEPT ![g] = "destroying"] /\ Task("destroy", g, "resolve")
    /\ UNCHANGED <<box, files, owner, status, run, phase, crashes, faults>>

\* bindTargetProvisioningPlan and bindTargetResetPlan.
Bind ==
    /\ At("bind") /\ ctrl' = [ctrl EXCEPT ![op.gen] = "bound"] /\ Go("dirs")
    /\ UNCHANGED <<box, files, owner, status, run, phase, crashes, faults>>

-----------------------------------------------------------------------------
(* Failure of the operation in progress                                    *)

\* A failed create or reset is rolled back by the controller.  A reset that
\* startup cannot resume leaves its successor uncertain, and any other failure
\* of a startup ends it, for now or until the host is repaired.
Failed ==
    LET transient == faults' # faults \/ op.transient IN
    /\ op' = CASE op.task = "create" -> [Idle EXCEPT !.task = "rollback", !.gen = "a1",
                                                     !.step = "resolve"]
               [] op.task = "reset"  -> [Idle EXCEPT !.task = "rollback", !.gen = "a1",
                                                     !.step = "resolve"]
               [] op.task = "resumeReset" -> [op EXCEPT !.task = "startup", !.step = "contain",
                                                        !.bad = @ \cup {"a2"},
                                                        !.transient = TRUE]
               [] OTHER              -> Idle
    /\ phase' = CASE op.task \notin Starting \/ op.task = "resumeReset" -> phase
                  [] transient -> "aborted"
                  [] OTHER     -> "refused"

-----------------------------------------------------------------------------
(* Driver.Create, the first half of Driver.Reset and their recovery        *)

PrepareDirectories ==
    /\ At("dirs")
    /\ \/ /\ Well /\ Recorded(op.gen, "dir") /\ UNCHANGED phase
          /\ Go(IF op.task = "reset" THEN "intent" ELSE "make")
       \/ Fault /\ Failed /\ PerhapsRecorded(op.gen, "dir")
    /\ UNCHANGED <<box, owner, status, ctrl, run, crashes>>

\* The reset intent lives in the directory of the successor.
PersistIntent ==
    /\ At("intent")
    /\ \/ Well /\ Recorded(op.gen, "intent") /\ Go("make") /\ UNCHANGED phase
       \/ Fault /\ Failed /\ PerhapsRecorded(op.gen, "intent")
    /\ UNCHANGED <<box, owner, status, ctrl, run, crashes>>

\* resumeOrCreateRuntime and resumePersistedReset carry on with the container
\* they find; the successor of a live reset is new and has none.  A failed docker
\* create returns no identity, and then nothing is cleaned up.
MakeContainer ==
    LET g == op.gen IN
    /\ At("make")
    /\ \/ Well /\ box[g] = "none" /\ SetBox(g, "created") /\ Go("boot") /\ UNCHANGED phase
       \/ /\ Well /\ box[g] # "none" /\ UNCHANGED <<box, phase>>
          /\ Go(IF box[g] = "running" THEN "ready" ELSE "boot")
       \/ Fault /\ Failed /\ (IF box[g] = "none" THEN Perhaps(g, "created") ELSE UNCHANGED box)
    /\ UNCHANGED <<files, owner, status, ctrl, run, crashes>>

\* cleanupFailedRuntime; resumePersistedReset preserves what it has made.
Abandon ==
    IF op.task = "resumeReset" THEN Failed
    ELSE op' = [op EXCEPT !.step = "cleanup", !.transient = TRUE] /\ UNCHANGED phase

StartContainer ==
    LET g == op.gen IN
    /\ At("boot")
    /\ \/ Well /\ SetBox(g, "running") /\ Go("ready") /\ UNCHANGED phase
       \/ Fault /\ Perhaps(g, "running") /\ Abandon
    /\ UNCHANGED <<files, owner, status, ctrl, run, crashes>>

\* requireGuestReadiness: a created generation becomes the driver's, a successor
\* first retires its predecessor.
AwaitReadiness ==
    LET g == op.gen IN
    /\ At("ready")
    /\ \/ /\ Well /\ box[g] = "running" /\ UNCHANGED phase
          /\ IF op.task \in {"reset", "resumeReset"}
             THEN Go("retire") /\ UNCHANGED <<owner, status>>
             ELSE /\ Go("advance") /\ owner' = [owner EXCEPT ![g] = "active"]
                  /\ status' = [status EXCEPT ![g] = "ready"]
       \/ Well /\ box[g] # "running" /\ Abandon /\ UNCHANGED <<owner, status>>
       \/ Fault /\ Abandon /\ UNCHANGED <<owner, status>>
    /\ UNCHANGED <<box, files, ctrl, run, crashes>>

CleanupFailedRuntime ==
    LET g == op.gen IN
    /\ \/ /\ At("cleanup") /\ Well /\ SetBox(g, "none") /\ Go("cleandir") /\ UNCHANGED <<files, phase>>
       \/ At("cleanup") /\ Fault /\ Perhaps(g, "none") /\ Failed /\ UNCHANGED files
       \/ At("cleandir") /\ Well /\ Unlink(g) /\ Go("cleaned") /\ UNCHANGED <<box, phase>>
       \/ At("cleaned") /\ Well /\ Removed(g) /\ Failed /\ UNCHANGED box
       \/ At("cleaned") /\ Fault /\ Failed /\ UNCHANGED <<box, files>>
    /\ UNCHANGED <<owner, status, ctrl, run, crashes>>

\* advanceTargetReady.
AdvanceReady ==
    /\ At("advance") /\ ctrl' = [ctrl EXCEPT ![op.gen] = "ready"]
    /\ IF op.task = "provision" THEN Return("provision") ELSE op' = Idle
    /\ UNCHANGED <<box, files, owner, status, run, phase, crashes, faults>>

-----------------------------------------------------------------------------
(* The second half of a reset                                              *)

\* requireOwnedRuntimeStopped and docker rm for the predecessor.  A predecessor
\* that stops and stays is never started again.
RetirePrevious ==
    /\ \/ /\ At("retire") /\ Well /\ box["a1"] # "none"
          /\ SetBox("a1", Stopped(box["a1"])) /\ Go("remove") /\ UNCHANGED phase
       \/ /\ At("retire") /\ Well /\ box["a1"] = "none" /\ op.task = "resumeReset"
          /\ Go("rmprev") /\ UNCHANGED <<box, phase>>
       \/ At("retire") /\ Fault /\ Perhaps("a1", Stopped(box["a1"])) /\ Abandon
       \/ At("remove") /\ Well /\ SetBox("a1", "none") /\ Go("rmprev") /\ UNCHANGED phase
       \/ At("remove") /\ Fault /\ Perhaps("a1", "none") /\ Abandon
    /\ UNCHANGED <<files, owner, status, ctrl, run, crashes>>

\* The predecessor's directory: a failure is kept for the receipt.
RemovePreviousDirectory ==
    /\ \/ At("rmprev") /\ Well /\ files["a1"] # {} /\ Unlink("a1") /\ Go("rmprev2")
       \/ At("rmprev") /\ Well /\ files["a1"] = {} /\ Go("receipt") /\ UNCHANGED files
       \/ At("rmprev2") /\ Well /\ Removed("a1") /\ Go("receipt")
       \/ /\ At("rmprev2") /\ Fault /\ UNCHANGED files
          /\ op' = [op EXCEPT !.step = "receipt", !.torn = TRUE]
    /\ UNCHANGED <<box, owner, status, ctrl, run, phase, crashes>>

\* Faulty variant: a replacement that is ready is reported as such, receipt or not.
CommitResetUnrecorded ==
    LET r == IF op.torn THEN "failed" ELSE "receipt" IN
    /\ At("receipt")
    /\ \/ /\ Well /\ Recorded("a2", r)
          /\ CASE op.task = "resumeReset" -> Return("contain") /\ UNCHANGED phase
               [] op.torn                 -> Failed
               [] OTHER                   -> Go("advance") /\ UNCHANGED phase
       \/ /\ Fault /\ PerhapsRecorded("a2", r)
          /\ IF op.task = "reset" THEN Go("advance") /\ UNCHANGED phase ELSE Failed
    /\ IF op.task = "reset"
       THEN /\ owner' = [owner EXCEPT !["a1"] = "none", !["a2"] = "active"]
            /\ status' = [status EXCEPT !["a1"] = "none", !["a2"] = "ready"]
            /\ run' = NoRun
       ELSE UNCHANGED <<owner, status, run>>
    /\ UNCHANGED <<box, ctrl, crashes>>

\* persistResetOutcome, then commitReset in memory whatever came of it.  Only a
\* persisted success is reported as one.
CommitReset ==
    LET r == IF op.torn THEN "failed" ELSE "receipt" IN
    /\ At("receipt")
    /\ \/ /\ Well /\ Recorded("a2", r)
          /\ CASE op.task = "resumeReset" -> Return("contain") /\ UNCHANGED phase
               [] op.torn                 -> Failed
               [] OTHER                   -> Go("advance") /\ UNCHANGED phase
       \/ Fault /\ PerhapsRecorded("a2", r) /\ Failed
    /\ IF op.task = "reset"
       THEN /\ owner' = [owner EXCEPT !["a1"] = "none", !["a2"] = "active"]
            /\ status' = [status EXCEPT !["a1"] = "none", !["a2"] = "ready"]
            /\ run' = NoRun
       ELSE UNCHANGED <<owner, status, run>>
    /\ UNCHANGED <<box, ctrl, crashes>>

-----------------------------------------------------------------------------
(* Driver.Destroy, for DestroyTarget, for rollbackTarget and for a startup *)

\* hasUnstoppedRun.
RunBlocks(g) == g = "a1" /\ run.mem \in {"prepared", "lost"}

\* resolveTargetDestroy: without a record the driver may only confirm that no
\* container is there, and leaves the directory alone.
Resolved(g) ==
    CASE RunBlocks(g)                            -> "failed"
      [] owner[g] = "none" /\ box[g] = "none"    -> "gone"
      [] owner[g] = "none"                       -> "failed"
      [] box[g] = "none"                         -> "rmdir"
      [] OTHER                                   -> "rm"

Resolve ==
    /\ At("resolve")
    /\ \/ Well /\ Go(Resolved(op.gen))
       \/ Fault /\ Go("failed")
    /\ UNCHANGED <<box, files, owner, status, ctrl, run, phase, crashes>>

DestroyContainer ==
    /\ At("rm")
    /\ \/ Well /\ SetBox(op.gen, "none") /\ Go("rmdir")
       \/ Fault /\ Perhaps(op.gen, "none") /\ Go("failed")
    /\ UNCHANGED <<files, owner, status, ctrl, run, phase, crashes>>

\* The directory, then the driver's records.
DestroyDirectory ==
    LET g == op.gen IN
    /\ \/ /\ At("rmdir") /\ Well /\ Unlink(g) /\ Go("rmdir2")
          /\ UNCHANGED <<owner, status, run>>
       \/ /\ At("rmdir2") /\ Well /\ Removed(g) /\ Go("gone")
          /\ owner' = [owner EXCEPT ![g] = "none"] /\ status' = [status EXCEPT ![g] = "none"]
          /\ run' = IF g = "a1" THEN [run EXCEPT !.mem = "none"] ELSE run
       \/ At("rmdir2") /\ Fault /\ Go("failed") /\ UNCHANGED <<files, owner, status, run>>
    /\ UNCHANGED <<box, ctrl, phase, crashes>>

\* DestroyTarget records success only.  rollbackTarget tries both generations of
\* a reset and then ends the last, whatever became of them.
DestroyEnds ==
    /\ op.task \in Removing /\ op.step \in {"gone", "failed"}
    /\ CASE op.task = "rollback" /\ op.gen = "a1" /\ ctrl["a2"] # "none" ->
              op' = [op EXCEPT !.gen = "a2", !.step = "resolve"] /\ UNCHANGED <<ctrl, phase>>
         [] op.task = "rollback" \/ (op.task = "destroy" /\ At("gone")) ->
              op' = Idle /\ ctrl' = [ctrl EXCEPT ![op.gen] = "terminal"] /\ UNCHANGED phase
         [] op.task = "destroy" -> op' = Idle /\ UNCHANGED <<ctrl, phase>>
         [] At("gone") ->
              /\ Return("settle") /\ UNCHANGED phase
              /\ ctrl' = [ctrl EXCEPT ![op.gen] = IF @ = "destroying" THEN "terminal" ELSE @]
         [] OTHER -> op' = Idle /\ phase' = "aborted" /\ UNCHANGED ctrl
    /\ UNCHANGED <<box, files, owner, status, run, crashes, faults>>

-----------------------------------------------------------------------------
(* The run of generation a1, and its quarantine                            *)

\* claimTargetGenerationRun: a generation serves one run.
BeginRun ==
    /\ Up /\ ctrl["a1"] = "ready" /\ status["a1"] = "ready" /\ owner["a1"] = "active"
    /\ run = NoRun /\ "claim" \notin files["a1"]
    /\ run' = [run EXCEPT !.want = TRUE] /\ Task("run", "a1", "claim")
    /\ UNCHANGED <<box, files, owner, status, ctrl, phase, crashes, faults>>

\* prepareRun: the claim, the material, the baseline, then the record.  A run
\* that fails here is given up, and its claim stays.
PrepareRun ==
    /\ op.task = "run"
    /\ \/ At("claim") /\ Well /\ Recorded("a1", "claim") /\ Go("material") /\ UNCHANGED run
       \/ At("claim") /\ Fault /\ PerhapsRecorded("a1", "claim") /\ op' = Idle /\ run' = NoRun
       \/ /\ At("material") /\ Well /\ op' = Idle /\ run' = [run EXCEPT !.mem = "prepared"]
          /\ UNCHANGED files
       \/ At("material") /\ Fault /\ op' = Idle /\ run' = NoRun /\ UNCHANGED files
    /\ UNCHANGED <<box, owner, status, ctrl, phase, crashes>>

\* StopRun and the duration timer; Quarantine of a target without an open run.
BeginContain(t) ==
    /\ Up /\ owner["a1"] = "active"
    /\ \/ t = "halt" /\ run.mem \in {"prepared", "lost"} /\ Task(t, "a1", "stop")
       \/ /\ t = "quarantine" /\ ctrl["a1"] = "ready" /\ ~run.want
          /\ status["a1"] # "quarantined" /\ Task(t, "a1", "qintent")
    /\ UNCHANGED <<box, files, owner, status, ctrl, run, phase, crashes, faults>>

QuarantineIntent ==
    /\ At("qintent")
    /\ \/ Well /\ Recorded("a1", "qintent") /\ Go("stop")
       \/ Fault /\ PerhapsRecorded("a1", "qintent") /\ op' = Idle
    /\ UNCHANGED <<box, owner, status, ctrl, run, phase, crashes>>

\* Faulty variant: the container of a run is left to end by itself.
StopContainerOfQuarantine ==
    /\ At("stop")
    /\ \/ /\ Well /\ box["a1"] # "none" /\ Go("seal")
          /\ IF op.task = "halt" THEN UNCHANGED box ELSE SetBox("a1", Stopped(box["a1"]))
          /\ status' = [status EXCEPT !["a1"] = IF op.task = "halt" THEN "resettable" ELSE @]
       \/ Fault /\ Perhaps("a1", Stopped(box["a1"])) /\ op' = Idle /\ UNCHANGED status
    /\ UNCHANGED <<files, owner, ctrl, run, phase, crashes>>

\* requireOwnedRuntimeStopped, or DockerRuntime.Quarantine.  A run whose container
\* has stopped makes its generation resettable before the boundary is on disk.
StopContainer ==
    /\ At("stop")
    /\ \/ /\ Well /\ box["a1"] # "none" /\ SetBox("a1", Stopped(box["a1"])) /\ Go("seal")
          /\ status' = [status EXCEPT !["a1"] = IF op.task = "halt" THEN "resettable" ELSE @]
       \/ Fault /\ Perhaps("a1", Stopped(box["a1"])) /\ op' = Idle /\ UNCHANGED status
    /\ UNCHANGED <<files, owner, ctrl, run, phase, crashes>>

Seal ==
    LET halt == op.task = "halt"
        r == IF halt THEN "boundary" ELSE "qreceipt"
    IN  /\ At("seal") /\ op' = Idle
        /\ \/ /\ Well /\ Recorded("a1", r)
              /\ status' = [status EXCEPT !["a1"] = IF halt THEN @ ELSE "quarantined"]
              /\ run' = [run EXCEPT !.mem = IF halt THEN "stopped" ELSE @]
           \/ Fault /\ PerhapsRecorded("a1", r) /\ UNCHANGED <<status, run>>
        /\ UNCHANGED <<box, owner, ctrl, phase, crashes>>

\* The controller settles a stopped run.
FinishRun ==
    /\ phase = "up" /\ run.want /\ run.mem = "stopped"
    /\ run' = [run EXCEPT !.want = FALSE]
    /\ UNCHANGED <<box, files, owner, status, ctrl, op, phase, crashes, faults>>

-----------------------------------------------------------------------------
(* Crash and startup                                                       *)

Forget ==
    /\ owner' = [g \in Gens |-> "none"] /\ status' = [g \in Gens |-> "none"]
    /\ run' = [run EXCEPT !.mem = "none"]

Crash ==
    /\ phase \in {"up", "starting"} /\ crashes < MaxCrashes
    /\ crashes' = crashes + 1 /\ phase' = "down" /\ op' = Idle /\ Forget
    /\ UNCHANGED <<box, files, ctrl, faults>>

StartDaemon ==
    /\ phase \in {"down", "refused", "aborted"}
    /\ phase' = "starting" /\ Task("startup", "none", "provision") /\ Forget
    /\ UNCHANGED <<box, files, ctrl, crashes, faults>>

\* startupTargetInventoryRequest: the predecessor of a pending reset is offered
\* for cleanup only.
ActiveAt(g) == ctrl[g] \in {"ready", "destroying"} \/ (g = "a2" /\ ctrl[g] = "bound")
CleanupAt(g) == ctrl[g] = "terminal"
PendingReset == ctrl["a2"] \in {"unbound", "bound"}

\* resumePersistedProvisioning.
ResumeProvisioning ==
    /\ At("provision")
    /\ IF ctrl["a1"] \in {"unbound", "bound"}
       THEN Task("provision", "a1", "dirs") /\ ctrl' = [ctrl EXCEPT !["a1"] = "bound"]
       ELSE Return("resets") /\ UNCHANGED ctrl
    /\ UNCHANGED <<box, files, owner, status, run, phase, crashes, faults>>

\* loadResetRecords and loadQuarantineRecords refuse a receipt without its intent.
ResetReceipt(g) == files[g] \cap {"receipt", "failed"} # {}
BadRecords(g) ==
    \/ ResetReceipt(g) /\ "intent" \notin files[g]
    \/ "qreceipt" \in files[g] /\ "qintent" \notin files[g]

\* A reset intent without its receipt is resumed before anything is classified.
ResumeReset ==
    /\ At("resets")
    /\ IF ActiveAt("a2") /\ "intent" \in files["a2"] /\ ~ResetReceipt("a2")
       THEN op' = [op EXCEPT !.task = "resumeReset", !.gen = "a2", !.step = "make"]
       ELSE Go("contain")
    /\ UNCHANGED <<box, files, owner, status, ctrl, run, phase, crashes, faults>>

\* An active generation that was quarantined or claimed by a run is contained
\* without executing in it: the rest of a quarantine is carried out, a claimed
\* container that runs is killed.
ToContain(g) ==
    /\ ActiveAt(g) /\ g \notin op.bad /\ ~BadRecords(g) /\ box[g] # "none"
    /\ \/ box[g] = "running" /\ files[g] \cap {"qintent", "claim"} # {}
       \/ "qintent" \in files[g] /\ "qreceipt" \notin files[g]

Uncertain(g, fault) == op' = [op EXCEPT !.bad = @ \cup {g}, !.transient = @ \/ fault]

RecoverContainment ==
    /\ At("contain")
    /\ \/ \E g \in Gens :
            /\ ToContain(g) /\ Well /\ SetBox(g, "exited") /\ UNCHANGED op
            /\ IF "qintent" \in files[g] THEN Recorded(g, "qreceipt") ELSE UNCHANGED files
       \/ \E g \in Gens : /\ ToContain(g) /\ Fault /\ Uncertain(g, TRUE)
                          /\ Perhaps(g, "exited") /\ UNCHANGED files
       \/ (\A g \in Gens : ~ToContain(g)) /\ Well /\ Go("classify") /\ UNCHANGED <<box, files>>
    /\ UNCHANGED <<owner, status, ctrl, run, phase, crashes>>

\* ReconcileTargets.
Classified(g) ==
    CASE g \in op.bad                                                 -> "uncertain"
      [] box[g] = "none" /\ ActiveAt(g) /\ files[g] \cap {"intent", "receipt", "failed"} # {}
                                                                      -> "uncertain"
      [] box[g] = "none"              -> IF files[g] = {} THEN "missing" ELSE "residue"
      [] ~ActiveAt(g)                                                 -> "matched"
      [] BadRecords(g)                                                -> "uncertain"
      [] files[g] \cap {"qintent", "claim"} # {} -> IF box[g] = "exited" THEN "adopted" ELSE "foreign"
      [] box[g] # "running"                                           -> "stopped"
      [] OTHER                                                        -> "adopted"
Missing == {"missing", "residue"}

\* requireSafePendingTargetResets and assessReconciliationWithAllowedMissing.
SafePair == ctrl["a2"] = "bound" /\ Classified("a1") \in Missing /\ Classified("a2") = "adopted"

\* Faulty variant: a generation being destroyed must still be there.
AssessedStrictly ==
    /\ PendingReset => SafePair
    /\ \A g \in Gens :
          /\ ctrl[g] \in {"ready", "destroying"} =>
                \/ Classified(g) = "adopted"
                \/ Classified(g) = "stopped" /\ g = "a1" /\ run.want
          /\ CleanupAt(g) => Classified(g) \in {"matched"} \cup Missing

Assessed ==
    /\ PendingReset => SafePair
    /\ \A g \in Gens :
          /\ ctrl[g] = "ready" => \/ Classified(g) = "adopted"
                                  \/ Classified(g) = "stopped" /\ g = "a1" /\ run.want
          /\ ctrl[g] = "destroying" => Classified(g) \in {"adopted"} \cup Missing
          /\ CleanupAt(g) => Classified(g) \in {"matched"} \cup Missing

\* rebuildTargetMaps.
RebuiltOwner(g) ==
    CASE ActiveAt(g) /\ Classified(g) = "adopted"      -> "active"
      [] Classified(g) \in {"residue", "matched"}      -> "cleanup"
      [] OTHER                                         -> "none"
RebuiltStatus(g) ==
    CASE RebuiltOwner(g) # "active"   -> "none"
      [] "qintent" \in files[g]       -> "quarantined"
      [] "claim" \in files[g]         -> "resettable"
      [] OTHER                        -> "ready"

Reconcile ==
    /\ At("classify")
    /\ \/ Well /\ ~Assessed /\ Failed /\ UNCHANGED <<owner, status>>
       \/ Fault /\ Failed /\ UNCHANGED <<owner, status>>
       \/ /\ Well /\ Assessed /\ Return("settle") /\ UNCHANGED phase
          /\ owner' = [g \in Gens |-> RebuiltOwner(g)]
          /\ status' = [g \in Gens |-> RebuiltStatus(g)]
    /\ UNCHANGED <<box, files, ctrl, run, crashes>>

\* resumePersistedTargetDestructions and the cleanup of terminal generations.
Settle ==
    LET ending == {g \in Gens : ctrl[g] = "destroying"}
        orphans == {g \in Gens : CleanupAt(g) /\ owner[g] = "cleanup"}
    IN  /\ At("settle")
        /\ CASE ending # {}  -> \E g \in ending : Task("resumeDestroy", g, "resolve")
             [] orphans # {} -> \E g \in orphans : Task("orphan", g, "resolve")
             [] OTHER        -> Return("run")
        /\ UNCHANGED <<box, files, owner, status, ctrl, run, phase, crashes, faults>>

\* RecoverInterruptedRun: only a claimed run of an adopted generation, which is
\* sealed and never resumed.
RecoverRun ==
    LET lost == owner["a1"] = "active" /\ "claim" \in files["a1"]
        ready == phase' = "up" /\ op' = Idle
    IN  /\ At("run")
        /\ \/ Well /\ ~run.want /\ ready /\ UNCHANGED <<files, run>>
           \/ Well /\ run.want /\ ~lost /\ Failed /\ UNCHANGED <<files, run>>
           \/ /\ Well /\ run.want /\ lost /\ ready /\ Recorded("a1", "boundary")
              /\ run' = [run EXCEPT !.mem = "lost"]
           \/ /\ Fault /\ run.want /\ lost /\ Failed /\ PerhapsRecorded("a1", "boundary")
              /\ UNCHANGED run
        /\ UNCHANGED <<box, owner, status, ctrl, crashes>>

-----------------------------------------------------------------------------
(* The host, and the whole                                                 *)

HostExits(g) ==
    /\ box[g] = "running" /\ Fault /\ SetBox(g, "exited")
    /\ UNCHANGED <<files, owner, status, ctrl, run, op, phase, crashes>>

BootNext ==
    \/ Bind \/ PrepareDirectories \/ PersistIntent \/ MakeContainer \/ StartContainer
    \/ AwaitReadiness \/ CleanupFailedRuntime \/ AdvanceReady
ResetNext == RetirePrevious \/ RemovePreviousDirectory \/ CommitReset
DestroyNext == Resolve \/ DestroyContainer \/ DestroyDirectory \/ DestroyEnds
RunNext ==
    \/ BeginRun \/ PrepareRun \/ QuarantineIntent \/ StopContainer \/ Seal \/ FinishRun
    \/ \E t \in {"halt", "quarantine"} : BeginContain(t)
StartupNext ==
    \/ ResumeProvisioning \/ ResumeReset \/ RecoverContainment \/ Reconcile \/ Settle \/ RecoverRun
Requests == CreateTarget \/ ResetTarget \/ RetryReset \/ \E g \in Gens : DestroyTarget(g)

Next ==
    \/ Requests \/ BootNext \/ ResetNext \/ DestroyNext \/ RunNext \/ Crash \/ StartDaemon
    \/ StartupNext \/ \E g \in Gens : HostExits(g)

Spec == Init /\ [][Next]_linuxVars

-----------------------------------------------------------------------------
(* Properties                                                              *)

\* A container never executes again once its run's stop boundary or its
\* quarantine receipt is on disk (StopRun, Quarantine and every recovery).
FrozenStaysStopped ==
    \A g \in Gens : files[g] \cap {"boundary", "qreceipt"} # {} => box[g] # "running"

\* A generation Core calls ready is the driver's and has its container and its
\* directory; a ready successor has the outcome of its reset on record, and its
\* predecessor has no container left.
ReadyIsWhole ==
    \A g \in Gens : (phase = "up" /\ ctrl[g] = "ready") =>
        /\ owner[g] = "active" /\ box[g] # "none" /\ "dir" \in files[g]
        /\ (g = "a2") => ("receipt" \in files[g] /\ box["a1"] = "none")

\* The ways in which what is on the host keeps every startup from succeeding.
\*   A live generation without a run stopped by itself, or is gone.
DiedUnattended(g) ==
    /\ ActiveAt(g) /\ box[g] = "exited" /\ files[g] \cap {"qintent", "claim"} = {}
    /\ "intent" \in files[g] => ResetReceipt(g)
\*   A reset was accepted and never reached its intent: the predecessor is there,
\*   offered for cleanup, and so is never the adopted one the controller asks for.
ResetNotBegun == PendingReset /\ "intent" \notin files["a2"]
\*   A successor's container is gone and the records of its reset are not.
ResetRemnant(g) ==
    ActiveAt(g) /\ box[g] = "none" /\ files[g] \cap {"receipt", "failed"} # {}
\*   A run was bound and never reached its claim.
UnclaimedRun == run.want /\ "claim" \notin files["a1"]

\* A startup that meets no failing call is refused only for one of these.
RefusalIsExplained ==
    phase = "refused" =>
        \/ \E g \in Gens : DiedUnattended(g) \/ ResetRemnant(g)
        \/ ResetNotBegun \/ UnclaimedRun
==============================================================================
