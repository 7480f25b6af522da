------------------------------ MODULE AgentSaga ------------------------------
(***************************************************************************)
(* The physical life of one agent workspace: how the controller provisions *)
(* the container and the writable tree of each agent generation, retires   *)
(* them, replaces a failed generation, runs an exec, commits an export and *)
(* converges after a restart.  Core's commits are durable and atomic; the  *)
(* container engine and the workspace directory outlive the daemon; what   *)
(* the Docker driver knows about its containers does not.                  *)
(*                                                                         *)
(* The controller's mutex serialises acquisition, its rollback, release,   *)
(* the reaper, incident recovery and startup: op is the one such operation *)
(* in flight.  An exec and a CommitExport call run beside it.              *)
(***************************************************************************)
EXTENDS Naturals, WorkspaceDirectory

CONSTANTS MaxGen,       \* bound on agent generations
          MaxCrashes,   \* bound on daemon crashes
          MaxFaults     \* bound on failing driver calls

VARIABLES
    lease,      \* "none", "active", "terminating" (release or expiry begun), "ended"
    cur,        \* the current agent generation; 0 before acquisition
    agent,      \* generation -> Core's generation state
    bound,      \* generations whose provisioning plan is durably bound
    incident,   \* the agent incident: "none", "recovering", "resolved"
    exec,       \* Core's record of the exec; "closed" means cleanup confirmed
    export,     \* [state, gen, revision] of the export record
    box,        \* generation -> the container: "absent", "stopped", "running"
    proc,       \* generation whose container runs the exec's processes; 0 none
    work,       \* generation -> its workspace
    taken,      \* the content a committed export published; 0 before
    mode,       \* "down", "starting", "up", "refused"
    driver,     \* generation -> the Docker driver's in-memory record
    op,         \* [task, step, gen, errs] of the operation that holds the mutex
    call,       \* step of a client's CommitExport
    stream,     \* whether an exec handler is alive
    crashes, faults

coreVars == <<lease, cur, agent, bound, incident>>
hostVars == <<box, proc, work>>
callVars == <<exec, export, taken, call, stream>>
agentSagaVars == <<coreVars, hostVars, callVars, mode, driver, op, crashes, faults>>

Gens == 1..MaxGen
Idle == [task |-> "idle", step |-> "none", gen |-> 0, errs |-> FALSE]
Task(t, s, g) == [task |-> t, step |-> s, gen |-> g, errs |-> FALSE]
Go(s) == op' = [op EXCEPT !.step = s]
At(s) == op.step = s
ExecLive == {"starting", "running"}
Terminal(g) == agent[g] \in {"sealed", "failed"}
LeaseCleanup == lease = "terminating"

Fault == faults < MaxFaults /\ faults' = faults + 1
Well == UNCHANGED faults

Init ==
    /\ lease = "none" /\ cur = 0 /\ bound = {} /\ incident = "none"
    /\ agent = [g \in Gens |-> "absent"]
    /\ exec = "none" /\ proc = 0 /\ stream = FALSE
    /\ export = [state |-> "none", gen |-> 0, revision |-> 0]
    /\ taken = 0 /\ call = "idle"
    /\ box = [g \in Gens |-> "absent"] /\ work = [g \in Gens |-> NoWorkspace]
    /\ mode = "up" /\ driver = [g \in Gens |-> "none"] /\ op = Idle
    /\ crashes = 0 /\ faults = 0

-----------------------------------------------------------------------------
(* How an operation ends                                                   *)

\* An error return.  A first acquisition rolls itself back; a retry, a
\* recovery and a rollback leave what they did for the next attempt; lease
\* termination goes on to the other generations; startup refuses.
Failed ==
    CASE op.task = "acquire"   -> op' = Task("rollback", "fail", op.gen) /\ UNCHANGED mode
      [] op.task = "terminate" /\ op.gen > 0 ->
            op' = [op EXCEPT !.step = "next", !.errs = TRUE] /\ UNCHANGED mode
      [] OTHER -> op' = Idle /\ mode' = IF mode = "starting" THEN "refused" ELSE mode

Done == op' = Idle /\ mode' = "up"

\* An agent recovery that startup and the client have to carry on.
Recovering == incident = "recovering" /\ ~Terminal(cur) /\ ~LeaseCleanup

\* Where provisioning and retirement return to.
Provisioned ==
    IF op.task \in {"acquire", "reacquire"} THEN Done
    ELSE /\ Go(IF Recovering THEN "resolve" ELSE "inventory") /\ UNCHANGED mode

Retirement ==
    /\ UNCHANGED mode
    /\ op' = CASE op.task = "rollback"  -> [op EXCEPT !.step = "complete"]
               [] op.task = "terminate" -> [op EXCEPT !.step = "next"]
               [] op.task = "recover" \/ Recovering -> [op EXCEPT !.step = "prepare", !.gen = cur]
               [] OTHER                 -> [op EXCEPT !.step = "orphans"]

-----------------------------------------------------------------------------
(* controller.go: acquisition and provisioning                             *)

\* A first call opens the lease; a retry of it carries on with the generation
\* the lease already has and never rolls it back, unless it has failed.  A
\* retry over a ready generation that the driver knows changes nothing.
AcquireResearchSession ==
    /\ mode = "up" /\ op = Idle
    /\ (lease # "none" => agent[cur] # "ready" \/ driver[cur] # "ready")
    /\ \/ /\ lease = "none" /\ lease' = "active" /\ cur' = 1
          /\ agent' = [agent EXCEPT ![1] = "provisioning"]
          /\ op' = Task("acquire", "bind", 1)
       \/ /\ lease = "active" /\ ~Terminal(cur)
          /\ \/ agent[cur] # "provisioning" \/ cur \in bound
          /\ op' = Task("reacquire", "bind", cur) /\ UNCHANGED <<lease, cur, agent>>
       \/ /\ lease = "active" /\ ~Terminal(cur)
          /\ agent[cur] = "provisioning" /\ cur \notin bound
          /\ op' = Task("acquire", "bind", cur) /\ UNCHANGED <<lease, cur, agent>>
       \/ /\ lease \in {"active", "terminating"} /\ agent[cur] = "failed"
          /\ op' = Task("rollback", "fail", cur) /\ UNCHANGED <<lease, cur, agent>>
    /\ UNCHANGED <<bound, incident, hostVars, callVars, mode, driver, crashes, faults>>

\* Resolution and admission may fail before anything is bound.
BindPlan ==
    /\ At("bind")
    /\ \/ /\ Well /\ bound' = bound \cup {op.gen} /\ UNCHANGED mode
          /\ op' = IF op.task = "recover" THEN [op EXCEPT !.step = "stop", !.gen = cur - 1]
                   ELSE [op EXCEPT !.step = "prepare"]
       \/ Fault /\ Failed /\ UNCHANGED bound
    /\ UNCHANGED <<lease, cur, agent, incident, hostVars, callVars, driver, crashes>>

PrepareWorkspace ==
    LET w == work[op.gen]
    IN  /\ At("prepare")
        /\ \/ /\ Well /\ w.state = "absent" /\ Go("mount") /\ UNCHANGED mode
              /\ work' = [work EXCEPT ![op.gen] = Prepared]
           \/ /\ Well /\ w.state # "absent" /\ UNCHANGED work
              /\ IF Inspected(w) \in {"ready", "mounted"} THEN Go("mount") /\ UNCHANGED mode
                 ELSE Failed
           \/ /\ Fault /\ Failed
              /\ \/ UNCHANGED work
                 \/ w.state = "absent" /\ work' = [work EXCEPT ![op.gen] = Prepared]
        /\ UNCHANGED <<coreVars, box, proc, callVars, driver, crashes>>

MountWorkspace ==
    /\ At("mount")
    /\ \/ /\ Well /\ Mountable(work[op.gen]) /\ Go("create") /\ UNCHANGED mode
          /\ work' = [work EXCEPT ![op.gen] = Mounted(@)]
       \/ /\ \/ Well /\ ~Mountable(work[op.gen])
             \/ Fault
          /\ Failed /\ UNCHANGED work
    /\ UNCHANGED <<coreVars, box, proc, callVars, driver, crashes>>

-----------------------------------------------------------------------------
(* agent/docker: one container per generation                              *)

\* Provision drops its own proof of readiness before it looks again; a record
\* that was stopped is final.  A create that reports failure may have worked.
CreateContainer ==
    LET g == op.gen
    IN  /\ At("create")
        /\ \/ /\ Well /\ driver[g] = "sealed" /\ Failed /\ UNCHANGED <<box, driver>>
           \/ /\ Well /\ driver[g] # "sealed" /\ Go("start") /\ UNCHANGED mode
              /\ box' = [box EXCEPT ![g] = IF @ = "absent" THEN "stopped" ELSE @]
              /\ driver' = [driver EXCEPT ![g] = IF @ = "ready" THEN "notready" ELSE @]
           \/ /\ Fault /\ driver[g] # "sealed" /\ Failed
              /\ driver' = [driver EXCEPT ![g] = IF @ = "ready" THEN "notready" ELSE @]
              /\ \/ UNCHANGED box
                 \/ box[g] = "absent" /\ box' = [box EXCEPT ![g] = "stopped"]
        /\ UNCHANGED <<coreVars, proc, work, callVars, crashes>>

\* establishFreshAgentReadiness starts the container and waits for the guest's
\* framed answer.  If that fails, failProvisionContainer removes the container
\* it was handed, created by this call or not; that removal may fail too.
StartContainer ==
    LET g == op.gen
    IN  /\ At("start")
        /\ \/ /\ Well /\ box[g] # "absent" /\ UNCHANGED <<proc, mode>>
              /\ box' = [box EXCEPT ![g] = "running"]
              /\ driver' = [driver EXCEPT ![g] = "ready"]
              /\ Go(IF exec \in ExecLive /\ op.task = "startup" THEN "lost" ELSE "advance")
           \/ /\ Fault /\ Failed /\ UNCHANGED driver
              /\ \/ /\ box' = [box EXCEPT ![g] = "absent"]
                    /\ proc' = IF proc = g THEN 0 ELSE proc
                 \/ UNCHANGED <<box, proc>>
                 \/ box' = [box EXCEPT ![g] = "running"] /\ UNCHANGED proc
        /\ UNCHANGED <<coreVars, work, callVars, crashes>>

\* advanceAgentReady: provisioning -> booting -> ready, one commit each.
AdvanceAgent ==
    LET g == op.gen
    IN  /\ At("advance")
        /\ \/ /\ Well /\ agent[g] = "provisioning" /\ agent' = [agent EXCEPT ![g] = "booting"]
              /\ UNCHANGED <<op, mode>>
           \/ /\ Well /\ agent[g] = "booting" /\ agent' = [agent EXCEPT ![g] = "ready"]
              /\ Provisioned
           \/ Well /\ agent[g] = "ready" /\ Provisioned /\ UNCHANGED agent
           \/ /\ \/ Fault
                 \/ Well /\ agent[g] \in {"quiescing", "sealed"}
              /\ Failed /\ UNCHANGED agent
        /\ UNCHANGED <<lease, cur, bound, incident, hostVars, callVars, driver, crashes>>

-----------------------------------------------------------------------------
(* destroyAgentAndWorkspace                                                *)

WithoutBox(g) == /\ box' = [box EXCEPT ![g] = "absent"]
                 /\ proc' = IF proc = g THEN 0 ELSE proc

\* Stop knows only containers on the driver's record; its failure is kept for
\* the result and does not keep Destroy from being tried.
StopContainer ==
    LET g == op.gen
        Halted == /\ box' = [box EXCEPT ![g] = "stopped"]
                  /\ proc' = IF proc = g THEN 0 ELSE proc
        Marked == driver' = [driver EXCEPT ![g] = IF @ = "cleanup" THEN @ ELSE "sealed"]
    IN  /\ At("stop") /\ UNCHANGED mode
        /\ \/ Well /\ driver[g] = "none" /\ Go("destroy") /\ UNCHANGED <<box, proc, driver>>
           \/ Well /\ driver[g] # "none" /\ box[g] # "absent" /\ Go("destroy") /\ Halted /\ Marked
           \/ /\ \/ Well /\ driver[g] # "none" /\ box[g] = "absent"
                 \/ Fault /\ driver[g] # "none"
              /\ op' = [op EXCEPT !.step = "destroy", !.errs = TRUE]
              /\ UNCHANGED driver
              /\ (box[g] # "absent" /\ Halted) \/ UNCHANGED <<box, proc>>
        /\ UNCHANGED <<coreVars, work, callVars, crashes>>

\* Faulty variant: Destroy does not accept that the container is gone.
DestroyContainerOnce ==
    LET g == op.gen
    IN  /\ At("destroy")
        /\ \/ /\ Well /\ driver[g] # "none" /\ WithoutBox(g) /\ Go("seal") /\ UNCHANGED mode
              /\ driver' = [driver EXCEPT ![g] = "none"]
           \/ Well /\ driver[g] = "none" /\ Failed /\ UNCHANGED <<box, proc, driver>>
           \/ Fault /\ Failed /\ UNCHANGED driver /\ (WithoutBox(g) \/ UNCHANGED <<box, proc>>)
        /\ UNCHANGED <<coreVars, work, callVars, crashes>>

\* Destroy removes a container only with the plan it has on record, and
\* succeeds without one only when the inventory shows none.
DestroyContainer ==
    LET g == op.gen
    IN  /\ At("destroy")
        /\ \/ /\ Well /\ (box[g] = "absent" \/ driver[g] # "none")
              /\ WithoutBox(g) /\ driver' = [driver EXCEPT ![g] = "none"]
              /\ Go("seal") /\ UNCHANGED mode
           \/ /\ Well /\ box[g] # "absent" /\ driver[g] = "none"
              /\ Failed /\ UNCHANGED <<box, proc, driver>>
           \/ /\ Fault /\ Failed /\ UNCHANGED driver
              /\ WithoutBox(g) \/ UNCHANGED <<box, proc>>
        /\ UNCHANGED <<coreVars, work, callVars, crashes>>

SealWorkspace ==
    LET g == op.gen
    IN  /\ At("seal")
        /\ \/ /\ Well /\ Retirable(work[g]) /\ Go("release") /\ UNCHANGED mode
              /\ work' = [work EXCEPT ![g] = SealedForRelease(@)]
           \/ /\ \/ Fault
                 \/ Well /\ ~Retirable(work[g])
              /\ Failed /\ UNCHANGED work
        /\ UNCHANGED <<coreVars, box, proc, callVars, driver, crashes>>

\* One removal of Release at a time; a deadline can end it in between.  When
\* the directory is gone, the errors kept on the way decide the result.
ReleaseWorkspace ==
    LET g == op.gen
    IN  /\ At("release")
        /\ \/ /\ Well /\ work[g].state # "absent" /\ UNCHANGED <<op, mode>>
              /\ work' = [work EXCEPT ![g] = ReleaseStep(@)]
           \/ /\ Well /\ work[g].state = "absent" /\ UNCHANGED work
              /\ IF op.errs /\ op.task # "terminate" THEN Failed ELSE Retirement
           \/ Fault /\ work[g].state # "absent" /\ Failed /\ UNCHANGED work
        /\ UNCHANGED <<coreVars, box, proc, callVars, driver, crashes>>

-----------------------------------------------------------------------------
(* controller.go: rollbackAcquisition                                      *)

FailGeneration ==
    /\ At("fail") /\ Go("begin")
    /\ \/ /\ Well /\ agent' = [agent EXCEPT ![op.gen] = IF Terminal(op.gen) THEN @ ELSE "failed"]
       \/ Fault /\ UNCHANGED agent
    /\ UNCHANGED <<lease, cur, bound, incident, hostVars, callVars, mode, driver, crashes>>

BeginRollbackRelease ==
    /\ At("begin")
    /\ \/ Well /\ lease' = "terminating" /\ Go("stop")
       \/ Fault /\ op' = [op EXCEPT !.step = "stop", !.errs = TRUE] /\ UNCHANGED lease
    /\ UNCHANGED <<cur, agent, bound, incident, hostVars, callVars, mode, driver, crashes>>

\* CompleteLeaseTermination: Core retires the current generation and refuses
\* while an exec is live.
CompleteTermination ==
    /\ At("complete")
    /\ \/ /\ Well /\ exec \notin ExecLive /\ Done
          /\ lease' = "ended"
          /\ agent' = [agent EXCEPT ![cur] =
                CASE @ \in {"ready", "quiescing"} -> "sealed"
                  [] @ \in {"provisioning", "booting"} -> "failed"
                  [] OTHER -> @]
       \/ /\ \/ Fault
             \/ Well /\ exec \in ExecLive
          /\ op' = Idle /\ mode' = IF mode = "starting" THEN "refused" ELSE mode
          /\ UNCHANGED <<lease, agent>>
    /\ UNCHANGED <<cur, bound, incident, hostVars, callVars, driver, crashes>>

-----------------------------------------------------------------------------
(* termination.go: release, expiry and the reaper                          *)

\* A release or a due expiry closes the lease and drains it at once; the
\* reaper takes up a drain that failed.
TerminateLease ==
    /\ mode = "up" /\ op = Idle /\ lease \in {"active", "terminating"}
    /\ lease' = "terminating" /\ op' = Task("terminate", "exports", 0)
    /\ UNCHANGED <<cur, agent, bound, incident, hostVars, callVars, mode, driver, crashes, faults>>

\* resumeLeaseExports comes first, then every generation is retired.
DrainExports ==
    /\ At("exports")
    /\ op' = IF export.state = "committing" THEN [op EXCEPT !.step = "quiesce"]
             ELSE [op EXCEPT !.step = "stop", !.gen = 1]
    /\ UNCHANGED <<coreVars, hostVars, callVars, mode, driver, crashes, faults>>

\* Faulty variant: what a generation's retirement reported is forgotten.
NextGenerationForgiving ==
    /\ At("next") /\ UNCHANGED mode
    /\ op' = IF op.gen < cur THEN [op EXCEPT !.step = "stop", !.gen = @ + 1]
             ELSE [op EXCEPT !.step = "execs", !.gen = 0]
    /\ UNCHANGED <<coreVars, hostVars, callVars, driver, crashes, faults>>

\* releasePhysical tries every generation before it reports what failed.
NextGeneration ==
    /\ At("next")
    /\ \/ op.gen < cur /\ op' = [op EXCEPT !.step = "stop", !.gen = @ + 1] /\ UNCHANGED mode
       \/ op.gen = cur /\ ~op.errs /\ op' = [op EXCEPT !.step = "execs", !.gen = 0] /\ UNCHANGED mode
       \/ /\ op.gen = cur /\ op.errs /\ op' = Idle
          /\ mode' = IF mode = "starting" THEN "refused" ELSE mode
    /\ UNCHANGED <<coreVars, hostVars, callVars, driver, crashes, faults>>

\* finalizeTerminationOperations: only now is a live exec closed, as cleaned up.
CloseExecs ==
    /\ At("execs")
    /\ \/ /\ Well /\ Go("complete") /\ UNCHANGED mode
          /\ exec' = IF exec \in ExecLive THEN "closed" ELSE exec
       \/ Fault /\ Failed /\ UNCHANGED exec
    /\ UNCHANGED <<coreVars, hostVars, export, taken, call, stream, driver, crashes>>

-----------------------------------------------------------------------------
(* recovery.go: replacing a failed agent                                   *)

\* Faulty variant: the failed generation is retired before its replacement is
\* admitted and bound.
RecoverIncidentRetiringFirst ==
    /\ mode = "up" /\ op = Idle /\ lease = "active"
    /\ incident = "none" /\ cur \in 1..(MaxGen - 1) /\ exec \notin ExecLive
    /\ incident' = "recovering" /\ cur' = cur + 1
    /\ agent' = [agent EXCEPT ![cur + 1] = "provisioning", ![cur] = "failed"]
    /\ op' = Task("recover", "stop", cur)
    /\ UNCHANGED <<lease, bound, hostVars, callVars, mode, driver, crashes, faults>>

\* Core rolls the generation over once; a retry carries on from the binding.
RecoverIncident ==
    /\ mode = "up" /\ op = Idle /\ lease = "active"
    /\ \/ /\ incident = "none" /\ cur \in 1..(MaxGen - 1) /\ exec \notin ExecLive
          /\ incident' = "recovering" /\ cur' = cur + 1
          /\ agent' = [agent EXCEPT ![cur + 1] = "provisioning",
                                    ![cur] = IF @ \in {"ready", "quiescing"} THEN "sealed"
                                             ELSE IF Terminal(cur) THEN @ ELSE "failed"]
       \/ incident = "recovering" /\ UNCHANGED <<incident, cur, agent>>
    /\ op' = Task("recover", "bind", cur')
    /\ UNCHANGED <<lease, bound, hostVars, callVars, mode, driver, crashes, faults>>

ResolveIncident ==
    /\ At("resolve")
    /\ \/ /\ Well /\ incident' = "resolved"
          /\ IF op.task = "recover" THEN Done ELSE Go("assess") /\ UNCHANGED mode
       \/ Fault /\ Failed /\ UNCHANGED incident
    /\ UNCHANGED <<lease, cur, agent, bound, hostVars, callVars, driver, crashes>>

-----------------------------------------------------------------------------
(* exec.go: one exec beside the controller's operations                    *)

CreateExec ==
    /\ mode = "up" /\ lease = "active" /\ exec = "none" /\ agent[cur] = "ready"
    /\ exec' = "starting" /\ stream' = TRUE
    /\ UNCHANGED <<coreVars, hostVars, export, taken, call, mode, driver, op, crashes, faults>>

\* The driver opens an exec only in a container it proved ready.  An error
\* ends the exec without a claim about its processes.
LaunchExec ==
    /\ stream /\ exec = "starting" /\ proc = 0
    /\ \/ /\ Well /\ driver[cur] = "ready" /\ box[cur] = "running"
          /\ proc' = cur /\ UNCHANGED <<exec, stream>>
       \/ /\ \/ Well /\ ~(driver[cur] = "ready" /\ box[cur] = "running")
             \/ Fault
          /\ exec' = "failed" /\ stream' = FALSE
          /\ proc' \in {0, IF box[cur] = "running" THEN cur ELSE 0}
    /\ UNCHANGED <<coreVars, box, work, export, taken, call, mode, driver, op, crashes>>

RunExec ==
    /\ stream /\ exec = "starting" /\ proc # 0
    /\ \/ /\ lease = "active" /\ agent[cur] = "ready"
          /\ exec' = "running" /\ UNCHANGED stream
       \/ /\ ~(lease = "active" /\ agent[cur] = "ready")
          /\ exec' = "failed" /\ stream' = FALSE
    /\ UNCHANGED <<coreVars, hostVars, export, taken, call, mode, driver, op, crashes, faults>>

\* The guest ends the process tree before its terminal frame; a stream that
\* breaks leaves the processes to the guest.
EndExec ==
    /\ stream /\ exec = "running" /\ stream' = FALSE
    /\ \/ Well /\ proc # 0 /\ proc' = 0 /\ exec' = "closed"
       \/ Fault /\ exec' = "failed" /\ UNCHANGED proc
       \/ Well /\ proc = 0 /\ exec' = "failed" /\ UNCHANGED proc
    /\ UNCHANGED <<coreVars, box, work, export, taken, call, mode, driver, op, crashes>>

\* The handler of an exec that termination closed finds it terminal.
LoseStream ==
    /\ stream /\ exec \notin ExecLive /\ stream' = FALSE
    /\ UNCHANGED <<coreVars, hostVars, exec, export, taken, call, mode, driver, op, crashes, faults>>

GuestWrites ==
    /\ proc # 0 /\ box[proc] = "running" /\ work[proc].state = "mounted"
    /\ work[proc].content < MaxWrites
    /\ \E w \in Written(work[proc]) : work' = [work EXCEPT ![proc] = w]
    /\ UNCHANGED <<coreVars, box, proc, callVars, mode, driver, op, crashes, faults>>

-----------------------------------------------------------------------------
(* capture_export.go: an export is declared, reserved and then carried out  *)
(* by the client's call, by its retry or by the reaper.                     *)

DeclareExport ==
    /\ mode = "up" /\ lease = "active" /\ export.state = "none" /\ ~Terminal(cur)
    /\ export' = [state |-> "declared", gen |-> cur, revision |-> 0]
    /\ UNCHANGED <<coreVars, hostVars, exec, taken, call, stream, mode, driver, op, crashes, faults>>

PreviewChangeSet ==
    /\ mode = "up" /\ lease = "active" /\ Previewable(work[cur])
    /\ Previewed(work[cur]) # work[cur]
    /\ work' = [work EXCEPT ![cur] = Previewed(@)]
    /\ UNCHANGED <<coreVars, box, proc, callVars, mode, driver, op, crashes, faults>>

\* The reservation is durable before anything is checked against the
\* workspace: any positive revision is accepted.
CommitExport ==
    /\ mode = "up" /\ lease = "active" /\ call = "idle" /\ export.gen = cur
    /\ \/ /\ export.state = "declared"
          /\ \E r \in 1..(MaxWrites + 1) :
                export' = [export EXCEPT !.state = "committing", !.revision = r]
       \/ export.state = "committing" /\ UNCHANGED export
    /\ call' = "quiesce"
    /\ UNCHANGED <<coreVars, hostVars, exec, taken, stream, mode, driver, op, crashes, faults>>

\* The steps of resumeExportCommit are the same for the client (c) and for
\* the reaper; an error ends the call or the whole drain.
ExportAt(c, s) == IF c THEN call = s ELSE op.task = "terminate" /\ op.step = s
ExportGo(c, s) == IF c THEN call' = s /\ UNCHANGED <<op, mode>>
                  ELSE Go(s) /\ UNCHANGED <<call, mode>>
ExportFailed(c) == IF c THEN call' = "idle" /\ UNCHANGED <<op, mode>> ELSE Failed /\ UNCHANGED call

\* The persisted scope must still be the current generation; Core quiesces
\* it only while no exec is live.
QuiesceForExport(c) ==
    /\ ExportAt(c, "quiesce")
    /\ \/ /\ export.gen = cur /\ agent[cur] = "ready" /\ exec \notin ExecLive
          /\ agent' = [agent EXCEPT ![cur] = "quiescing"] /\ ExportGo(c, "halt")
       \/ /\ export.gen = cur /\ agent[cur] = "quiescing"
          /\ ExportGo(c, "halt") /\ UNCHANGED agent
       \/ /\ export.gen = cur /\ agent[cur] = "sealed"
          /\ ExportGo(c, "freeze") /\ UNCHANGED agent
       \/ /\ \/ export.gen # cur
             \/ agent[cur] = "ready" /\ exec \in ExecLive
             \/ agent[cur] \in {"provisioning", "booting", "failed"}
          /\ ExportFailed(c) /\ UNCHANGED agent
    /\ UNCHANGED <<lease, cur, bound, incident, hostVars, exec, export, taken, stream, driver,
                   crashes, faults>>

\* Stop, then Inspect, which knows no cleanup-only container.  The driver's
\* lifecycle mutex keeps Stop out of a Provision in progress.
HaltForExport(c) ==
    LET g == export.gen
        Known == driver[g] # "none" /\ box[g] # "absent"
    IN  /\ ExportAt(c, "halt") /\ ~At("start")
        /\ \/ /\ Well /\ Known
              /\ box' = [box EXCEPT ![g] = "stopped"] /\ proc' = IF proc = g THEN 0 ELSE proc
              /\ driver' = [driver EXCEPT ![g] = IF @ = "cleanup" THEN @ ELSE "sealed"]
              /\ IF driver[g] = "cleanup" THEN ExportFailed(c) ELSE ExportGo(c, "freeze")
           \/ /\ \/ Fault
                 \/ Well /\ ~Known
              /\ ExportFailed(c) /\ UNCHANGED <<box, proc, driver>>
        /\ UNCHANGED <<coreVars, work, exec, export, taken, stream, crashes>>

FreezeForExport(c) ==
    LET g == export.gen
    IN  /\ ExportAt(c, "freeze")
        /\ \/ /\ Well /\ Sealable(work[g], export.revision)
              /\ work' = [work EXCEPT ![g] = SealedAs(@)] /\ ExportGo(c, "sealed")
           \/ /\ \/ Fault
                 \/ Well /\ ~Sealable(work[g], export.revision)
              /\ ExportFailed(c) /\ UNCHANGED work
        /\ UNCHANGED <<coreVars, box, proc, exec, export, taken, stream, driver, crashes>>

SealAgentForExport(c) ==
    /\ ExportAt(c, "sealed") /\ ExportGo(c, "publish")
    /\ agent' = [agent EXCEPT ![export.gen] = IF @ = "quiescing" THEN "sealed" ELSE @]
    /\ UNCHANGED <<lease, cur, bound, incident, hostVars, exec, export, taken, stream, driver,
                   crashes, faults>>

\* The bytes are published only if the workspace is still sealed.
PublishExport(c) ==
    LET w == work[export.gen]
    IN  /\ ExportAt(c, "publish")
        /\ \/ /\ Well /\ Inspected(w) = "sealed"
              /\ taken' = w.content /\ export' = [export EXCEPT !.state = "committed"]
              /\ IF c THEN call' = "idle" /\ UNCHANGED <<op, mode>>
                 ELSE Go("exports") /\ UNCHANGED <<call, mode>>
           \/ /\ \/ Fault
                 \/ Well /\ Inspected(w) # "sealed"
              /\ ExportFailed(c) /\ UNCHANGED <<taken, export>>
        /\ UNCHANGED <<coreVars, hostVars, exec, stream, driver, crashes>>

-----------------------------------------------------------------------------
(* Crash and startup: reconciliation.go, provisioning_reconciliation.go,    *)
(* exec_reconciliation.go                                                   *)

Crash ==
    /\ mode \in {"up", "starting"} /\ crashes < MaxCrashes /\ crashes' = crashes + 1
    /\ mode' = "down" /\ op' = Idle /\ call' = "idle" /\ stream' = FALSE
    /\ driver' = [g \in Gens |-> "none"]
    /\ UNCHANGED <<coreVars, hostVars, exec, export, taken, faults>>

\* A started daemon loads the workspace records, closes a lease that came due
\* while it was down and resolves the persisted plans: a recovery that is
\* resolved must have a ready successor.
Resolvable == ~(cur > 1 /\ incident = "resolved" /\ agent[cur] = "quiescing" /\ ~LeaseCleanup')
StartDaemon ==
    /\ mode = "down"
    /\ IF \A g \in Gens : Loadable(work[g])
       THEN /\ \/ UNCHANGED lease
               \/ lease = "active" /\ lease' = "terminating"
            /\ IF Resolvable THEN mode' = "starting" /\ op' = Task("startup", "crashed", cur)
               ELSE mode' = "refused" /\ UNCHANGED op
       ELSE mode' = "refused" /\ UNCHANGED <<lease, op>>
    /\ UNCHANGED <<cur, agent, bound, incident, hostVars, callVars, driver, crashes, faults>>

\* recoverPersistedExecs comes first: the container of a live exec is stopped
\* before anything else is done to it, then started afresh.  The generations
\* resumePersistedProvisioning replays are the bound or first ones that are
\* provisioning, booting or ready, unless a recovery led to them.  In the
\* faulty variant a record that says ready is believed.
Active == cur > 0 /\ ~Terminal(cur) /\ lease = "active"
ReplayedUnready == Active /\ incident = "none" /\ agent[cur] \in {"provisioning", "booting"}
Replayed == Active /\ incident = "none" /\ agent[cur] # "quiescing"

\* Faulty variant: the exec is recovered like any generation, by provisioning
\* the container that may still run its processes.
RecoverExecsWithoutStop ==
    /\ At("crashed")
    /\ Go(IF Active /\ exec \in ExecLive THEN "create" ELSE IF Replayed THEN "bind" ELSE "inventory")
    /\ UNCHANGED <<coreVars, hostVars, callVars, mode, driver, crashes, faults>>

RecoverExecs ==
    /\ At("crashed")
    /\ \/ /\ Active /\ exec \in ExecLive
          /\ \/ /\ Well /\ Go("create") /\ UNCHANGED mode
                /\ box' = [box EXCEPT ![cur] = IF @ = "absent" THEN @ ELSE "stopped"]
                /\ proc' = 0
             \/ Fault /\ Failed /\ UNCHANGED <<box, proc>>
       \/ /\ ~(Active /\ exec \in ExecLive) /\ Well /\ UNCHANGED <<box, proc, mode>>
          /\ Go(IF Replayed THEN "bind" ELSE "inventory")
    /\ UNCHANGED <<coreVars, work, callVars, driver, crashes>>

FinalizeLostExec ==
    /\ At("lost")
    /\ \/ Well /\ exec' = "closed" /\ Go(IF Replayed THEN "advance" ELSE "inventory") /\ UNCHANGED mode
       \/ Fault /\ Failed /\ UNCHANGED exec
    /\ UNCHANGED <<coreVars, hostVars, export, taken, call, stream, driver, crashes>>

\* The driver's maps are rebuilt from the inventory: only a running container
\* that this process proved ready is adopted for work, every other one with a
\* persisted plan may only be stopped and destroyed.
AgentTerminal(g) == g \in bound /\ (Terminal(g) \/ LeaseCleanup) /\ ~(Recovering /\ g = cur - 1)
Inventoried ==
    [g \in Gens |-> IF box[g] = "absent" THEN "none"
                    ELSE IF Active /\ g = cur /\ driver[g] = "ready" /\ box[g] = "running"
                         THEN "ready" ELSE "cleanup"]

\* verifyResolvedRecoveryPairs: a finished replacement is adopted and what it
\* replaced is gone.
ResolvedPair == incident = "resolved" => Inventoried[cur] = "ready" /\ box[cur - 1] = "absent"

\* retainedPendingAgentPredecessors: nothing is done for a replacement whose
\* plan was never bound, but its predecessor must still be there.
Retained == box[cur - 1] # "absent"

\* A bound replacement is resumed unless both generations have containers.
Ordered == box[cur - 1] = "absent" \/ box[cur] = "absent"

ReconcileInventory ==
    /\ At("inventory")
    /\ \/ /\ Well /\ driver' = Inventoried
          /\ \/ /\ Active => ResolvedPair
                /\ Recovering /\ cur \in bound /\ Ordered
                /\ op' = [op EXCEPT !.step = "stop", !.gen = cur - 1] /\ UNCHANGED mode
             \/ /\ Active => ResolvedPair
                /\ Recovering => cur \notin bound /\ Retained
                /\ Go("assess") /\ UNCHANGED mode
             \/ /\ \/ Active /\ ~ResolvedPair
                   \/ Recovering /\ IF cur \in bound THEN ~Ordered ELSE ~Retained
                /\ Failed
       \/ Fault /\ Failed /\ UNCHANGED driver
    /\ UNCHANGED <<coreVars, hostVars, callVars, crashes>>

\* assessAgentReconciliation: every active plan must be adopted, and what is
\* left of a terminal generation must be readable.
Adopted == Active /\ cur \in bound => Inventoried[cur] = "ready"
Readable == \A g \in Gens : AgentTerminal(g) /\ box[g] = "absent" => Inspected(work[g]) # "error"
AssessInventory ==
    /\ At("assess")
    /\ \/ /\ Well /\ driver' = Inventoried
          /\ IF Adopted /\ Readable THEN Go("orphans") /\ UNCHANGED mode ELSE Failed
       \/ Fault /\ Failed /\ UNCHANGED driver
    /\ UNCHANGED <<coreVars, hostVars, callVars, crashes>>

\* Terminal generations are destroyed one by one, and lease termination is
\* carried on before the listener opens; if that fails the daemon exits.
Orphans == {g \in Gens : AgentTerminal(g) /\ (box[g] # "absent" \/ Inspected(work[g]) # "not_found")}
RemoveOrphans ==
    /\ At("orphans")
    /\ \/ /\ Orphans # {} /\ UNCHANGED mode
          /\ op' = [op EXCEPT !.step = "stop",
                              !.gen = CHOOSE g \in Orphans : \A h \in Orphans : g <= h]
       \/ Orphans = {} /\ ~LeaseCleanup /\ Done
       \/ Orphans = {} /\ LeaseCleanup /\ op' = Task("terminate", "exports", 0) /\ UNCHANGED mode
    /\ UNCHANGED <<coreVars, hostVars, callVars, driver, crashes, faults>>

\* Nothing is left to do.
Settled == lease = "ended" /\ op = Idle /\ UNCHANGED agentSagaVars
Refused == mode = "refused" /\ UNCHANGED agentSagaVars

SagaStep ==
    \/ BindPlan \/ PrepareWorkspace \/ MountWorkspace \/ CreateContainer \/ StartContainer
    \/ AdvanceAgent \/ StopContainer \/ DestroyContainer \/ SealWorkspace \/ ReleaseWorkspace
    \/ FailGeneration \/ BeginRollbackRelease \/ CompleteTermination \/ DrainExports
    \/ NextGeneration \/ CloseExecs \/ ResolveIncident \/ RecoverExecs \/ FinalizeLostExec
    \/ ReconcileInventory \/ AssessInventory \/ RemoveOrphans

ExportStep(c) == \/ QuiesceForExport(c) \/ HaltForExport(c) \/ FreezeForExport(c)
                 \/ SealAgentForExport(c) \/ PublishExport(c)

ClientStep ==
    \/ AcquireResearchSession \/ RecoverIncident \/ CreateExec \/ LaunchExec \/ RunExec
    \/ EndExec \/ LoseStream \/ DeclareExport \/ PreviewChangeSet \/ CommitExport

Next == \/ ClientStep \/ TerminateLease \/ SagaStep \/ GuestWrites \/ Crash \/ StartDaemon
        \/ \E c \in BOOLEAN : ExportStep(c)
        \/ Settled \/ Refused

\* The controller finishes what it began, the daemon is started again, the
\* reaper's ticker fires, and an exec meets its deadline.
ExecStep == LaunchExec \/ RunExec \/ EndExec
GoOnTerminating == lease = "terminating" /\ TerminateLease

Fairness ==
    /\ WF_agentSagaVars(SagaStep) /\ WF_agentSagaVars(\E c \in BOOLEAN : ExportStep(c))
    /\ WF_agentSagaVars(StartDaemon) /\ WF_agentSagaVars(ExecStep)
    /\ SF_agentSagaVars(GoOnTerminating)

Spec == Init /\ [][Next]_agentSagaVars /\ Fairness

-----------------------------------------------------------------------------
(* Properties                                                              *)

\* Every variable keeps its type.
TypeOK ==
    /\ lease \in {"none", "active", "terminating", "ended"} /\ cur \in 0..MaxGen
    /\ agent \in [Gens -> {"absent", "provisioning", "booting", "ready", "quiescing",
                           "sealed", "failed"}]
    /\ bound \subseteq Gens /\ incident \in {"none", "recovering", "resolved"}
    /\ exec \in {"none", "starting", "running", "closed", "failed"} /\ proc \in 0..MaxGen
    /\ export.state \in {"none", "declared", "committing", "committed"}
    /\ export.gen \in 0..MaxGen /\ export.revision \in 0..(MaxWrites + 1)
    /\ box \in [Gens -> {"absent", "stopped", "running"}] /\ work \in [Gens -> Workspaces]
    /\ taken \in 0..MaxWrites /\ stream \in BOOLEAN
    /\ mode \in {"down", "starting", "up", "refused"}
    /\ driver \in [Gens -> {"none", "ready", "notready", "sealed", "cleanup"}]
    /\ op.gen \in 0..MaxGen /\ crashes \in 0..MaxCrashes /\ faults \in 0..MaxFaults

\* A lease is reported ended only when no container, process or directory of
\* any of its generations is left, and a generation and its replacement never
\* have containers at once, whatever calls failed and wherever the daemon
\* stopped (rollbackAcquisition, releasePhysical, destroyAgentAndWorkspace).
\* The one way out: a client that retries its acquisition while a recovery is
\* pending provisions, or rolls back, the successor alone.
NothingOutlivesTheLease ==
    LET Spared(g) == incident = "recovering" /\ g < cur IN
    /\ lease = "ended" =>
          \A g \in Gens : Spared(g) \/ (box[g] = "absent" /\ work[g] = NoWorkspace /\ proc # g)
    /\ \A g, h \in Gens : g < h /\ box[g] # "absent" /\ box[h] # "absent" => Spared(g)

\* An exec that Core records as cleaned up has no process left: not after a
\* daemon loss, whose containers outlive it, and not when lease termination
\* closes it without having heard from the guest (recoverPersistedExecs,
\* finalizeTerminationOperations).
ConfirmedExecIsDead == exec = "closed" => proc = 0

\* A sealed tree holds what its last preview saw, and an export is committed
\* only with the content of the revision the client named, sealed, while the
\* generation has no running container; only a recovery call retried after an
\* export sealed its successor can have started one (sealExportWorkspace, Seal).
ExportsPreview ==
    /\ \A g \in Gens : Sealed(work'[g]) /\ work'[g].tree = "whole" => work'[g].content = work'[g].view
    /\ export.state # "committed" /\ export'.state = "committed"
          => LET w == work[export.gen]
             IN  /\ w.state = "sealed" /\ taken' = w.view /\ w.revision = export.revision
                 /\ box[export.gen] # "running" \/ incident = "recovering"
ExportIsThePreview == [][ExportsPreview]_agentSagaVars

\* While its replacement's plan is not durably bound, the failed generation
\* keeps its container, the last physical evidence there is
\* (RecoverIncident, resumePersistedAgentRecoveries).
KeepsEvidence ==
    (incident = "recovering" /\ cur \notin bound /\ lease = "active") =>
        (box[cur - 1] # "absent" => box'[cur - 1] # "absent")
EvidenceOutlivesBinding == [][KeepsEvidence]_agentSagaVars

\* What can keep a workspace from ever being sealed and released.
Wedged(g) == \/ ~work[g].clean
             \/ work[g].tree = "partial"
             \/ work[g].state = "bare"

\* A startup without a failing driver call refuses only over a workspace that
\* cannot be read, a generation an export was quiescing, a recovery that was
\* already resolved, or an export that cannot be completed.
RefusalIsExplained ==
    mode = "refused" =>
        \/ faults > 0 \/ \E g \in Gens : Wedged(g)
        \/ agent[cur] = "quiescing" \/ incident = "resolved" \/ export.state = "committing"

\* A lease whose termination has begun ends, unless the daemon refuses to
\* start, an export reserved before cannot be carried out, a workspace cannot
\* be sealed, or the live driver does not know the container it must remove.
TerminationOver ==
    \/ lease = "ended" \/ mode = "refused" \/ export.state = "committing"
    \/ \E g \in Gens : Wedged(g) \/ (box[g] # "absent" /\ driver[g] = "none")
TerminationEnds == (lease = "terminating") ~> TerminationOver
===============================================================================
