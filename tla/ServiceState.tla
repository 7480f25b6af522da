------------------------------ MODULE ServiceState ------------------------------
(***************************************************************************)
(* The orchestration service's own durable state (service.go,              *)
(* operation_reservation.go): captures, exports, bundle reservations and   *)
(* stages, operation reservations and the idempotency index.  Every change *)
(* is one event: it is appended to the ledger first and applied to memory  *)
(* afterwards, by the same function that replays the log at startup.       *)
(*                                                                         *)
(* Since replay folds that function over the log, the log is represented   *)
(* by what replaying it yields: "durable" is the state a restart would     *)
(* rebuild and "memory" the one the process holds.  A state that an event  *)
(* was refused in has ok FALSE: the restart would fail there.              *)
(*                                                                         *)
(* There is one lease, one target in its first generation and one export   *)
(* directory per run; a request's signature is the resource it names.      *)
(***************************************************************************)
EXTENDS Naturals, FiniteSets

CONSTANTS Callers,       \* requests being served at once
          Keys,          \* the idempotency keys clients use
          Runs,          \* target runs, identified by positive numbers
          Captures,      \* capture identities, 1..n
          Exports,       \* export identities, 1..n
          MaxBundle,     \* bound on the bundle identities generated
          MaxRequests,   \* bound on the requests begun
          MaxCrashes, MaxFaults

VARIABLES durable, memory,
          files,         \* per run: the digests in the three durable namespaces
          marked,        \* runs whose observer marker binds the preparation file
          wedged,        \* the ledger's failed state
          caller,        \* what each caller holds between two locked sections
          bundles,       \* bundle identities generated
          requests, crashes, faults

serviceVars == <<durable, memory, files, marked, wedged, caller, bundles, requests, crashes, faults>>
budget == <<requests, crashes, faults>>

-------------------------------------------------------------------------------
NoRun == [key |-> "", bundle |-> 0, prep |-> 0, pub |-> 0, index |-> 0, done |-> 0]
NoOp == [key |-> "", sig |-> 0]
NoFiles == [prep |-> 0, pub |-> 0, bundle |-> 0]
Target == 1

\* Reservations are kept per namespace and resource.
Operations == ({"stop_capture"} \X Captures) \cup ({"commit_export"} \X Exports)
              \cup ({"destroy_target", "quarantine_target"} \X {Target})

Empty ==
    [ok |-> TRUE,
     runs |-> [r \in Runs |-> NoRun],
     captures |-> [c \in Captures |-> [state |-> "absent", revision |-> 0]],
     exports |-> [x \in Exports |-> "absent"],
     ops |-> [o \in Operations |-> NoOp],
     contained |-> NoOp,
     idempotency |-> {}]

\* A state event: its kind, the idempotency envelope (key "" when it has none)
\* and the record it carries.
Event(kind, ns, key, sig, id, state, n, op) ==
    [kind |-> kind, ns |-> ns, key |-> key, sig |-> sig, id |-> id, state |-> state, n |-> n, op |-> op]

\* existingIdempotencyLocked: the index entries of a namespace and key.
Indexed(m, ns, key) == {i \in m.idempotency : i.ns = ns /\ i.key = key}

\* applyStateEvent, the idempotency envelope: an entry may be repeated, not changed.
EnvelopeFits(m, e) ==
    e.key # "" => \A i \in Indexed(m, e.ns, e.key) : i.sig = e.sig /\ i.id = e.id

\* applyStateEvent, the operation an event reserves.
OperationFits(m, e) == e.op => m.ops[<<e.ns, e.n>>] \in {NoOp, [key |-> e.key, sig |-> e.sig]}

\* applyStateEvent, the record: it continues a reservation and repeats what is
\* there already.
RecordFits(m, e) ==
    CASE e.kind = "bundle.reserved" ->
            m.runs[e.n].bundle = 0 \/ (m.runs[e.n].bundle = e.id /\ m.runs[e.n].key = e.key)
      [] e.kind = "bundle.stop_prepared" -> m.runs[e.n].bundle # 0 /\ m.runs[e.n].prep \in {0, e.id}
      [] e.kind = "bundle.publication_staged" -> m.runs[e.n].bundle # 0 /\ m.runs[e.n].pub \in {0, e.id}
      [] e.kind = "bundle.indexed" -> m.runs[e.n].index \in {0, e.id}
      [] e.kind = "bundle.completed" -> m.runs[e.n].done \in {0, e.id}
      [] e.kind = "target_quarantine.contained" ->
            /\ m.ops[<<"quarantine_target", Target>>] = [key |-> e.state, sig |-> e.id]
            /\ m.contained \in {NoOp, m.ops[<<"quarantine_target", Target>>]}
      [] OTHER -> TRUE

Accepts(m, e) == EnvelopeFits(m, e) /\ OperationFits(m, e) /\ RecordFits(m, e)

Recorded(m, e) ==
    LET i == IF e.key = "" THEN m
             ELSE [m EXCEPT !.idempotency = @ \cup {[ns |-> e.ns, key |-> e.key, sig |-> e.sig, id |-> e.id]}]
        o == IF e.op THEN [i EXCEPT !.ops[<<e.ns, e.n>>] = [key |-> e.key, sig |-> e.sig]] ELSE i
    IN CASE e.kind = "bundle.reserved" -> [o EXCEPT !.runs[e.n].bundle = e.id, !.runs[e.n].key = e.key]
         [] e.kind = "bundle.stop_prepared" -> [o EXCEPT !.runs[e.n].prep = e.id]
         [] e.kind = "bundle.publication_staged" -> [o EXCEPT !.runs[e.n].pub = e.id]
         [] e.kind = "bundle.indexed" -> [o EXCEPT !.runs[e.n].index = e.id]
         [] e.kind = "bundle.completed" -> [o EXCEPT !.runs[e.n].done = e.id]
         [] e.kind = "capture.upserted" -> [o EXCEPT !.captures[e.id] = [state |-> e.state, revision |-> e.n]]
         [] e.kind = "export.upserted" -> [o EXCEPT !.exports[e.id] = e.state]
         [] e.kind = "target_quarantine.contained" -> [o EXCEPT !.contained = [key |-> e.state, sig |-> e.id]]
         [] OTHER -> o

\* applyStateEvent.
ApplyStateEvent(m, e) == IF m.ok /\ Accepts(m, e) THEN Recorded(m, e) ELSE [m EXCEPT !.ok = FALSE]

-------------------------------------------------------------------------------
\* Startup, after the replay.  loadBundleStopPreparations: an anchored
\* preparation has its file; an unanchored file is kept when the observer's
\* marker binds it and removed otherwise.
PreparationsLoad(m) == \A r \in Runs : m.runs[r].prep # 0 => files[r].prep = m.runs[r].prep
KeptPreparation(m, r) == m.runs[r].prep # 0 \/ r \in marked

\* loadBundlePublications: likewise, an unanchored file is always removed.
PublicationsLoad(m) == \A r \in Runs : m.runs[r].pub # 0 => files[r].pub = m.runs[r].pub

\* reconcileBundleFiles: a bundle file belongs to a staged publication.
BundleFilesReconcile(m) == \A r \in Runs : files[r].bundle # 0 => files[r].bundle = m.runs[r].pub

\* verifyBundleIndexes: an index names its staged publication and its
\* reservation's index entry, a completion its index.
BundleIndexesVerify(m) ==
    \A r \in Runs :
        /\ m.runs[r].index # 0 => /\ m.runs[r].pub = m.runs[r].index
                                  /\ files[r].bundle = m.runs[r].index
                                  /\ \E i \in Indexed(m, "finalize", m.runs[r].key) :
                                        i.sig = r /\ i.id = m.runs[r].bundle
        /\ m.runs[r].done # 0 => m.runs[r].index = m.runs[r].done

\* verifyOperationIndexes: every reservation has its index entry and its
\* resource, a generation is not both destroyed and quarantined, and what is
\* completed or committing has been reserved.
OperationIndexesVerify(m) ==
    /\ \A o \in Operations : m.ops[o] # NoOp =>
         /\ \E i \in Indexed(m, o[1], m.ops[o].key) : i.sig = m.ops[o].sig /\ i.id = o[2]
         /\ o[1] = "stop_capture" => m.captures[o[2]].state # "absent"
         /\ o[1] = "commit_export" => m.exports[o[2]] \in {"committing", "committed"}
    /\ m.ops[<<"destroy_target", Target>>] = NoOp \/ m.ops[<<"quarantine_target", Target>>] = NoOp
    /\ m.contained # NoOp => m.contained = m.ops[<<"quarantine_target", Target>>]
    /\ \A c \in Captures : m.captures[c].state = "completed" => m.ops[<<"stop_capture", c>>] # NoOp
    /\ \A x \in Exports : m.exports[x] \in {"committing", "committed"} => m.ops[<<"commit_export", x>>] # NoOp

\* New: the replay and every check of it succeed.
Restartable(m) ==
    /\ m.ok
    /\ PreparationsLoad(m)
    /\ PublicationsLoad(m)
    /\ BundleFilesReconcile(m)
    /\ BundleIndexesVerify(m)
    /\ OperationIndexesVerify(m)

-------------------------------------------------------------------------------
Idle == [op |-> "idle", id |-> 0, key |-> "", n |-> 0, state |-> "", termination |-> FALSE]

Init ==
    /\ durable = Empty /\ memory = Empty
    /\ files = [r \in Runs |-> NoFiles]
    /\ marked = {}
    /\ wedged = FALSE
    /\ caller = [k \in Callers |-> Idle]
    /\ bundles = 0
    /\ requests = 0 /\ crashes = 0 /\ faults = 0

\* Faulty variant: the ledger goes on after a rollback that failed.
PersistFaultForgotten(e) ==
    /\ faults < MaxFaults
    /\ faults' = faults + 1
    /\ durable' \in {durable, ApplyStateEvent(durable, e)}
    /\ UNCHANGED <<memory, wedged, requests, crashes>>

\* A failed append is rolled back, or leaves the ledger refusing every further
\* append with the record perhaps on disk.
PersistFault(e) ==
    /\ faults < MaxFaults
    /\ faults' = faults + 1
    /\ \/ UNCHANGED <<durable, wedged>>
       \/ wedged' = TRUE /\ durable' \in {durable, ApplyStateEvent(durable, e)}
    /\ UNCHANGED <<memory, requests, crashes>>

\* persistStateLocked: append, then apply.  "done" is what the caller holds next.
Persist(k, e, done) ==
    /\ ~wedged
    /\ \/ /\ durable' = ApplyStateEvent(durable, e)
          /\ memory' = ApplyStateEvent(memory, e)
          /\ caller' = [caller EXCEPT ![k] = done]
          /\ UNCHANGED <<wedged, requests, crashes, faults>>
       \/ /\ PersistFault(e)
          /\ caller' = [caller EXCEPT ![k] = Idle]

\* A request that is served in one locked section, or whose first one this is.
Begin(k) == caller[k] = Idle /\ requests < MaxRequests
Request(k, e, done) ==
    /\ ~wedged
    /\ \/ /\ durable' = ApplyStateEvent(durable, e)
          /\ memory' = ApplyStateEvent(memory, e)
          /\ caller' = [caller EXCEPT ![k] = done]
          /\ requests' = requests + 1
          /\ UNCHANGED <<wedged, crashes, faults>>
       \/ PersistFault(e) /\ UNCHANGED caller

Rest == UNCHANGED <<files, marked, bundles>>

\* The later sections of a request are taken by any idle caller: the request
\* itself, its retry or the startup reconciliation.

-------------------------------------------------------------------------------
\* reserveBundle: a fresh bundle identity, unless the run or the key has one.
ReserveBundle(k, r, key) ==
    /\ Begin(k)
    /\ bundles < MaxBundle
    /\ memory.runs[r].bundle = 0
    /\ Indexed(memory, "finalize", key) = {}
    /\ bundles' = bundles + 1
    /\ Request(k, Event("bundle.reserved", "finalize", key, r, bundles + 1, "", r, FALSE), Idle)
    /\ UNCHANGED <<files, marked>>

\* stageBundleStopPreparation: the file, whose content d differs between two
\* attempts,
WritePreparation(k, r, d) ==
    /\ Begin(k)
    /\ memory.runs[r].bundle # 0
    /\ files[r].prep \in {0, d}
    /\ files' = [files EXCEPT ![r].prep = d]
    /\ requests' = requests + 1
    /\ caller' = [caller EXCEPT ![k] = [Idle EXCEPT !.op = "bind", !.id = r, !.n = d]]
    /\ UNCHANGED <<durable, memory, marked, wedged, bundles, crashes, faults>>

\* the observer's marker,
BindPreparation(k) ==
    /\ caller[k].op = "bind"
    /\ marked' = marked \cup {caller[k].id}
    /\ caller' = [caller EXCEPT ![k].op = "anchor"]
    /\ UNCHANGED <<durable, memory, files, wedged, bundles, budget>>

\* and the anchor, unless another attempt has anchored the same record.
AnchorPreparation(k) ==
    LET r == caller[k].id IN
    /\ caller[k].op = "anchor"
    /\ IF memory.runs[r].prep # 0
       THEN /\ caller' = [caller EXCEPT ![k] = Idle]
            /\ UNCHANGED <<durable, memory, wedged, budget>>
       ELSE Persist(k, Event("bundle.stop_prepared", "", "", 0, caller[k].n, "", r, FALSE), Idle)
    /\ Rest

\* The durable file of one stage: it exists with that content or is written.
Ensured(r, kind, d) ==
    /\ files[r][kind] \in {0, d}
    /\ files' = [files EXCEPT ![r][kind] = d]

\* stageBundlePublication, computed from the preparation.
StagePublication(k, r) ==
    /\ caller[k] = Idle
    /\ memory.runs[r].prep # 0 /\ memory.runs[r].pub = 0
    /\ Ensured(r, "pub", memory.runs[r].prep)
    /\ Persist(k, Event("bundle.publication_staged", "", "", 0, memory.runs[r].prep, "", r, FALSE), Idle)
    /\ UNCHANGED <<marked, bundles>>

\* Faulty variant: the index is persisted before the bundle's file.
PersistBundleUnwritten(k, r) ==
    /\ caller[k] = Idle
    /\ memory.runs[r].pub # 0 /\ memory.runs[r].index = 0
    /\ Persist(k, Event("bundle.indexed", "", "", 0, memory.runs[r].pub, "", r, FALSE), Idle)
    /\ Rest

\* persistBundle.
PersistBundle(k, r) ==
    /\ caller[k] = Idle
    /\ memory.runs[r].pub # 0 /\ memory.runs[r].index = 0
    /\ Ensured(r, "bundle", memory.runs[r].pub)
    /\ Persist(k, Event("bundle.indexed", "", "", 0, memory.runs[r].pub, "", r, FALSE), Idle)
    /\ UNCHANGED <<marked, bundles>>

\* commitBundleCompletion.
CompleteBundle(k, r) ==
    /\ caller[k] = Idle
    /\ memory.runs[r].index # 0 /\ memory.runs[r].done = 0
    /\ Persist(k, Event("bundle.completed", "", "", 0, memory.runs[r].index, "", r, FALSE), Idle)
    /\ Rest

-------------------------------------------------------------------------------
\* leaseHasSealingExportLocked.
Sealing == \E x \in Exports : memory.exports[x] \in {"committing", "committed"}

\* startCapture, up to its persisted intent.
StartCapture(k, c, key) ==
    /\ Begin(k)
    /\ Indexed(memory, "start_capture", key) = {}
    /\ ~Sealing
    /\ memory.captures[c].state = "absent"
    /\ \A b \in Captures : b < c => memory.captures[b].state # "absent"
    /\ Request(k, Event("capture.upserted", "start_capture", key, 0, c, "starting", 1, FALSE),
               [Idle EXCEPT !.op = "resume", !.id = c, !.key = key])
    /\ Rest

\* replayOrResumeCapture: the same request again resumes an unfinished start.
ReplayStart(k, key) ==
    /\ Begin(k)
    /\ \E i \in Indexed(memory, "start_capture", key) :
         /\ memory.captures[i.id].state \in {"starting", "failed"}
         /\ caller' = [caller EXCEPT ![k] = [Idle EXCEPT !.op = "resume", !.id = i.id, !.key = key]]
    /\ requests' = requests + 1
    /\ UNCHANGED <<durable, memory, wedged, crashes, faults>>
    /\ Rest

\* resumeCapture: the physical start has an outcome, which is recorded unless
\* the capture has become active or completed meanwhile.
ResumeCapture(k) ==
    LET c == caller[k].id IN
    /\ caller[k].op = "resume"
    /\ IF memory.captures[c].state \in {"active", "completed"}
       THEN /\ caller' = [caller EXCEPT ![k] = Idle]
            /\ UNCHANGED <<durable, memory, wedged, budget>>
       ELSE \E outcome \in {"active", "failed"} :
              Persist(k, Event("capture.upserted", "start_capture", caller[k].key, 0, c, outcome,
                               memory.captures[c].revision + 1, FALSE), Idle)
    /\ Rest

\* requireOperationReservationRecordLocked: the reservation is there, is free
\* to make, or the request is refused.
Reserved(o, key, sig) == memory.ops[o] = [key |-> key, sig |-> sig]
MayReserve(o, key) == memory.ops[o] = NoOp /\ Indexed(memory, o[1], key) = {}

\* stopCaptureRecord reads the record and reserves the stop; the signature
\* names the revision it saw.
ReserveStop(k, c, key, termination) ==
    LET record == memory.captures[c]
        held == [op |-> "stop", id |-> c, key |-> key, n |-> record.revision, state |-> record.state,
                 termination |-> termination] IN
    /\ Begin(k)
    /\ record.state = "active" \/ (termination /\ record.state \in {"starting", "failed"})
    /\ \/ /\ Reserved(<<"stop_capture", c>>, key, record.revision)
          /\ caller' = [caller EXCEPT ![k] = held]
          /\ requests' = requests + 1
          /\ UNCHANGED <<durable, memory, wedged, crashes, faults>>
       \/ /\ MayReserve(<<"stop_capture", c>>, key)
          /\ Request(k, Event("operation.reserved", "stop_capture", key, record.revision, c, "", c, TRUE), held)
    /\ Rest

\* The physical stop fails, or the completed record, made of the one read
\* before, is persisted unless another stop completed.
FinishStop(k) ==
    LET c == caller[k].id IN
    /\ caller[k].op = "stop"
    /\ \/ /\ caller' = [caller EXCEPT ![k] = Idle]
          /\ UNCHANGED <<durable, memory, wedged, budget>>
       \/ /\ memory.captures[c].state # "completed"
          /\ Persist(k, Event("capture.upserted", "stop_capture", caller[k].key, caller[k].n, c,
                              "completed", caller[k].n + 1, FALSE), Idle)
    /\ Rest

-------------------------------------------------------------------------------
\* DeclareExport.
DeclareExport(k, x, key) ==
    /\ Begin(k)
    /\ Indexed(memory, "declare_export", key) = {}
    /\ ~Sealing
    /\ memory.exports[x] = "absent"
    /\ \A y \in Exports : y < x => memory.exports[y] # "absent"
    /\ Request(k, Event("export.upserted", "declare_export", key, 0, x, "declared", x, FALSE), Idle)
    /\ Rest

\* beginExportCommit: the state and its reservation are one event.
BeginExportCommit(k, x, key) ==
    /\ Begin(k)
    /\ memory.exports[x] = "declared"
    /\ MayReserve(<<"commit_export", x>>, key)
    /\ \A c \in Captures : memory.captures[c].state \in {"absent", "completed", "failed"}
    /\ Request(k, Event("export.upserted", "commit_export", key, x, x, "committing", x, TRUE), Idle)
    /\ Rest

\* completeExportCommit.
CompleteExportCommit(k, x, key) ==
    /\ caller[k] = Idle
    /\ memory.exports[x] = "committing"
    /\ Reserved(<<"commit_export", x>>, key, x)
    /\ Persist(k, Event("export.upserted", "commit_export", key, x, x, "committed", x, FALSE), Idle)
    /\ Rest

\* Faulty variant: destroying and quarantining do not exclude each other.
ReserveTargetAlone(k, ns, key) ==
    /\ Begin(k)
    /\ MayReserve(<<ns, Target>>, key)
    /\ Request(k, Event("operation.reserved", ns, key, Target, Target, "", Target, TRUE), Idle)
    /\ Rest

\* reserveOperationRecord of a target generation, for one of the two.
ReserveTarget(k, ns, key) ==
    /\ Begin(k)
    /\ MayReserve(<<ns, Target>>, key)
    /\ \A other \in {"destroy_target", "quarantine_target"} \ {ns} : memory.ops[<<other, Target>>] = NoOp
    /\ Request(k, Event("operation.reserved", ns, key, Target, Target, "", Target, TRUE), Idle)
    /\ Rest

\* persistTargetQuarantineContainment.
PersistContainment(k) ==
    LET op == memory.ops[<<"quarantine_target", Target>>] IN
    /\ caller[k] = Idle
    /\ op # NoOp /\ memory.contained = NoOp
    /\ Persist(k, Event("target_quarantine.contained", "", "", 0, op.sig, op.key, Target, FALSE), Idle)
    /\ Rest

-------------------------------------------------------------------------------
\* The process ends; New replays the log, removes the files no event anchors
\* and verifies the rest.
Restart ==
    /\ crashes < MaxCrashes
    /\ Restartable(durable)
    /\ crashes' = crashes + 1
    /\ memory' = durable
    /\ wedged' = FALSE
    /\ caller' = [k \in Callers |-> Idle]
    /\ files' = [r \in Runs |->
          [files[r] EXCEPT !.prep = IF KeptPreparation(durable, r) THEN @ ELSE 0,
                           !.pub = IF durable.runs[r].pub # 0 THEN @ ELSE 0]]
    /\ UNCHANGED <<durable, marked, bundles, requests, faults>>

\* ReconcileRunFinalizations anchors a preparation only its marker holds.
ReconcileAnchor(k) ==
    /\ caller[k] = Idle
    /\ \E r \in marked :
         /\ files[r].prep # 0 /\ memory.runs[r].prep = 0 /\ memory.runs[r].bundle # 0
         /\ Persist(k, Event("bundle.stop_prepared", "", "", 0, files[r].prep, "", r, FALSE), Idle)
    /\ Rest

BundleStep(k) ==
    \/ \E r \in Runs, key \in Keys : ReserveBundle(k, r, key)
    \/ \E r \in Runs, d \in {1, 2} : WritePreparation(k, r, d)
    \/ BindPreparation(k)
    \/ AnchorPreparation(k)
    \/ ReconcileAnchor(k)
    \/ \E r \in Runs : StagePublication(k, r) \/ PersistBundle(k, r) \/ CompleteBundle(k, r)

CaptureStep(k) ==
    \/ \E c \in Captures, key \in Keys : StartCapture(k, c, key)
    \/ \E key \in Keys : ReplayStart(k, key)
    \/ ResumeCapture(k)
    \/ \E c \in Captures, key \in Keys, termination \in BOOLEAN : ReserveStop(k, c, key, termination)
    \/ FinishStop(k)

OtherStep(k) ==
    \/ \E x \in Exports, key \in Keys :
         DeclareExport(k, x, key) \/ BeginExportCommit(k, x, key) \/ CompleteExportCommit(k, x, key)
    \/ \E ns \in {"destroy_target", "quarantine_target"}, key \in Keys : ReserveTarget(k, ns, key)
    \/ PersistContainment(k)

Next == Restart \/ \E k \in Callers : BundleStep(k) \/ CaptureStep(k) \/ OtherStep(k)

Spec == Init /\ [][Next]_serviceVars

-------------------------------------------------------------------------------
States ==
    [ok : BOOLEAN,
     runs : [Runs -> [key : Keys \cup {""}, bundle : 0..MaxBundle, prep : 0..2, pub : 0..2,
                      index : 0..2, done : 0..2]],
     captures : [Captures -> [state : {"absent", "starting", "active", "failed", "completed"}, revision : Nat]],
     exports : [Exports -> {"absent", "declared", "committing", "committed"}],
     ops : [Operations -> [key : Keys \cup {""}, sig : Nat]],
     contained : [key : Keys \cup {""}, sig : Nat],
     idempotency : SUBSET [ns : {"finalize", "start_capture", "stop_capture", "declare_export", "commit_export",
                                 "destroy_target", "quarantine_target"},
                           key : Keys, sig : Nat, id : Nat]]

TypeOK ==
    /\ durable \in States /\ memory \in States
    /\ files \in [Runs -> [prep : 0..2, pub : 0..2, bundle : 0..2]]
    /\ marked \subseteq Runs
    /\ wedged \in BOOLEAN
    /\ caller \in [Callers -> [op : {"idle", "bind", "anchor", "resume", "stop"}, id : Nat, key : Keys \cup {""},
                               n : Nat, state : STRING, termination : BOOLEAN]]
    /\ bundles \in 0..MaxBundle
    /\ requests \in 0..MaxRequests /\ crashes \in 0..MaxCrashes /\ faults \in 0..MaxFaults

\* New never refuses what the running service wrote: at every moment the log
\* replays, its files are there, and the checks of the reservations and of the
\* bundle indexes hold.  applyStateEvent checks an event only after
\* persistStateLocked has appended it, so a caller that got this wrong would
\* stop every later start.
ServiceRestarts == Restartable(durable)

\* While the ledger works, the memory requests are answered from is what a
\* restart would rebuild; an append whose fate is unknown stops the service
\* from going on (persistStateLocked, the ledger's failed state).
MemoryIsReplay == wedged \/ memory = durable

\* What a key has been answered with stays its answer, across retries, failed
\* appends and restarts: an entry of the idempotency index is never lost or
\* changed (applyStateEvent, existingIdempotencyLocked).
KeepsAnswers ==
    /\ memory.idempotency \subseteq memory'.idempotency
    /\ \A i, j \in memory'.idempotency : (i.ns = j.ns /\ i.key = j.key) => i = j
AnswersAreKept == [][KeepsAnswers]_serviceVars
===============================================================================
