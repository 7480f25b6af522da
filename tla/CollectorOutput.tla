---------------------------- MODULE CollectorOutput ----------------------------
(***************************************************************************)
(* The local output authority of the collectors                            *)
(* (internal/drivers/observer/process/local_output*.go).  A collector's    *)
(* directory holds its two partial streams, then either finalized.json or  *)
(* aborted, each published through a .pending file and a rename.  The      *)
(* streams' bytes become objects that all collectors of the root share by  *)
(* content.  Every step to disk can be the last before a crash, after      *)
(* which ReconcileInterruptedRun classifies what is left.                  *)
(*                                                                         *)
(* A stream is the number of its bytes, and so is an object: two streams   *)
(* of one length are one object.  A control file is absent, torn, pending  *)
(* or final.  The coordinator holds its lock over every call, so one       *)
(* operation runs at a time.                                               *)
(***************************************************************************)
EXTENDS Integers

CONSTANTS Collectors,   \* collectors that share one output root
          MaximumBytes, \* the bytes both streams of a collector may hold together
          MaxFaults     \* bound on failed writes and on crashes

VARIABLES dir,          \* the collectors' directories
          objects,      \* for each object the state of its file
          pending,      \* the bytes in each object's pending file, or Absent
          active,       \* the open transactions of this process
          writing,      \* those whose writers are still open
          exceeded,     \* the transactions that met the byte limit
          committed,    \* collectors whose start the coordinator's marker records
          met,          \* history: the collectors whose last transaction met the byte limit
          op,           \* the operation that runs: its kind, collector and next step
          phase,        \* "up", "down", "scanned" or "refused"
          faults

outputVars == <<dir, objects, pending, active, writing, exceeded, committed, met, op, phase, faults>>

Absent == -1
Streams == {"stdout", "stderr"}
Sizes == 0..MaximumBytes
NoRefs == [s \in Streams |-> Absent]
NewDirectory == [partial |-> NoRefs, finalized |-> "absent", aborted |-> "absent", refs |-> NoRefs,
                 truncated |-> FALSE]
Idle == [kind |-> "idle", step |-> "none", stream |-> "none"]
Total(p) == p["stdout"] + p["stderr"]

ControlFile == {"absent", "torn", "pending", "final"}

TypeOK ==
    /\ dir \in [Collectors -> [partial : [Streams -> Sizes \cup {Absent}],
                               finalized : ControlFile, aborted : ControlFile,
                               refs : [Streams -> Sizes \cup {Absent}], truncated : BOOLEAN]]
    /\ objects \subseteq Sizes
    /\ pending \in [Sizes -> Sizes \cup {Absent}] /\ \A n \in Sizes : pending[n] <= n
    /\ writing \subseteq active /\ active \subseteq Collectors /\ exceeded \subseteq Collectors
    /\ committed \subseteq Collectors /\ met \subseteq Collectors
    /\ op \in [Collectors -> [kind : {"idle", "open", "finalize", "abort", "recover"},
                              step : {"none", "create", "object", "object-write", "object-rename",
                                      "manifest-stage", "manifest-write", "manifest-rename",
                                      "abort-stage", "abort-write", "abort-rename", "remove"},
                              stream : Streams \cup {"none"}]]
    /\ phase \in {"up", "down", "scanned", "refused"}
    /\ faults \in 0..MaxFaults

Init ==
    /\ dir = [c \in Collectors |-> NewDirectory]
    /\ objects = {} /\ pending = [n \in Sizes |-> Absent]
    /\ active = {} /\ writing = {} /\ exceeded = {} /\ committed = {} /\ met = {}
    /\ op = [c \in Collectors |-> Idle] /\ phase = "up" /\ faults = 0

Well == UNCHANGED faults
Fault == faults < MaxFaults /\ faults' = faults + 1
Free == \A c \in Collectors : op[c] = Idle

Begin(c, kind, step) == op' = [op EXCEPT ![c] = [kind |-> kind, step |-> step, stream |-> "stdout"]]
Step(c, step) == op' = [op EXCEPT ![c].step = step]
At(c, step) == op[c].step = step
Remove(c) == op' = [op EXCEPT ![c].step = "remove", ![c].stream = "stdout"]
End(c) == op' = [op EXCEPT ![c] = Idle]

\* An operation fails: the caller gets an error and may try again; a failed
\* reconciliation fails the start of the daemon.
Fails(c) ==
    /\ Fault /\ End(c)
    /\ phase' = IF phase = "up" THEN "up" ELSE "down"

-----------------------------------------------------------------------------
\* Open, and the bytes a collector writes.

\* prepareCaptureDirectoryForOpen: an aborted transaction is finished and
\* cleared, and anything else that is left refuses.
Reopenable(d) == d.finalized = "absent" /\ (d.partial = NoRefs \/ d.aborted # "absent")

BeginOpen(c) ==
    /\ phase = "up" /\ Free /\ c \notin active /\ c \notin committed
    /\ Reopenable(dir[c])
    /\ dir' = [dir EXCEPT ![c] = NewDirectory] /\ met' = met \ {c}
    /\ Begin(c, "open", "create")
    /\ UNCHANGED <<objects, pending, active, writing, exceeded, committed, phase, faults>>

\* openDurableCaptureWriters creates both files, and removes what it created
\* when one of them fails.
CreateStream(c) ==
    /\ At(c, "create")
    /\ \/ /\ Well
          /\ dir' = [dir EXCEPT ![c].partial[op[c].stream] = 0]
          /\ \/ /\ op[c].stream = "stdout" /\ op' = [op EXCEPT ![c].stream = "stderr"]
                /\ UNCHANGED <<active, writing, exceeded>>
             \/ /\ op[c].stream = "stderr" /\ End(c)
                /\ active' = active \cup {c} /\ writing' = writing \cup {c} /\ exceeded' = exceeded \ {c}
       \/ /\ Fault /\ dir' = [dir EXCEPT ![c].partial = NoRefs] /\ End(c)
          /\ UNCHANGED <<active, writing, exceeded>>
    /\ UNCHANGED <<objects, pending, committed, met, phase>>

\* boundedCaptureWriter.Write of one byte, from the budget both streams share.
Write(c, s) ==
    /\ phase = "up" /\ c \in writing
    /\ \/ /\ Total(dir[c].partial) < MaximumBytes
          /\ dir' = [dir EXCEPT ![c].partial[s] = @ + 1] /\ UNCHANGED <<exceeded, met>>
       \/ /\ Total(dir[c].partial) = MaximumBytes
          /\ exceeded' = exceeded \cup {c} /\ met' = met \cup {c} /\ UNCHANGED dir
    /\ UNCHANGED <<objects, pending, active, writing, committed, op, phase, faults>>

\* The coordinator's marker records that the collector started.
CommitStart(c) ==
    /\ phase = "up" /\ Free /\ c \in active /\ c \notin committed
    /\ dir[c].aborted = "absent"
    /\ committed' = committed \cup {c}
    /\ UNCHANGED <<dir, objects, pending, active, writing, exceeded, met, op, phase, faults>>

-----------------------------------------------------------------------------
\* Publication: publishFinalizedCapture and publishCaptureControlFile.

Content(c) == dir[c].partial[op[c].stream]

\* Finalize of an open transaction reads the partials the writers have closed.
BeginFinalize(c) ==
    /\ phase = "up" /\ Free /\ c \in active /\ c \in committed
    /\ Begin(c, "finalize", "object") /\ writing' = writing \ {c}
    /\ UNCHANGED <<dir, objects, pending, active, exceeded, committed, met, phase, faults>>

\* Start failed: Abort.
BeginAbort(c) ==
    /\ phase = "up" /\ Free /\ c \in writing /\ c \notin committed
    /\ Begin(c, "abort", "abort-stage") /\ writing' = writing \ {c}
    /\ UNCHANGED <<dir, objects, pending, active, exceeded, committed, met, phase, faults>>

\* After both objects the manifest is staged.
NextObject(c) ==
    IF op[c].stream = "stdout"
    THEN op' = [op EXCEPT ![c].stream = "stderr", ![c].step = "object"]
    ELSE Step(c, "manifest-stage")

\* ensureLocalObject: an object that is there is kept; a pending file must hold
\* these very bytes.
EnsureObject(c) ==
    /\ At(c, "object")
    /\ \/ /\ Content(c) \in objects /\ NextObject(c) /\ UNCHANGED <<pending, phase>> /\ Well
       \/ /\ Content(c) \notin objects /\ pending[Content(c)] = Content(c)
          /\ Step(c, "object-rename") /\ UNCHANGED <<pending, phase>> /\ Well
       \/ /\ Content(c) \notin objects /\ pending[Content(c)] = Absent
          /\ pending' = [pending EXCEPT ![Content(c)] = 0] /\ Step(c, "object-write")
          /\ UNCHANGED phase /\ Well
       \/ /\ Content(c) \notin objects /\ pending[Content(c)] \notin {Absent, Content(c)}
          /\ End(c) /\ Well /\ UNCHANGED <<pending, phase>>
    /\ UNCHANGED <<dir, objects, active, writing, exceeded, committed, met>>

WriteObject(c) ==
    /\ At(c, "object-write")
    /\ \/ /\ pending' = [pending EXCEPT ![Content(c)] = Content(c)]
          /\ Step(c, "object-rename") /\ Well /\ UNCHANGED phase
       \/ Fails(c) /\ UNCHANGED pending
    /\ UNCHANGED <<dir, objects, active, writing, exceeded, committed, met>>

RenameObject(c) ==
    /\ At(c, "object-rename")
    /\ \/ /\ objects' = objects \cup {Content(c)} /\ pending' = [pending EXCEPT ![Content(c)] = Absent]
          /\ NextObject(c) /\ Well /\ UNCHANGED phase
       \/ Fails(c) /\ UNCHANGED <<objects, pending>>
    /\ UNCHANGED <<dir, active, writing, exceeded, committed, met>>

\* Faulty variant: recovery, too, trusts the memory of a refused write.
TruncatedIfKnown(c) == Total(dir[c].partial) = MaximumBytes /\ c \in exceeded

\* Finalize marks the result truncated when a write met the limit; recovery,
\* which no longer knows, when the limit is reached.
Truncated(c) ==
    /\ Total(dir[c].partial) = MaximumBytes
    /\ op[c].kind = "finalize" => c \in exceeded

\* finalized.json.pending: a torn one in this process conflicts with the retry.
StageManifest(c) ==
    /\ At(c, "manifest-stage")
    /\ \/ /\ dir[c].finalized = "absent" /\ Well /\ Step(c, "manifest-write")
          /\ dir' = [dir EXCEPT ![c].finalized = "torn"]
       \/ dir[c].finalized = "pending" /\ Well /\ Step(c, "manifest-rename") /\ UNCHANGED dir
       \/ dir[c].finalized = "torn" /\ End(c) /\ Well /\ UNCHANGED dir
    /\ UNCHANGED <<objects, pending, active, writing, exceeded, committed, met, phase>>

WriteManifest(c) ==
    /\ At(c, "manifest-write")
    /\ \/ /\ dir' = [dir EXCEPT ![c].finalized = "pending", ![c].refs = dir[c].partial,
                                ![c].truncated = Truncated(c)]
          /\ Step(c, "manifest-rename") /\ Well /\ UNCHANGED phase
       \/ Fails(c) /\ UNCHANGED dir
    /\ UNCHANGED <<objects, pending, active, writing, exceeded, committed, met>>

RenameManifest(c) ==
    /\ At(c, "manifest-rename")
    /\ \/ dir' = [dir EXCEPT ![c].finalized = "final"] /\ Remove(c) /\ Well /\ UNCHANGED phase
       \/ Fails(c) /\ UNCHANGED dir
    /\ UNCHANGED <<objects, pending, active, writing, exceeded, committed, met>>

\* aborted.pending: recovery replaces a torn one.
StageAbort(c) ==
    /\ At(c, "abort-stage")
    /\ \/ /\ dir[c].aborted \in {"absent", "torn"}
          /\ Well /\ Step(c, "abort-write") /\ dir' = [dir EXCEPT ![c].aborted = "torn"]
       \/ dir[c].aborted = "pending" /\ Well /\ Step(c, "abort-rename") /\ UNCHANGED dir
    /\ UNCHANGED <<objects, pending, active, writing, exceeded, committed, met, phase>>

WriteAbort(c) ==
    /\ At(c, "abort-write")
    /\ \/ /\ dir' = [dir EXCEPT ![c].aborted = "pending"] /\ Step(c, "abort-rename")
          /\ Well /\ UNCHANGED phase
       \/ Fails(c) /\ UNCHANGED dir
    /\ UNCHANGED <<objects, pending, active, writing, exceeded, committed, met>>

RenameAbort(c) ==
    /\ At(c, "abort-rename")
    /\ \/ dir' = [dir EXCEPT ![c].aborted = "final"] /\ Remove(c) /\ Well /\ UNCHANGED phase
       \/ Fails(c) /\ UNCHANGED dir
    /\ UNCHANGED <<objects, pending, active, writing, exceeded, committed, met>>

\* removeCapturePartials, one file after the other; the transaction is released
\* whether or not they could be removed, and a replay removes them.
RemovePartial(c) ==
    /\ At(c, "remove")
    /\ \/ /\ op[c].stream = "stdout" /\ Well
          /\ dir' = [dir EXCEPT ![c].partial["stdout"] = Absent]
          /\ op' = [op EXCEPT ![c].stream = "stderr"]
          /\ UNCHANGED active
       \/ /\ op[c].stream = "stderr" /\ Well
          /\ dir' = [dir EXCEPT ![c].partial = NoRefs]
          /\ active' = active \ {c} /\ End(c)
    /\ UNCHANGED <<objects, pending, writing, exceeded, committed, met, phase>>

-----------------------------------------------------------------------------
\* A crash, and the reconciliation of what it left.

Crash ==
    /\ phase # "refused" /\ Fault
    /\ phase' = "down" /\ active' = {} /\ writing' = {} /\ exceeded' = {}
    /\ op' = [c \in Collectors |-> Idle]
    /\ UNCHANGED <<dir, objects, pending, committed, met>>

\* Faulty variant: only published manifests hold their objects.
ReferencedByFinal ==
    {dir[x[1]].refs[x[2]] : x \in {y \in Collectors \X Streams : dir[y[1]].finalized = "final"}}

\* scanRunObjectReachability: the objects that published and completely staged
\* manifests name.
Referenced ==
    {dir[x[1]].refs[x[2]] :
        x \in {y \in Collectors \X Streams : dir[y[1]].finalized \in {"pending", "final"}}}

\* Faulty variant: no torn object file is tolerated.
ApprovedNone(n) == FALSE

\* classifyInterruptedObjectPending: a torn pending object belongs to a partial
\* with these bytes.
Approved(n) == \E c \in Collectors, s \in Streams : dir[c].partial[s] = n

\* reconcileObjectNamespace keeps exactly the referenced objects.
NamespaceSound ==
    /\ \A n \in objects : pending[n] = Absent
    /\ \A n \in Sizes : pending[n] \notin {Absent, n} => Approved(n) /\ n \notin Referenced
    /\ \A n \in Referenced : n \in objects \/ pending[n] = n

ReconcileNamespace(up) ==
    IF NamespaceSound
    THEN phase' = up /\ objects' = Referenced /\ pending' = [n \in Sizes |-> Absent]
    ELSE phase' = "refused" /\ UNCHANGED <<objects, pending>>

ScanOutputs ==
    /\ phase = "down"
    /\ ReconcileNamespace("scanned")
    /\ UNCHANGED <<dir, active, writing, exceeded, committed, met, op, faults>>

\* requireExactCollectorFiles
Terminal(d) ==
    /\ d.partial = NoRefs
    /\ \/ d.finalized = "final" /\ d.aborted = "absent"
       \/ d.finalized = "absent" /\ d.aborted = "final"

Verified(d) == \A s \in Streams : d.refs[s] \in objects

\* reconcileCollectorOutput
Recover(c) ==
    /\ phase = "scanned" /\ Free /\ ~Terminal(dir[c])
    /\ \/ /\ dir[c].finalized = "final" /\ dir[c].aborted = "absent" /\ Verified(dir[c])
          /\ Begin(c, "recover", "remove") /\ UNCHANGED <<dir, phase>>
       \/ /\ dir[c].finalized = "pending" /\ dir[c].aborted = "absent" /\ Verified(dir[c])
          /\ Begin(c, "recover", "manifest-rename") /\ UNCHANGED <<dir, phase>>
       \/ /\ dir[c].finalized = "torn" /\ dir[c].aborted = "absent"
          /\ dir' = [dir EXCEPT ![c].finalized = "absent"]
          /\ Begin(c, "recover", "abort-stage") /\ UNCHANGED phase
       \/ /\ dir[c].finalized = "absent" /\ dir[c].aborted = "final"
          /\ Begin(c, "recover", "remove") /\ UNCHANGED <<dir, phase>>
       \/ /\ dir[c].finalized = "absent" /\ dir[c].aborted \in {"pending", "torn"}
          /\ Begin(c, "recover", "abort-stage") /\ UNCHANGED <<dir, phase>>
       \/ /\ dir[c].finalized = "absent" /\ dir[c].aborted = "absent" /\ c \notin committed
          /\ Begin(c, "recover", "abort-stage") /\ UNCHANGED <<dir, phase>>
       \/ /\ dir[c].finalized = "absent" /\ dir[c].aborted = "absent" /\ c \in committed
          /\ Absent \notin {dir[c].partial[s] : s \in Streams}
          /\ Begin(c, "recover", "object") /\ UNCHANGED <<dir, phase>>
    /\ UNCHANGED <<objects, pending, active, writing, exceeded, committed, met, faults>>

\* Conflicting terminal states, an unverified manifest and a committed start
\* without both streams refuse the start of the daemon.
Unrecoverable(d, isCommitted) ==
    \/ d.finalized # "absent" /\ d.aborted # "absent"
    \/ d.finalized \in {"pending", "final"} /\ ~Verified(d)
    \/ /\ d.finalized = "absent" /\ d.aborted = "absent" /\ isCommitted
       /\ Absent \in {d.partial[s] : s \in Streams}

FinishReconciliation ==
    /\ phase = "scanned" /\ Free
    /\ \/ /\ \A c \in Collectors : Terminal(dir[c])
          /\ ReconcileNamespace("up")
       \/ /\ \E c \in Collectors : Unrecoverable(dir[c], c \in committed)
          /\ phase' = "refused" /\ UNCHANGED <<objects, pending>>
    /\ UNCHANGED <<dir, active, writing, exceeded, committed, met, op, faults>>

-----------------------------------------------------------------------------
Publish(c) ==
    \/ EnsureObject(c) \/ WriteObject(c) \/ RenameObject(c)
    \/ StageManifest(c) \/ WriteManifest(c) \/ RenameManifest(c)
    \/ StageAbort(c) \/ WriteAbort(c) \/ RenameAbort(c) \/ RemovePartial(c)

Next ==
    \/ Crash \/ ScanOutputs \/ FinishReconciliation
    \/ \E c \in Collectors :
          \/ BeginOpen(c) \/ CreateStream(c) \/ CommitStart(c)
          \/ BeginFinalize(c) \/ BeginAbort(c) \/ Publish(c) \/ Recover(c)
    \/ \E c \in Collectors, s \in Streams : Write(c, s)

Spec == Init /\ [][Next]_outputVars

-----------------------------------------------------------------------------
\* The objects a staged or published manifest names are whole files, at every
\* step between which a crash can fall.
ManifestNamesObjects ==
    \A c \in Collectors : dir[c].finalized \in {"pending", "final"} =>
        \A s \in Streams : dir[c].refs[s] \in objects

\* A capture that met its byte limit is published as truncated, even when the
\* process that knew of the refused write is gone.
LimitIsReported ==
    \A c \in Collectors : (c \in met /\ dir[c].finalized = "final") => dir[c].truncated

\* Whatever step a crash or a failed write cuts short, reconciliation finds no
\* state it refuses to classify, so the daemon starts.
OutputsReconcile == phase # "refused"
=============================================================================
