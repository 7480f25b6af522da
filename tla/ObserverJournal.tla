---------------------------- MODULE ObserverJournal ----------------------------
(***************************************************************************)
(* How the run observer coordinator makes its evidence durable             *)
(* (internal/orchestration/run_observer_journal.go, run_observers.go,      *)
(* run_evidence_persistence.go), for one run with one collector.  Every    *)
(* fact is a journal step: the journal with the pending step is written    *)
(* under its content address, the run's marker is replaced to name it, the *)
(* fact is appended to the ledger under the event identity the step        *)
(* carries, and the journal with the completed step is written the same    *)
(* way.  Each of these writes can fail, and the daemon can crash between   *)
(* any two of them.                                                        *)
(*                                                                         *)
(* A journal is a record of the completed steps, the evidence, the pending *)
(* step and whether the batch of collector results was stored; a step is a *)
(* key and an event identity.  The keys of facts recorded by a recovery    *)
(* carry the time of the recovery.                                         *)
(***************************************************************************)
EXTENDS Naturals, Sequences, FiniteSets

CONSTANTS MaxFaults     \* bound on failed writes
CONSTANTS MaxCrashes    \* bound on crashes

VARIABLES files,        \* the journals on disk
          marker,       \* the run's marker: its phase and the journal it names
          ledger,       \* the ledger, a sequence of steps
          mem,          \* the coordinator's record of the run
          op,           \* the operation that runs and where it stands
          reported,     \* history: Stop has returned the run's evidence
          nextID,       \* the next event identity
          boots, faults

journalVars == <<files, marker, ledger, mem, op, reported, nextID, boots, faults>>

NoStep == [key |-> <<"none", 0>>, id |-> 0]
NoJournal == [completed |-> {}, evidence |-> {}, pending |-> NoStep, batch |-> FALSE,
              written |-> FALSE]

\* The facts each operation records, in order.  A collector that fails to start
\* leaves a gap and lost coverage, and so does a recovery.
StepsOf(task) ==
    CASE task = "start"   -> <<"coverage", "ready">>
      [] task = "failure" -> <<"gap", "lost">>
      [] task = "recover" -> <<"gap", "lost">>
      [] task = "stop"    -> <<"final", "stopped">>
      [] OTHER            -> <<>>

\* The time a recovery reads: it moves with every crash and fault, so no two
\* recoveries read the same.
Now == boots + faults

Key(task, i) == <<StepsOf(task)[i], IF task = "recover" THEN Now ELSE 0>>

NoMemory == [journal |-> NoJournal, ref |-> NoJournal, obsolete |-> {}, dirty |-> FALSE,
             evidence |-> {}, phase |-> "none"]
Idle == [task |-> "idle", at |-> "none", index |-> 0, then |-> "none"]
Down == [Idle EXCEPT !.task = "down"]

Init ==
    /\ files = {} /\ marker = [phase |-> "none", ref |-> NoJournal] /\ ledger = <<>>
    /\ mem = NoMemory /\ op = Idle /\ reported = FALSE /\ nextID = 1 /\ boots = 0 /\ faults = 0

Names == {"none", "coverage", "ready", "gap", "lost", "final", "stopped"}
Steps == [key : Names \X (0..(MaxCrashes + MaxFaults)), id : 0..nextID]

TypeOK ==
    /\ \A j \in files \cup {marker.ref, mem.journal, mem.ref} \cup mem.obsolete :
          j.completed \subseteq Steps /\ j.pending \in Steps /\ j.batch \in BOOLEAN
    /\ mem.phase \in {"none", "starting", "active", "stopping", "stopped", "recovering"}
    /\ marker.phase \in {"none", "starting", "active", "stopping", "stopped", "recovering"}
    /\ op.task \in {"idle", "start", "failure", "stop", "recover", "resume", "down"}
    /\ op.index \in 0..3 /\ boots \in 0..MaxCrashes /\ faults \in 0..MaxFaults
    /\ reported \in BOOLEAN /\ ledger \in Seq(Steps)

Well == UNCHANGED faults
Fault == faults < MaxFaults /\ faults' = faults + 1

At(place) == op.at = place
Goto(place) == op' = [op EXCEPT !.at = place]

\* checkpointObserverJournal, and where to go on afterwards.
Checkpoint(then) == op' = [op EXCEPT !.at = "obsolete", !.then = then]

NextStep == op' = [op EXCEPT !.at = "step", !.index = @ + 1]

\* An operation fails.  A start goes on to record the failure, whose own failure
\* an optional collector ignores; a stop can be repeated; a recovery fails the
\* start of the daemon.
OpFails ==
    CASE op.task = "start"   -> op' = [task |-> "failure", at |-> "step", index |-> 1, then |-> "none"]
      [] op.task = "failure" -> op' = [op EXCEPT !.at = "finish"]
      [] op.task = "stop"    -> op' = Idle
      [] OTHER               -> op' = Down

-----------------------------------------------------------------------------
\* persistObserverJournal

\* removeObsoleteObserverJournals, before anything is written.
RemoveObsolete ==
    /\ At("obsolete")
    /\ \/ files' = files \ mem.obsolete /\ mem' = [mem EXCEPT !.obsolete = {}] /\ Goto("write") /\ Well
       \/ mem.obsolete # {} /\ OpFails /\ Fault /\ UNCHANGED <<files, mem>>
    /\ UNCHANGED <<marker, ledger, reported, nextID, boots>>

\* persistRunObservationEvidence: each fact by the place of its ledger record.
PersistedEvidence == {s \in mem.evidence : \E i \in DOMAIN ledger : ledger[i] = s}

\* EnsureRegularAtomically writes the journal, with the evidence as it stands,
\* under its content address.
WriteJournal ==
    /\ At("write")
    /\ mem' = [mem EXCEPT !.journal.evidence = PersistedEvidence]
    /\ \/ files' = files \cup {mem'.journal} /\ Goto("mark") /\ Well
       \/ OpFails /\ Fault /\ UNCHANGED files
    /\ UNCHANGED <<marker, ledger, reported, nextID, boots>>

Named == [phase |-> mem.phase, ref |-> mem.journal]

\* Faulty variant: the previous journal is removed before the marker is replaced.
ReplaceMarkerLate ==
    /\ files' = files \ ({mem.ref} \ {mem.journal})
    /\ \/ /\ marker' = Named /\ Well
          /\ mem' = [mem EXCEPT !.ref = mem.journal, !.dirty = FALSE, !.obsolete = {}]
          /\ Goto("swept")
       \/ /\ Fault /\ marker' \in {marker, Named}
          /\ mem' = [mem EXCEPT !.dirty = TRUE] /\ OpFails

\* persistMarker: a failed replacement may have reached the disk all the same.
ReplaceMarker ==
    /\ \/ /\ marker' = Named /\ Well
          /\ mem' = [mem EXCEPT !.ref = mem.journal, !.dirty = FALSE,
                                !.obsolete = @ \cup ({mem.ref} \ {mem.journal, NoJournal})]
          /\ Goto("swept")
       \/ /\ Fault /\ marker' \in {marker, Named}
          /\ mem' = [mem EXCEPT !.dirty = TRUE] /\ OpFails
    /\ UNCHANGED files

MarkJournal ==
    /\ At("mark") /\ ReplaceMarker
    /\ UNCHANGED <<ledger, reported, nextID, boots>>

SweepJournals ==
    /\ At("swept")
    /\ \/ files' = files \ mem.obsolete /\ mem' = [mem EXCEPT !.obsolete = {}] /\ Goto(op.then) /\ Well
       \/ mem.obsolete # {} /\ OpFails /\ Fault /\ UNCHANGED <<files, mem>>
    /\ UNCHANGED <<marker, ledger, reported, nextID, boots>>

-----------------------------------------------------------------------------
\* runObserverJournalStep

CurrentKey == Key(op.task, op.index)
Completed(j, key) == \E s \in j.completed : s.key = key

\* A new step is staged; a pending one with the same key keeps its identity.
Stage ==
    \/ /\ mem.journal.pending = NoStep
       /\ mem' = [mem EXCEPT !.journal.pending = [key |-> CurrentKey, id |-> nextID]]
       /\ nextID' = nextID + 1
    \/ mem.journal.pending.key = CurrentKey /\ UNCHANGED <<mem, nextID>>

\* initializeJournal writes an empty journal before the first step.
InitializeJournal(then) ==
    /\ ~mem.journal.written /\ mem' = [mem EXCEPT !.journal.written = TRUE] /\ Checkpoint(then)

BeginStep ==
    /\ At("step") /\ op.index <= Len(StepsOf(op.task))
    /\ \/ InitializeJournal("step") /\ UNCHANGED nextID
       \/ /\ Completed(mem.journal, CurrentKey) /\ UNCHANGED <<mem, nextID>>
          /\ IF mem.dirty THEN Checkpoint("next") ELSE NextStep
       \/ /\ ~Completed(mem.journal, CurrentKey)
          /\ mem.journal.written /\ Stage /\ Checkpoint("append")
       \/ /\ ~Completed(mem.journal, CurrentKey)
          /\ mem.journal.pending # NoStep /\ mem.journal.pending.key # CurrentKey
          /\ OpFails /\ UNCHANGED <<mem, nextID>>
    /\ UNCHANGED <<files, marker, ledger, reported, boots, faults>>

\* Faulty variant: the record is appended without looking for it first.
AppendedBlindly(s) == Append(ledger, s)

\* appendExactObserverRecord looks for the event identity first.
Appended(s) == IF \E i \in DOMAIN ledger : ledger[i].id = s.id THEN ledger ELSE Append(ledger, s)

AppendRecord ==
    /\ At("append")
    /\ \/ ledger' = Appended(mem.journal.pending) /\ Goto("complete") /\ Well
       \/ OpFails /\ Fault /\ UNCHANGED ledger
    /\ UNCHANGED <<files, marker, mem, reported, nextID, boots>>

\* resumeObserverJournalStep: the evidence and the completion, then a checkpoint.
CompleteStep ==
    /\ At("complete")
    /\ mem' = [mem EXCEPT !.evidence = @ \cup {mem.journal.pending},
                          !.journal.completed = @ \cup {mem.journal.pending},
                          !.journal.pending = NoStep]
    /\ Checkpoint("next")
    /\ UNCHANGED <<files, marker, ledger, reported, nextID, boots, faults>>

AfterStep ==
    /\ At("next")
    /\ IF op.task = "resume" THEN Goto("hydrated") ELSE NextStep
    /\ UNCHANGED <<files, marker, ledger, mem, reported, nextID, boots, faults>>

-----------------------------------------------------------------------------
\* The operations of the coordinator.

Marked(phase) == [marker EXCEPT !.phase = phase, !.ref = mem.ref]

\* Start writes the marker and starts the collector.
BeginStart ==
    /\ op = Idle /\ mem.phase = "none"
    /\ \/ /\ mem' = [mem EXCEPT !.phase = "starting"] /\ marker' = Marked("starting")
          /\ op' = [task |-> "start", at |-> "step", index |-> 1, then |-> "none"] /\ Well
       \/ /\ mem' = [mem EXCEPT !.phase = "starting"] /\ marker' = Marked("starting")
          /\ op' = [task |-> "failure", at |-> "step", index |-> 1, then |-> "none"] /\ Fault
    /\ UNCHANGED <<files, ledger, reported, nextID, boots>>

StepsDone == At("step") /\ op.index = Len(StepsOf(op.task)) + 1

\* The run is active, whether its optional collector is ready or has failed.
FinishStart ==
    /\ op.task \in {"start", "failure"} /\ (StepsDone \/ At("finish"))
    /\ mem' = [mem EXCEPT !.phase = "active"] /\ op' = Idle
    /\ \/ marker' = Marked("active") /\ Well
       \/ Fault /\ UNCHANGED marker
    /\ UNCHANGED <<files, ledger, reported, nextID, boots>>

\* stopLocked: the marker says stopping, the batch of results is stored, then
\* each of its facts is recorded.
BeginStop ==
    /\ op = Idle /\ mem.phase \in {"active", "recovering", "stopping", "stopped"} /\ ~reported
    /\ mem' = [mem EXCEPT !.phase = "stopping"]
    /\ \/ /\ marker' = Marked("stopping") /\ Well
          /\ op' = [task |-> "stop", at |-> "batch", index |-> 0, then |-> "none"]
       \/ Fault /\ UNCHANGED <<marker, op>>
    /\ UNCHANGED <<files, ledger, reported, nextID, boots>>

\* The collectors' results are kept only when every teardown is confirmed.
StoreBatch ==
    /\ At("batch")
    /\ \/ InitializeJournal("batch") /\ Well
       \/ /\ mem.journal.written /\ ~mem.journal.batch /\ Well
          /\ mem' = [mem EXCEPT !.journal.batch = TRUE] /\ Checkpoint("next")
       \/ mem.journal.written /\ ~mem.journal.batch /\ op' = Idle /\ Fault /\ UNCHANGED mem
       \/ mem.journal.batch /\ NextStep /\ Well /\ UNCHANGED mem
    /\ UNCHANGED <<files, marker, ledger, reported, nextID, boots>>

\* The last checkpoint of Stop carries the stopped phase and all the evidence.
StoreStopped ==
    /\ op.task = "stop" /\ StepsDone
    /\ mem' = [mem EXCEPT !.phase = "stopped"] /\ Checkpoint("report")
    /\ UNCHANGED <<files, marker, ledger, reported, nextID, boots, faults>>

ReportStopped ==
    /\ op.task = "stop" /\ At("report")
    /\ reported' = TRUE /\ op' = Idle
    /\ UNCHANGED <<files, marker, ledger, mem, nextID, boots, faults>>

-----------------------------------------------------------------------------
\* A crash and the recovery from it.

Crash ==
    /\ boots < MaxCrashes /\ marker.phase # "none" /\ op.task # "down"
    /\ boots' = boots + 1 /\ op' = Down /\ mem' = NoMemory
    /\ UNCHANGED <<files, marker, ledger, reported, nextID, faults>>

\* pruneUnreferencedObserverJournals
Pruned == files \cap {marker.ref}

\* readExactLedgerRecord finds the record a persisted fact names.
Exact(s) == \E i \in DOMAIN ledger : ledger[i] = s
Restorable(j) == \A s \in j.completed \cup j.evidence : Exact(s)

\* hydrateObserverJournal restores the record from the journal its marker names.
Hydrated(j) == [NoMemory EXCEPT !.journal = j, !.ref = j, !.evidence = j.evidence,
                                !.phase = "recovering"]

Recover ==
    /\ op = Down /\ files' = Pruned
    /\ marker.ref.written => (marker.ref \in files /\ Restorable(marker.ref))
    /\ mem' = Hydrated(marker.ref)
    /\ op' = IF marker.ref.pending # NoStep
             THEN [task |-> "resume", at |-> "append", index |-> 0, then |-> "none"]
             ELSE [task |-> "resume", at |-> "hydrated", index |-> 0, then |-> "none"]
    /\ UNCHANGED <<marker, ledger, reported, nextID, boots, faults>>

\* With the batch stored the stop goes on from it, otherwise the interruption is
\* recorded as a gap.
ResumeRun ==
    /\ At("hydrated")
    /\ \/ /\ mem.journal.batch /\ op' = Idle /\ Well /\ UNCHANGED marker
          /\ mem' = [mem EXCEPT !.phase = "stopping"]
       \/ /\ ~mem.journal.batch /\ UNCHANGED mem /\ marker' = Marked("recovering") /\ Well
          /\ op' = [task |-> "recover", at |-> "step", index |-> 1, then |-> "none"]
       \/ /\ ~mem.journal.batch /\ op' = Down /\ Fault /\ UNCHANGED <<marker, mem>>
    /\ UNCHANGED <<files, ledger, reported, nextID, boots>>

FinishRecovery ==
    /\ op.task = "recover" /\ StepsDone
    /\ \/ marker' = Marked("recovering") /\ op' = Idle /\ Well
       \/ Fault /\ op' = Down /\ UNCHANGED marker
    /\ UNCHANGED <<files, ledger, mem, reported, nextID, boots>>

-----------------------------------------------------------------------------
Next ==
    \/ RemoveObsolete \/ WriteJournal \/ MarkJournal \/ SweepJournals
    \/ BeginStep \/ AppendRecord \/ CompleteStep \/ AfterStep
    \/ BeginStart \/ FinishStart \/ BeginStop \/ StoreBatch \/ StoreStopped \/ ReportStopped
    \/ Crash \/ Recover \/ ResumeRun \/ FinishRecovery

Spec == Init /\ [][Next]_journalVars

-----------------------------------------------------------------------------
\* The journal a marker names is on disk, and every fact it calls completed is in
\* the ledger, so a crash between any two writes can be recovered from.
MarkerIsRecoverable ==
    marker.ref.written => marker.ref \in files /\ Restorable(marker.ref)

\* A fact is appended to the ledger once, however often the step that records it
\* is retried or resumed, and evidence holds no fact the ledger lacks.
FactsRecordedOnce ==
    /\ \A i, j \in DOMAIN ledger : ledger[i].key = ledger[j].key => i = j
    /\ \A s \in mem.evidence : \E i \in DOMAIN ledger : ledger[i] = s

\* The evidence Stop has returned is what a restart would restore.
ReportedIsRestored ==
    (reported /\ op = Idle) =>
        mem.evidence \subseteq marker.ref.evidence \cup {marker.ref.pending}

\* A stop is refused for a step that is still pending only in the process whose
\* failed write left it pending while the collector started: a restart clears it.
WedgeEndsWithRestart ==
    (op.task = "stop" /\ At("step") /\ mem.journal.pending # NoStep
       /\ mem.journal.pending.key \notin {<<"final", 0>>, <<"stopped", 0>>})
        => boots = 0 /\ faults > 0
=============================================================================
