------------------------------ MODULE MCRecords ------------------------------
(***************************************************************************)
(* Model-checking instance of what the daemon records: the ledger, the     *)
(* observers' journals and outputs, action evidence, run bundles, ledger   *)
(* captures, live snapshots, the input cache and the service's own state.  *)
(* The components share no variables, so one run explores them side by     *)
(* side: focus, chosen once, is the component that takes the steps.        *)
(***************************************************************************)
EXTENDS Integers, Sequences

CONSTANTS d1, d2        \* contents of the input cache

VARIABLES focus,
          files, renamed, phase, segments, active, head, lastRec, seen, failed, op,
          subs, acked, faults, contained, start, proc, tree, stream, sup, rec, stop,
          answer, attempt, load, capture, early, dir, objects, pending, writing,
          exceeded, committed, met, marker, ledger, mem, reported, nextID, boots,
          class, level, pid, disk, open, session, pc, stopping, watchdog, crashes,
          result, checkpoint, sealed, captured, request, workers, gate, reservation,
          stored, starter, stopper, terminating, scope, cursor, view, lost, client,
          gapped, content, views, expired, staging, pins, saved, callers, builds,
          collect, durable, memory, marked, wedged, caller, bundles, requests

\* The goroutines that call a component at once, and the views of the cache and the
\* stoppers of a capture that stand for them.
Waiters == {"k1", "k2"}
MCStopper == [k1 |-> "client", k2 |-> "reaper"]
MCView == [k1 |-> {d1}, k2 |-> {d1, d2}]
Ledger == INSTANCE Ledger WITH
    Sequences_ <- {1, 3}, Subscribers <- {"s1"}, Capacity <- 2, MaxSegment <- 2,
    Window <- 1, MaxCursor <- 3, MaxFaults <- 2
Collector == INSTANCE CollectorSupervisor WITH
    Callers <- Waiters, MaxFaults <- 1
Output == INSTANCE CollectorOutput WITH
    Collectors <- {"c1", "c2"}, MaximumBytes <- 1, MaxFaults <- 1
Journal == INSTANCE ObserverJournal WITH
    MaxFaults <- 2, MaxCrashes <- 1
Action == INSTANCE ActionEvidence WITH
    Classes <- {"browser", "binary_exec"}, Profiles <- {"payload"}, MaxFaults <- 1, MaxCrashes <- 0
Ambient == INSTANCE ActionEvidence WITH
    Classes <- {"binary_exec"}, Profiles <- {"none"}, MaxFaults <- 1, MaxCrashes <- 1
Bundle == INSTANCE ObservationBundle WITH
    Requests <- Waiters, Collectors <- {"c1", "c2"}, MaxCrashes <- 0, MaxFaults <- 1
Lone == INSTANCE ObservationBundle WITH
    Requests <- Waiters, Collectors <- {"c1"}, MaxCrashes <- 1, MaxFaults <- 1
Capture == INSTANCE LedgerCapture WITH
    MaxHead <- 2, MaxRecords <- 1, MaxCrashes <- 1, MaxFaults <- 1
Snapshot == INSTANCE LiveSnapshot WITH
    SubjectIDs <- {"a", "b", "c"}, LeaseIDs <- {"l1", "l2"},
    Families <- {"topology", "metrics"}, MaxCursor <- 3, Buffer <- 1
Cache == INSTANCE InputCache WITH
    Callers <- Waiters, Contents <- {d1, d2}, Views <- {MCView[k] : k \in Waiters},
    High <- 3, Low <- 2, MaxCrashes <- 0, MaxFaults <- 1
Crashed == INSTANCE InputCache WITH
    Callers <- Waiters, Contents <- {d1, d2}, Views <- {MCView[k] : k \in Waiters},
    High <- 3, Low <- 2, MaxCrashes <- 1, MaxFaults <- 0
Service == INSTANCE ServiceState WITH
    Callers <- Waiters, Keys <- {"a", "b"}, Runs <- {1}, Captures <- {1},
    Exports <- {1}, MaxBundle <- 2, MaxRequests <- 3, MaxCrashes <- 1, MaxFaults <- 1

ownLedger == <<renamed, segments, lastRec, seen, failed, subs, acked>>
ownCollector == <<contained, start, proc, tree, sup, rec, stop, answer, attempt, load,
                  early>>
ownOutput == <<dir, pending, writing, exceeded, committed, met>>
ownJournal == <<ledger, mem, reported, nextID, boots>>
ownAction == <<class, level, pid, disk, open, session, pc, stopping, watchdog>>
ownBundle == <<result, checkpoint, sealed, captured, request, workers, gate>>
ownCapture == <<reservation, stored, starter, stopper, terminating>>
ownSnapshot == <<scope, cursor, view, lost, client, gapped>>
ownCache == <<content, views, expired, staging, pins, saved, callers, builds, collect>>
ownService == <<durable, memory, marked, wedged, caller, bundles, requests>>
shared == <<files, phase, active, head, op, faults, stream, capture, objects, marker,
            crashes>>
sumVars == <<focus, shared, ownLedger, ownCollector, ownOutput, ownJournal, ownAction, ownBundle,
             ownCapture, ownSnapshot, ownCache, ownService>>

\* The actions are explored with failing writes for either class of stimulus,
\* and with failing writes and a crash for one that names no profile; the bundle
\* with two collectors and failing writes, and with one and a crash as well; the
\* cache with failing builds, and with a crash.
Actions == {"action", "ambient"}
Bundles == {"bundle", "lone"}
Caches == {"cache", "crashed"}

\* What the variables of a component hold while another one runs.
Unused == "unused"
RestLedger == /\ renamed = Unused /\ segments = Unused /\ lastRec = Unused
              /\ seen = Unused /\ failed = Unused /\ subs = Unused /\ acked = Unused
RestCollector == /\ contained = Unused /\ start = Unused /\ proc = Unused
                 /\ tree = Unused /\ sup = Unused /\ rec = Unused /\ stop = Unused
                 /\ answer = Unused /\ attempt = Unused /\ load = Unused
                 /\ early = Unused
RestOutput == /\ dir = Unused /\ pending = Unused /\ writing = Unused
              /\ exceeded = Unused /\ committed = Unused /\ met = Unused
RestJournal == /\ ledger = Unused /\ mem = Unused /\ reported = Unused
               /\ nextID = Unused /\ boots = Unused
RestAction == /\ class = Unused /\ level = Unused /\ pid = Unused /\ disk = Unused
              /\ open = Unused /\ session = Unused /\ pc = Unused /\ stopping = Unused
              /\ watchdog = Unused
RestBundle == /\ result = Unused /\ checkpoint = Unused /\ sealed = Unused
              /\ captured = Unused /\ request = Unused /\ workers = Unused
              /\ gate = Unused
RestCapture == /\ reservation = Unused /\ stored = Unused /\ starter = Unused
               /\ stopper = Unused /\ terminating = Unused
RestSnapshot == /\ scope = Unused /\ cursor = Unused /\ view = Unused /\ lost = Unused
                /\ client = Unused /\ gapped = Unused
RestCache == /\ content = Unused /\ views = Unused /\ expired = Unused
             /\ staging = Unused /\ pins = Unused /\ saved = Unused
             /\ callers = Unused /\ builds = Unused /\ collect = Unused
RestService == /\ durable = Unused /\ memory = Unused /\ marked = Unused
               /\ wedged = Unused /\ caller = Unused /\ bundles = Unused
               /\ requests = Unused

InitLedger ==
    /\ focus = "ledger" /\ Ledger!Init
    /\ RestCollector /\ RestOutput /\ RestJournal /\ RestAction /\ RestBundle
    /\ RestCapture /\ RestSnapshot /\ RestCache /\ RestService /\ stream = Unused
    /\ capture = Unused /\ objects = Unused /\ marker = Unused /\ crashes = Unused
InitCollector ==
    /\ focus = "collector" /\ Collector!Init
    /\ RestLedger /\ RestOutput /\ RestJournal /\ RestAction /\ RestBundle
    /\ RestCapture /\ RestSnapshot /\ RestCache /\ RestService /\ files = Unused
    /\ phase = Unused /\ active = Unused /\ head = Unused /\ op = Unused
    /\ objects = Unused /\ marker = Unused /\ crashes = Unused
InitOutput ==
    /\ focus = "output" /\ Output!Init
    /\ RestLedger /\ RestCollector /\ RestJournal /\ RestAction /\ RestBundle
    /\ RestCapture /\ RestSnapshot /\ RestCache /\ RestService /\ files = Unused
    /\ head = Unused /\ stream = Unused /\ capture = Unused /\ marker = Unused
    /\ crashes = Unused
InitJournal ==
    /\ focus = "journal" /\ Journal!Init
    /\ RestLedger /\ RestCollector /\ RestOutput /\ RestAction /\ RestBundle
    /\ RestCapture /\ RestSnapshot /\ RestCache /\ RestService /\ phase = Unused
    /\ active = Unused /\ head = Unused /\ stream = Unused /\ capture = Unused
    /\ objects = Unused /\ crashes = Unused
InitAction ==
    /\ (focus = "action" /\ Action!Init) \/ (focus = "ambient" /\ Ambient!Init)
    /\ RestLedger /\ RestCollector /\ RestOutput /\ RestJournal /\ RestBundle
    /\ RestCapture /\ RestSnapshot /\ RestCache /\ RestService /\ files = Unused
    /\ phase = Unused /\ active = Unused /\ head = Unused /\ op = Unused
    /\ stream = Unused /\ objects = Unused /\ marker = Unused
InitBundle ==
    /\ (focus = "bundle" /\ Bundle!Init) \/ (focus = "lone" /\ Lone!Init)
    /\ RestLedger /\ RestCollector /\ RestOutput /\ RestJournal /\ RestAction
    /\ RestCapture /\ RestSnapshot /\ RestCache /\ RestService /\ files = Unused
    /\ phase = Unused /\ active = Unused /\ head = Unused /\ op = Unused
    /\ stream = Unused /\ capture = Unused
InitCapture ==
    /\ focus = "capture" /\ Capture!Init
    /\ RestLedger /\ RestCollector /\ RestOutput /\ RestJournal /\ RestAction
    /\ RestBundle /\ RestSnapshot /\ RestCache /\ RestService /\ files = Unused
    /\ phase = Unused /\ active = Unused /\ op = Unused /\ stream = Unused
    /\ objects = Unused
InitSnapshot ==
    /\ focus = "snapshot" /\ Snapshot!Init
    /\ RestLedger /\ RestCollector /\ RestOutput /\ RestJournal /\ RestAction
    /\ RestBundle /\ RestCapture /\ RestCache /\ RestService /\ files = Unused
    /\ phase = Unused /\ active = Unused /\ head = Unused /\ op = Unused
    /\ faults = Unused /\ capture = Unused /\ objects = Unused /\ marker = Unused
    /\ crashes = Unused
InitCache ==
    /\ (focus = "cache" /\ Cache!Init) \/ (focus = "crashed" /\ Crashed!Init)
    /\ RestLedger /\ RestCollector /\ RestOutput /\ RestJournal /\ RestAction
    /\ RestBundle /\ RestCapture /\ RestSnapshot /\ RestService /\ files = Unused
    /\ phase = Unused /\ active = Unused /\ head = Unused /\ op = Unused
    /\ stream = Unused /\ capture = Unused /\ objects = Unused /\ marker = Unused
InitService ==
    /\ focus = "service" /\ Service!Init
    /\ RestLedger /\ RestCollector /\ RestOutput /\ RestJournal /\ RestAction
    /\ RestBundle /\ RestCapture /\ RestSnapshot /\ RestCache /\ phase = Unused
    /\ active = Unused /\ head = Unused /\ op = Unused /\ stream = Unused
    /\ capture = Unused /\ objects = Unused /\ marker = Unused
Init == \/ InitLedger \/ InitCollector \/ InitOutput \/ InitJournal \/ InitAction
        \/ InitBundle \/ InitCapture \/ InitSnapshot \/ InitCache \/ InitService

OnlyLedger(A) ==
    /\ focus = "ledger" /\ A
    /\ UNCHANGED <<focus, ownCollector, ownOutput, ownJournal, ownAction, ownBundle,
                  ownCapture, ownSnapshot, ownCache, ownService, stream, capture,
                  objects, marker, crashes>>
OnlyCollector(A) ==
    /\ focus = "collector" /\ A
    /\ UNCHANGED <<focus, ownLedger, ownOutput, ownJournal, ownAction, ownBundle,
                  ownCapture, ownSnapshot, ownCache, ownService, files, phase, active,
                  head, op, objects, marker, crashes>>
OnlyOutput(A) ==
    /\ focus = "output" /\ A
    /\ UNCHANGED <<focus, ownLedger, ownCollector, ownJournal, ownAction, ownBundle,
                  ownCapture, ownSnapshot, ownCache, ownService, files, head, stream,
                  capture, marker, crashes>>
OnlyJournal(A) ==
    /\ focus = "journal" /\ A
    /\ UNCHANGED <<focus, ownLedger, ownCollector, ownOutput, ownAction, ownBundle,
                  ownCapture, ownSnapshot, ownCache, ownService, phase, active, head,
                  stream, capture, objects, crashes>>
OnlyAction(A, B) ==
    /\ (focus = "action" /\ A) \/ (focus = "ambient" /\ B)
    /\ UNCHANGED <<focus, ownLedger, ownCollector, ownOutput, ownJournal, ownBundle,
                  ownCapture, ownSnapshot, ownCache, ownService, files, phase, active,
                  head, op, stream, objects, marker>>
OnlyBundle(A, B) ==
    /\ (focus = "bundle" /\ A) \/ (focus = "lone" /\ B)
    /\ UNCHANGED <<focus, ownLedger, ownCollector, ownOutput, ownJournal, ownAction,
                  ownCapture, ownSnapshot, ownCache, ownService, files, phase, active,
                  head, op, stream, capture>>
OnlyCapture(A) ==
    /\ focus = "capture" /\ A
    /\ UNCHANGED <<focus, ownLedger, ownCollector, ownOutput, ownJournal, ownAction,
                  ownBundle, ownSnapshot, ownCache, ownService, files, phase, active,
                  op, stream, objects>>
OnlySnapshot(A) ==
    /\ focus = "snapshot" /\ A
    /\ UNCHANGED <<focus, ownLedger, ownCollector, ownOutput, ownJournal, ownAction,
                  ownBundle, ownCapture, ownCache, ownService, files, phase, active,
                  head, op, faults, capture, objects, marker, crashes>>
OnlyCache(A, B) ==
    /\ (focus = "cache" /\ A) \/ (focus = "crashed" /\ B)
    /\ UNCHANGED <<focus, ownLedger, ownCollector, ownOutput, ownJournal, ownAction,
                  ownBundle, ownCapture, ownSnapshot, ownService, files, phase,
                  active, head, op, stream, capture, objects, marker>>
OnlyService(A) ==
    /\ focus = "service" /\ A
    /\ UNCHANGED <<focus, ownLedger, ownCollector, ownOutput, ownJournal, ownAction,
                  ownBundle, ownCapture, ownSnapshot, ownCache, phase, active, head,
                  op, stream, capture, objects, marker>>

\* Every component but the action store and the snapshots, which say for
\* themselves when they are settled, may have nothing left to do.
Stopped == focus \notin Actions \cup {"snapshot"} /\ UNCHANGED sumVars

LedgerStep == OnlyLedger(Ledger!Next)
CollectorStep == OnlyCollector(Collector!Next)
OutputStep == OnlyOutput(Output!Next)
JournalStep == OnlyJournal(Journal!Next)
ActionStep == OnlyAction(Action!Next, Ambient!Next)
BundleStep == OnlyBundle(Bundle!Next, Lone!Next)
CaptureStep == OnlyCapture(Capture!Next)
SnapshotStep == OnlySnapshot(Snapshot!Next)
CacheStep == OnlyCache(Cache!Next, Crashed!Next)
ServiceStep == OnlyService(Service!Next)

Next ==
    \/ LedgerStep \/ CollectorStep \/ OutputStep \/ JournalStep \/ ActionStep \/ BundleStep
    \/ CaptureStep \/ SnapshotStep \/ CacheStep \/ ServiceStep \/ Stopped

\* The fairness of the components, a condition of each beside one of every
\* other: only one of them runs.
BeginGoesOn == \/ Action!StartStartables \/ Action!CaptureBefore
               \/ Action!Unwind \/ Action!WriteScaffold
AmbientGoesOn == \/ Ambient!StartStartables \/ Ambient!CaptureBefore
                 \/ Ambient!Unwind \/ Ambient!WriteScaffold
StopsCapture == \E who \in {"watchdog", "seal"} : Action!StopCapture(who)
StopsAmbient == \E who \in {"watchdog", "seal"} : Ambient!StopCapture(who)

Publishing == OnlyBundle(\E k \in Waiters : Bundle!Finalize(k), \E k \in Waiters : Lone!Finalize(k))

Calling(k) ==
    \/ OnlyCollector(Collector!StopStep(k))
    \/ OnlyCache(Cache!Building(k), Crashed!Building(k))
    \/ k = "k1" /\ Publishing
Reading ==
    \/ OnlyLedger(Ledger!TakeDelivery("s1"))
    \/ OnlyAction(BeginGoesOn, AmbientGoesOn)
    \/ OnlyCapture(Capture!ControllerStart \/ Capture!ResumeCapture)
    \/ OnlyBundle(Bundle!Checkpoint, Lone!Checkpoint)
    \/ OnlyCache(Cache!Collecting, Crashed!Collecting)
Waking ==
    \/ OnlyLedger(Ledger!WakeUp("s1"))
    \/ OnlyAction(Action!WatchdogFires, Ambient!WatchdogFires)
    \/ OnlyCapture(Capture!StopLeaseCaptures)
    \/ OnlyBundle(Bundle!Restore, Lone!Restore)
Stopping(k) ==
    \/ k = "k1" /\ OnlyAction(StopsCapture, StopsAmbient)
    \/ OnlyCapture(Capture!Stop(MCStopper[k]))
    \/ OnlyCache(Cache!Expire(MCView[k]), Crashed!Expire(MCView[k]))

Spec ==
    /\ Init /\ [][Next]_sumVars
    /\ WF_sumVars(Reading) /\ WF_sumVars(Waking)
    /\ \A k \in Waiters : WF_sumVars(Calling(k)) /\ WF_sumVars(Stopping(k))

-----------------------------------------------------------------------------
(* Properties                                                              *)

\* Every variable of the component that runs keeps its type.
TypeOK ==
    CASE focus = "ledger"    -> Ledger!TypeOK
      [] focus = "collector" -> Collector!TypeOK
      [] focus = "output"    -> Output!TypeOK
      [] focus = "journal"   -> Journal!TypeOK
      [] focus = "action"    -> Action!TypeOK
      [] focus = "ambient"   -> Ambient!TypeOK
      [] focus = "bundle"    -> Bundle!TypeOK
      [] focus = "lone"      -> Lone!TypeOK
      [] focus = "capture"   -> Capture!TypeOK
      [] focus = "snapshot"  -> Snapshot!TypeOK
      [] focus = "cache"     -> Cache!TypeOK
      [] focus = "crashed"   -> Crashed!TypeOK
      [] focus = "service"   -> Service!TypeOK

\* What is reported is what was recorded.  A collector called available ran to
\* its stop boundary and was published whole (supervisor.go Stop); a manifest
\* names whole objects and says when they were cut; a role of an action has its
\* evidence, and one it misses a gap; a sealed bundle is what its checkpoint
\* restores, with its coverage or an incident; a completed capture names its
\* document; a projection shows exactly what is allowed.
EvidenceIsHonest ==
    CASE focus = "collector" -> /\ Collector!HonestCoverage /\ Collector!ResultIsFinal
                                /\ Collector!LossIsExplained
      [] focus = "output"    -> Output!ManifestNamesObjects /\ Output!LimitIsReported
      [] focus \in Actions   -> Action!RolesAreEarned /\ Action!GapsAreRecorded
      [] focus = "bundle"    -> Bundle!BundleIsTheCheckpoint /\ Bundle!SealedIsJustified
      [] focus = "lone"      -> Lone!BundleIsTheCheckpoint /\ Lone!SealedIsJustified
      [] focus = "capture"   -> Capture!CompletedNamesDocument
      [] focus = "snapshot"  -> Snapshot!SnapshotIsWhole /\ Snapshot!ProjectionIsExact
      [] OTHER               -> TRUE

\* Nothing a reader was shown is lost, left out or repeated: a record that was
\* acknowledged or delivered stays on disk at its cursor, a subscriber misses
\* none, a repeated observation is stored once (store.go, subscription.go); a
\* journaled fact is appended once and a reported one survives a restart; a
\* client that follows a snapshot arrives at the ledger's view.
NothingLostOrRepeated ==
    CASE focus = "ledger"   -> Ledger!ShownIsStored /\ Ledger!StoredOnce /\ Ledger!NothingOmitted
      [] focus = "journal"  -> Journal!FactsRecordedOnce /\ Journal!ReportedIsRestored
      [] focus = "snapshot" -> Snapshot!ClientCatchesUp
      [] OTHER              -> TRUE

\* At every step at which the process can die, what is on disk is what the next
\* start accepts: Open of the ledger but for the one state it names, the
\* journals that markers name, the outputs of the collectors, and the state log
\* of the service, whose memory is its replay.
StateReopens ==
    CASE focus = "ledger"  -> Ledger!Reopens
      [] focus = "journal" -> Journal!MarkerIsRecoverable /\ Journal!WedgeEndsWithRestart
      [] focus = "output"  -> Output!OutputsReconcile
      [] focus = "service" -> Service!ServiceRestarts /\ Service!MemoryIsReplay
      [] OTHER             -> TRUE

\* What was sealed, published, answered or pinned is left as it is: the bundle
\* of an action, the bundle of a run, the document of a capture, the answer to
\* an idempotency key, a pinned view and the content it refers to.
RecordsAreKept ==
    [][CASE focus \in Actions  -> Action!KeepsSealed
         [] focus \in Bundles  -> Bundle!KeepsPublished
         [] focus = "capture"  -> Capture!KeepsDocument
         [] focus = "service"  -> Service!KeepsAnswers
         [] focus \in Caches   -> Cache!KeepsPinned
         [] OTHER              -> TRUE]_sumVars

\* Who waits is answered: a reader with something queued, a caller of Stop or
\* of BuildView, the process of an action's capture, the publication of a
\* bundle that builds, the stop of a terminating lease's capture unless it is
\* stranded; and a view that a crash cut short is collected or pinned.
Served(k) ==
    CASE focus = "ledger" ->
            ~(subs["s1"].waiting /\ (subs["s1"].queue # <<>> \/ subs["s1"].state = "closed"))
      [] focus = "collector" -> stop[k] = "idle"
      [] focus \in Actions   -> "running" \notin capture
      [] focus = "bundle"    ->
            checkpoint = Bundle!None \/ ~Bundle!Builds(Bundle!Restored(checkpoint))
                                     \/ request # Bundle!None
      [] focus = "lone"      ->
            checkpoint = Lone!None \/ ~Lone!Builds(Lone!Restored(checkpoint))
                                   \/ request # Lone!None
      [] focus = "capture"   -> terminating => capture.state = "completed" \/ Capture!Stranded
      [] focus \in Caches    -> callers[k] = Cache!Idle
      [] OTHER               -> TRUE
Collected(k) ==
    focus \in Caches => views[MCView[k]] # "partial" \/ MCView[k] \in pins
WaitersWake == \A k \in Waiters : []<>Served(k) /\ []<>Collected(k)
===============================================================================
