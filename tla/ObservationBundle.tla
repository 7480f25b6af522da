--------------------------- MODULE ObservationBundle ---------------------------
(***************************************************************************)
(* How the result of one run becomes an immutable bundle: the lossless     *)
(* checkpoint of it (orchestration/run_evidence_persistence.go), the rules *)
(* a bundle has to satisfy (observationbundle/build.go), the finalizer     *)
(* that publishes object, sealed metadata and commit marker one by one     *)
(* (finalizer.go), and the material authority that captures the bundle     *)
(* (localmaterial).  Two requests, the client's and the reaper's, may      *)
(* finalize the run; the process may crash between any two writes.         *)
(***************************************************************************)
EXTENDS Naturals, Sequences, FiniteSets

LOCAL INSTANCE SequencesExt

CONSTANTS
    Requests,       \* the goroutines that finalize the run
    Collectors,     \* of the one required signal family
    MaxCrashes, MaxFaults

FirstCursor == 1
LastCursor == 2
BundleCursors == FirstCursor..LastCursor
Cursors == 0..3         \* 0: none; 3: past the bundle
Gap(c) == [cursor |-> c]

VARIABLES
    result,         \* what the run produced, in memory
    checkpoint,     \* the persisted form of it
    objects, sealed, marker,    \* the finalizer's files
    captured, request,          \* the authority's objects and request marker
    workers, gate, crashes, faults

bundleVars == <<result, checkpoint, objects, sealed, marker, captured, request,
                workers, gate, crashes, faults>>

-------------------------------------------------------------------------------
(* Results.                                                                *)

Item(required, ok, gaps, dropped) ==
    [required |-> required, available |-> ok, gaps |-> gaps, dropped |-> dropped]
Items == { Item(r, ok, gaps, d) : r \in BOOLEAN, ok \in BOOLEAN,
                                  gaps \in {{}, {Gap(1)}}, d \in BOOLEAN }
Sound(outcome, coverage, gaps, incidents) ==
    [outcome |-> outcome, artifacts |-> <<"raw">>, events |-> {1}, metrics |-> {},
     coverage |-> coverage, gaps |-> gaps, incidents |-> incidents,
     citations |-> {[cursor |-> 1, artifact |-> "raw"]}]
Full == [c \in Collectors |-> Item(TRUE, TRUE, {}, FALSE)]

\* Every outcome and coverage with sound evidence, and full coverage with
\* evidence that is unsound in one way.
Results ==
    LET whole == Sound("completed", Full, {}, <<>>) IN
    { Sound(o, cov, gaps, inc) : o \in {"completed", "failed"}, cov \in [Collectors -> Items],
                                 gaps \in {{}, {Gap(1)}}, inc \in {<<>>, <<"i">>} }
    \cup { [whole EXCEPT !.artifacts = s] : s \in {<<>>, <<"raw", "raw">>} }
    \cup { [whole EXCEPT !.events = s] : s \in {{}, {3}} }
    \cup { [whole EXCEPT !.metrics = s] : s \in {{2}, {3}} }
    \cup { [whole EXCEPT !.gaps = {Gap(c)}] : c \in Cursors }
    \cup { [whole EXCEPT !.incidents = <<"i", "i">>] }
    \cup { [whole EXCEPT !.citations = s] :
             s \in {{}, {[cursor |-> 3, artifact |-> "raw"]}, {[cursor |-> 0, artifact |-> "other"]}} }

-------------------------------------------------------------------------------
(* The checkpoint.                                                         *)

\* persistedGapReference: the digest of the gap.
Reference(g) == [digest |-> g]

\* persistCoverageReferencing keeps a gap once, in the result, and refers to it
\* from the coverage; a gap that is not there is refused.
Persistable(r) == \A c \in Collectors : r.coverage[c].gaps \subseteq r.gaps
PersistCoverage(r) ==
    [c \in Collectors |-> [r.coverage[c] EXCEPT !.gaps = { Reference(g) : g \in @ }]]

\* persistTargetRunResult
Persisted(r) == [r EXCEPT !.coverage = PersistCoverage(r)]

\* Faulty variant: restored coverage keeps the gap only of required collectors.
RestoreCoverageRequired(p) ==
    [c \in Collectors |->
        [p.coverage[c] EXCEPT !.gaps = { g \in p.gaps : Reference(g) \in @ /\ p.coverage[c].required }]]

\* restoreCoverageReferencing
RestoreCoverage(p) ==
    [c \in Collectors |-> [p.coverage[c] EXCEPT !.gaps = { g \in p.gaps : Reference(g) \in @ }]]

\* persistedTargetRunResult.restore
Restored(p) == [p EXCEPT !.coverage = RestoreCoverage(p)]

-------------------------------------------------------------------------------
(* build.                                                                  *)

ValidArtifacts(r) ==
    /\ r.artifacts # <<>>
    /\ \A i, j \in DOMAIN r.artifacts : r.artifacts[i] = r.artifacts[j] => i = j
ValidEvents(r) == r.events # {} /\ r.events \subseteq BundleCursors
ValidMetrics(r) == r.metrics \subseteq BundleCursors
ValidGaps(r) == \A g \in r.gaps : g.cursor = 0 \/ g.cursor \in BundleCursors

Acceptable(item) == item.required /\ item.available
FailedWithEvidence(item) == item.required /\ ~item.available /\ (item.gaps # {} \/ item.dropped)

\* Faulty variant: any collector of the family will do.
ValidCoverageOfAny(r) ==
    LET acceptable == \E c \in Collectors : r.coverage[c].available
        explained == \E c \in Collectors : FailedWithEvidence(r.coverage[c]) IN
    /\ \A c \in Collectors : r.coverage[c].gaps \subseteq r.gaps
    /\ r.outcome = "completed" => acceptable
    /\ r.outcome = "failed" /\ ~acceptable => explained /\ r.incidents # <<>>

\* validateCoverage of the required family.
ValidCoverage(r) ==
    LET acceptable == \E c \in Collectors : Acceptable(r.coverage[c])
        explained == \E c \in Collectors : FailedWithEvidence(r.coverage[c]) IN
    /\ \A c \in Collectors : r.coverage[c].gaps \subseteq r.gaps
    /\ r.outcome = "completed" => acceptable
    /\ r.outcome = "failed" /\ ~acceptable => explained /\ r.incidents # <<>>

ValidIncidents(r) ==
    /\ r.outcome = "failed" => r.incidents # <<>>
    /\ \A i, j \in DOMAIN r.incidents : r.incidents[i] = r.incidents[j] => i = j

ValidSummary(r) ==
    /\ r.citations # {}
    /\ \A c \in r.citations :
         /\ c.cursor = 0 \/ c.cursor \in BundleCursors
         /\ \E i \in DOMAIN r.artifacts : r.artifacts[i] = c.artifact

Builds(r) ==
    /\ ValidArtifacts(r) /\ ValidEvents(r) /\ ValidMetrics(r) /\ ValidGaps(r)
    /\ ValidCoverage(r) /\ ValidIncidents(r) /\ ValidSummary(r)

-------------------------------------------------------------------------------
(* The finalizer.                                                          *)

None == [outcome |-> "none"]

\* metadataPayload sorts every list, so that equal results are equal bytes.
Content(r) == [r EXCEPT !.artifacts = ToSet(@), !.incidents = ToSet(@)]

Init ==
    /\ result \in Results
    /\ checkpoint = None
    /\ objects = {} /\ sealed = None /\ marker = None
    /\ captured = {} /\ request = None
    /\ workers = [w \in Requests |-> "idle"] /\ gate = TRUE
    /\ crashes = 0 /\ faults = 0

Well == UNCHANGED faults
Fault == faults < MaxFaults /\ faults' = faults + 1
Goes(w, pc) == workers' = [workers EXCEPT ![w] = pc]

\* prepareStoppedBundle checkpoints the result before anything is published; the
\* failure incident it intends, raised once under its own key, counts as cited.
Checkpoint ==
    /\ checkpoint = None /\ result # None /\ Persistable(result)
    /\ checkpoint' = Persisted(result)
    /\ UNCHANGED <<result, objects, sealed, marker, captured, request, workers, gate, crashes, faults>>

\* After a crash the result is what the checkpoint restores.
Restore ==
    /\ checkpoint # None /\ result = None
    /\ result' = Restored(checkpoint)
    /\ UNCHANGED <<checkpoint, objects, sealed, marker, captured, request, workers, gate, crashes, faults>>

Kept == UNCHANGED <<result, checkpoint, crashes>>

\* Finalize takes the gate and builds; a deadline may pass while it waits.
Begin(w) ==
    /\ workers[w] = "idle" /\ checkpoint # None /\ result # None /\ gate
    /\ \/ Builds(result) /\ gate' = FALSE /\ Goes(w, "load")
       \/ ~Builds(result) /\ UNCHANGED gate /\ Goes(w, "refused")
    /\ Well /\ Kept /\ UNCHANGED <<objects, sealed, marker, captured, request>>

\* loadMetadata: an equal bundle only lacks its marker, another is a conflict.
LoadSealed(w) ==
    /\ workers[w] = "load"
    /\ \/ sealed = None /\ Goes(w, "object") /\ UNCHANGED gate
       \/ sealed = Content(result) /\ Goes(w, "marker") /\ UNCHANGED gate
       \/ sealed \notin {None, Content(result)} /\ Goes(w, "refused") /\ gate' = TRUE
    /\ Well /\ Kept /\ UNCHANGED <<objects, sealed, marker, captured, request>>

Abort(w) == Goes(w, "idle") /\ gate' = TRUE /\ Fault

\* ensureImmutableFile: the object by its digest.
EnsureObject(w) ==
    /\ workers[w] = "object"
    /\ \/ objects' = objects \cup {Content(result)} /\ Goes(w, "seal") /\ Well /\ UNCHANGED gate
       \/ UNCHANGED objects /\ Abort(w)
    /\ Kept /\ UNCHANGED <<sealed, marker, captured, request>>

\* Faulty variant: the marker goes first.
SealLate(w) ==
    /\ workers[w] = "seal" /\ Well
    /\ marker' = Content(result) /\ Goes(w, "marker")
    /\ Kept /\ UNCHANGED <<objects, sealed, captured, request, gate>>

Seal(w) ==
    /\ workers[w] = "seal"
    /\ \/ sealed' = Content(result) /\ Goes(w, "marker") /\ Well /\ UNCHANGED gate
       \/ UNCHANGED sealed /\ Abort(w)
    /\ Kept /\ UNCHANGED <<objects, marker, captured, request>>

\* ensureCommitMarker; the gate is released.
Commit(w) ==
    /\ workers[w] = "marker"
    /\ \/ marker' = Content(result) /\ Goes(w, "capture") /\ Well /\ gate' = TRUE
       \/ UNCHANGED marker /\ Abort(w)
    /\ Kept /\ UNCHANGED <<objects, sealed, captured, request>>

\* Open of the sealed content compares it with its digest.
Opens == sealed = Content(result)

\* CaptureObservationBundle: the object, then the marker of the request.
Capture(w) ==
    /\ workers[w] = "capture" /\ Opens
    /\ \/ captured' = captured \cup {Content(result)} /\ Goes(w, "request") /\ Well
       \/ UNCHANGED captured /\ Goes(w, "idle") /\ Fault
    /\ Kept /\ UNCHANGED <<objects, sealed, marker, request, gate>>

EnsureRequest(w) ==
    /\ workers[w] = "request"
    /\ \/ request \in {None, Content(result)} /\ request' = Content(result) /\ Goes(w, "done") /\ Well
       \/ request \notin {None, Content(result)} /\ UNCHANGED request /\ Goes(w, "refused") /\ Well
       \/ UNCHANGED request /\ Goes(w, "idle") /\ Fault
    /\ Kept /\ UNCHANGED <<objects, sealed, marker, captured, gate>>

Crash ==
    /\ checkpoint # None /\ crashes < MaxCrashes /\ crashes' = crashes + 1
    /\ result' = None /\ workers' = [w \in Requests |-> "idle"] /\ gate' = TRUE
    /\ UNCHANGED <<checkpoint, objects, sealed, marker, captured, request, faults>>

Finalize(w) ==
    \/ Begin(w) \/ LoadSealed(w) \/ EnsureObject(w) \/ Seal(w) \/ Commit(w)
    \/ Capture(w) \/ EnsureRequest(w)

Next == Checkpoint \/ Restore \/ (\E w \in Requests : Finalize(w)) \/ Crash

Spec == Init /\ [][Next]_bundleVars
Fairness ==
    /\ WF_bundleVars(Checkpoint) /\ WF_bundleVars(Restore)
    /\ WF_bundleVars(\E w \in Requests : Finalize(w))

-------------------------------------------------------------------------------

TypeOK ==
    /\ workers \in [Requests -> {"idle", "load", "object", "seal", "marker", "capture",
                                 "request", "done", "refused"}]
    /\ gate \in BOOLEAN

(* "lossless, restart-safe representation" (run_evidence_persistence.go:   *)
(* 16): what is sealed, and what the authority captured, is the result the *)
(* checkpoint restores, whoever finalized it and however often; a commit   *)
(* marker never stands without its object and its sealed metadata.         *)
BundleIsTheCheckpoint ==
    /\ sealed # None => sealed = Content(Restored(checkpoint)) /\ sealed \in objects
    /\ marker # None => marker = sealed
    /\ request # None => request = marker /\ request \in captured
    /\ result # None /\ checkpoint # None => result = Restored(checkpoint)

(* A sealed bundle of a completed run has a required collector with        *)
(* evidence; one of a failed run that has none cites an incident and shows *)
(* what was lost, in a gap of the bundle or a count of dropped records     *)
(* (build.go validateCoverage).                                            *)
SealedIsJustified ==
    sealed # None =>
        LET covered == \E c \in Collectors : sealed.coverage[c].required /\ sealed.coverage[c].available
            shown == \E c \in Collectors :
                        \/ sealed.coverage[c].dropped
                        \/ sealed.coverage[c].gaps # {} /\ sealed.coverage[c].gaps \subseteq sealed.gaps IN
        \/ covered
        \/ sealed.outcome = "failed" /\ sealed.incidents # {} /\ shown

(* What was sealed, committed or captured stays what it is.                *)
KeepsPublished ==
    /\ sealed # None => sealed' = sealed
    /\ marker # None => marker' = marker
    /\ request # None => request' = request
PublishedIsFinal == [][KeepsPublished]_bundleVars

(* A checkpoint that builds is captured, across crashes and failed writes, *)
(* because every retry publishes the same bytes.                           *)
BundleIsCaptured ==
    (checkpoint # None /\ Builds(Restored(checkpoint))) ~> (request # None)
===============================================================================
