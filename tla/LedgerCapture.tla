------------------------------ MODULE LedgerCapture ---------------------------
(***************************************************************************)
(* One capture of a lease: the service's record of it                      *)
(* (internal/orchestration/capture_export.go), the controller that cuts a  *)
(* document out of the observation ledger (ledger_capture.go) and the      *)
(* material authority that publishes it once per idempotency key           *)
(* (internal/localmaterial).  A start, a stop by the client and the stops  *)
(* of lease termination overlap; each is several durable writes, between   *)
(* which the process may crash or a write fail.                            *)
(***************************************************************************)
EXTENDS Naturals

CONSTANTS
    MaxHead,        \* bound on the records of the ledger
    MaxRecords,     \* records a document may hold
    MaxCrashes, MaxFaults

VARIABLES
    head,           \* records of the lease in the ledger
    capture,        \* the service's record: state, revision, artifact
    reservation,    \* of stop_capture: the key and the revision it is signed for
    stored,         \* the controller's record: state, cursor, artifact
    marker,         \* the authority's request marker of the stop: the document
    starter,        \* the start request under way
    stopper,        \* the stop requests under way
    terminating,    \* the lease is being terminated
    crashes, faults

durableVars == <<capture, reservation, stored, marker>>
captureVars == <<head, durableVars, starter, stopper, terminating, crashes, faults>>

NoDocument == [taken |-> 0, of |-> 0, truncated |-> FALSE]
NoMarker == [published |-> FALSE, document |-> NoDocument]
Free == [key |-> "none", revision |-> 0]
Stoppers == {"client", "reaper"}
Idle == [pc |-> "idle", key |-> "none", revision |-> 0, seen |-> "none",
         artifact |-> NoDocument]

Init ==
    /\ head = 0
    /\ capture = [state |-> "none", revision |-> 0, artifact |-> NoDocument]
    /\ reservation = Free
    /\ stored = [state |-> "none", after |-> 0, artifact |-> NoDocument]
    /\ marker = NoMarker
    /\ starter = "idle" /\ stopper = [s \in Stoppers |-> Idle]
    /\ terminating = FALSE /\ crashes = 0 /\ faults = 0

Well == UNCHANGED faults
Fault == faults < MaxFaults /\ faults' = faults + 1

Observe ==
    /\ head < MaxHead
    /\ head' = head + 1
    /\ UNCHANGED <<durableVars, starter, stopper, terminating, crashes, faults>>

Apart == UNCHANGED <<head, terminating, crashes>>

\* The controller's lock is not held by a stop between its reads and its record.
Unlocked == \A s \in Stoppers : stopper[s].pc \notin {"publish", "persist"}

-------------------------------------------------------------------------------
(* Starting.                                                               *)

\* replayOrResumeCapture: an active or completed one is only returned.
Resumable == capture.state \in {"starting", "failed"}

\* startCapture records the capture as starting; the same request again
\* resumes it.
StartCapture ==
    /\ starter = "idle" /\ ~terminating
    /\ \/ /\ capture.state = "none"
          /\ capture' = [capture EXCEPT !.state = "starting", !.revision = 1]
       \/ Resumable /\ UNCHANGED capture
    /\ starter' = "physical"
    /\ Well /\ UNCHANGED <<reservation, stored, marker, stopper>> /\ Apart

\* The scope has changed, policy refuses, or normalizeLedgerCapturePlan does.
PlanRefused == starter' = "refused" /\ UNCHANGED stored /\ Fault

\* Start of the controller notes the head of the ledger; a replay changes
\* nothing.
ControllerStart ==
    /\ starter = "physical" /\ Unlocked
    /\ \/ /\ stored' = IF stored.state = "none"
                       THEN [stored EXCEPT !.state = "started", !.after = head] ELSE stored
          /\ starter' = "started" /\ Well
       \/ PlanRefused
    /\ UNCHANGED <<capture, reservation, marker, stopper>> /\ Apart

\* resumeCapture records how it went, unless the capture has moved on.
ResumeCapture ==
    /\ starter \in {"started", "refused"} /\ starter' = "idle"
    /\ \/ /\ capture.state \notin {"active", "completed"} /\ Well
          /\ capture' = [capture EXCEPT !.revision = @ + 1,
                            !.state = IF starter = "started" THEN "active" ELSE "failed"]
       \/ capture.state \in {"active", "completed"} /\ UNCHANGED capture /\ Well
       \/ UNCHANGED capture /\ Fault
    /\ UNCHANGED <<reservation, stored, marker, stopper>> /\ Apart

-------------------------------------------------------------------------------
(* Stopping: the client's request and the reaper's, each a goroutine.      *)

TerminateLease ==
    /\ ~terminating /\ capture.state # "none"
    /\ terminating' = TRUE
    /\ UNCHANGED <<head, durableVars, starter, stopper, crashes, faults>>

\* Faulty variant: termination always stops under a key of its own.
TerminationKeyOfItsOwn == "reaper"

\* captureTerminationMeta
TerminationKey == IF reservation = Free THEN "reaper" ELSE reservation.key

Steps(s, pc) == stopper' = [stopper EXCEPT ![s].pc = pc]
Returns(s, d) == stopper' = [stopper EXCEPT ![s].pc = "record", ![s].artifact = d]
Ends(s) == stopper' = [stopper EXCEPT ![s] = Idle]

StopBegins(s, key) ==
    /\ stopper[s].pc = "idle"
    /\ stopper' = [stopper EXCEPT ![s] =
          [pc |-> "reserve", key |-> key, revision |-> capture.revision,
           seen |-> capture.state, artifact |-> NoDocument]]
    /\ Well /\ UNCHANGED <<durableVars, starter>> /\ Apart

\* A client may stop only an active capture.
StopCapture == capture.state = "active" /\ StopBegins("client", "client")

StopLeaseCaptures ==
    /\ terminating /\ capture.state \in {"starting", "active", "failed"}
    /\ StopBegins("reaper", TerminationKey)

\* reserveOperation: the capture has one stop, of one key and one revision.
Reserve(s) ==
    LET wanted == [key |-> stopper[s].key, revision |-> stopper[s].revision] IN
    /\ stopper[s].pc = "reserve"
    /\ \/ reservation \in {Free, wanted} /\ reservation' = wanted /\ Steps(s, "read") /\ Well
       \/ reservation \notin {Free, wanted} /\ UNCHANGED reservation /\ Ends(s) /\ Well
       \/ reservation = Free /\ UNCHANGED reservation /\ Ends(s) /\ Fault
    /\ UNCHANGED <<capture, stored, marker, starter>> /\ Apart

\* Stop of the controller: what is published is restored, a capture it never
\* started is not found; that completes a termination which saw it starting or
\* failed.
StopReads(s) ==
    /\ stopper[s].pc = "read" /\ Unlocked
    /\ \/ stored.state = "published" /\ Returns(s, stored.artifact)
       \/ /\ stored.state = "none"
          /\ IF s = "reaper" /\ stopper[s].seen \in {"starting", "failed"}
             THEN Returns(s, NoDocument) ELSE Ends(s)
       \/ stored.state = "started" /\ Steps(s, "publish")
    /\ Well /\ UNCHANGED <<durableVars, starter>> /\ Apart

\* Faulty variant: the byte limit drops records without saying so.
DocumentsUnmarked ==
    LET n == head - stored.after
        most == IF n < MaxRecords THEN n ELSE MaxRecords IN
    { [taken |-> k, of |-> n, truncated |-> most < n] : k \in 0..most }

\* readCaptureRecords takes the records since the start, up to a number of them;
\* marshalCaptureDocument drops the last ones until the bytes fit.
Documents ==
    LET n == head - stored.after
        most == IF n < MaxRecords THEN n ELSE MaxRecords IN
    { [taken |-> k, of |-> n, truncated |-> k < n] : k \in 0..most }

\* ensureRequest keeps the first marker of the key.  Every document holds the
\* time of its stop, so none equals an earlier one.
EnsureRequest(d) == marker = NoMarker /\ marker' = [published |-> TRUE, document |-> d]

\* CaptureOutputs stores the document, then its marker.
CaptureOutputs(s) ==
    \/ Well /\ Steps(s, "persist") /\ \E d \in Documents : EnsureRequest(d)
    \/ marker # NoMarker /\ Well /\ Ends(s) /\ UNCHANGED marker
    \/ Fault /\ Ends(s) /\ UNCHANGED marker

Publish(s) ==
    /\ stopper[s].pc = "publish"
    /\ CaptureOutputs(s)
    /\ UNCHANGED <<capture, reservation, stored, starter>> /\ Apart

\* The controller records the artifact.
Persist(s) ==
    /\ stopper[s].pc = "persist"
    /\ \/ /\ stored' = [stored EXCEPT !.state = "published", !.artifact = marker.document]
          /\ Returns(s, marker.document) /\ Well
       \/ UNCHANGED stored /\ Ends(s) /\ Fault
    /\ UNCHANGED <<capture, reservation, marker, starter>> /\ Apart

\* stopCaptureRecord writes the record it read, completed, unless another stop
\* has completed it.  The artifact is what Stop returned.
Record(s) ==
    /\ stopper[s].pc = "record" /\ Ends(s)
    /\ \/ /\ capture.state # "completed" /\ Well
          /\ capture' = [state |-> "completed", revision |-> stopper[s].revision + 1,
                         artifact |-> stopper[s].artifact]
       \/ capture.state = "completed" /\ UNCHANGED capture /\ Well
       \/ UNCHANGED capture /\ Fault
    /\ UNCHANGED <<reservation, stored, marker, starter>> /\ Apart

\* load of the controller and of the service read back what was written.
Crash ==
    /\ crashes < MaxCrashes
    /\ crashes' = crashes + 1
    /\ starter' = "idle" /\ stopper' = [s \in Stoppers |-> Idle]
    /\ UNCHANGED <<head, durableVars, terminating, faults>>

Start == StartCapture \/ ControllerStart \/ ResumeCapture
Stop(s) == Reserve(s) \/ StopReads(s) \/ Publish(s) \/ Persist(s) \/ Record(s)
Settled ==
    /\ capture.state = "completed" /\ starter = "idle"
    /\ \A s \in Stoppers : stopper[s] = Idle
    /\ UNCHANGED captureVars

Next ==
    \/ Observe
    \/ Start
    \/ TerminateLease
    \/ StopCapture \/ StopLeaseCaptures
    \/ \E s \in Stoppers : Stop(s)
    \/ Crash
    \/ Settled

Spec == Init /\ [][Next]_captureVars

(* A request under way goes on, and the reaper of expired leases retries.  *)
Fairness ==
    /\ WF_captureVars(ControllerStart \/ ResumeCapture)
    /\ \A s \in Stoppers : WF_captureVars(Stop(s))
    /\ WF_captureVars(StopLeaseCaptures)

-------------------------------------------------------------------------------

TypeOK ==
    /\ head \in 0..MaxHead
    /\ capture.state \in {"none", "starting", "active", "failed", "completed"}
    /\ stored.state \in {"none", "started", "published"} /\ stored.after \in 0..MaxHead
    /\ marker.published \in BOOLEAN
    /\ starter \in {"idle", "physical", "started", "refused"}
    /\ \A s \in Stoppers :
          stopper[s].pc \in {"idle", "reserve", "read", "publish", "persist", "record"}

(* A completed capture names the document that was published under its     *)
(* key, and that document says when it leaves records out; it names none   *)
(* only if termination found that the controller had not started it.       *)
CompletedNamesDocument ==
    capture.state = "completed" =>
        \/ /\ stored.state = "published" /\ capture.artifact = stored.artifact
           /\ stored.artifact = marker.document
           /\ capture.artifact.truncated = (capture.artifact.taken < capture.artifact.of)
        \/ capture.artifact = NoDocument /\ marker = NoMarker

(* A capture that was published is not published again with other content  *)
(* (localmaterial/authority.go ensureRequest).                             *)
KeepsDocument == marker.published => marker'.document = marker.document
PublishedOnce == [][KeepsDocument]_captureVars

\* The stop was cut off between the publication and the controller's record, or
\* between its reservation and the end of a start that changed the revision.
Stranded ==
    \/ marker.published /\ stored.state = "started" /\ Unlocked
    \/ reservation # Free /\ reservation.revision # capture.revision

(* Lease termination completes the capture, unless an earlier stop left it *)
(* stranded.                                                               *)
TerminationStopsCapture ==
    terminating ~> (capture.state = "completed" \/ Stranded)

(* "Manufacturing a lease-reaper key in that case would conflict with the  *)
(* durable reservation and strand termination forever"                     *)
(* (capture_export.go:300-301): once a stop has crossed the physical       *)
(* boundary, and no start is under way that could change the revision it   *)
(* reserved, termination completes the capture.                            *)
TerminationNeverStrands ==
    (/\ terminating /\ marker.published /\ starter = "idle"
     /\ reservation.revision = capture.revision) ~> (capture.state = "completed")
===============================================================================
