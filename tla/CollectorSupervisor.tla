-------------------------- MODULE CollectorSupervisor --------------------------
(***************************************************************************)
(* One external collector under the process supervisor of                  *)
(* internal/drivers/observer/process: Start crosses the readiness          *)
(* boundary, a goroutine waits for the process while two others copy its   *)
(* streams, and PrepareStop, CancelStopPreparation, Coverage and several   *)
(* concurrent Stops meet on the collector's record.                        *)
(*                                                                         *)
(* The two streams are one: a failure of either has the same effect.       *)
(* Where the starter is the Windows one the process is contained: Kill     *)
(* ends the whole tree and the job proves that it is empty.  The other     *)
(* starter knows the direct child only, and its Wait closes the read ends  *)
(* of the pipes, so a copier that has not drained them by then fails.      *)
(***************************************************************************)
EXTENDS Naturals

CONSTANTS Callers,      \* concurrent callers of Stop
          MaxFaults     \* bound on refused kills, stream errors and failed finalizations

VARIABLES contained,    \* the starter proves the end of the process tree
          start,        \* where Start stands
          proc,         \* the direct process: "none", "live" or "dead"
          tree,         \* a descendant of it lives
          stream,       \* "none", "open", "whole", "failed"
          sup,          \* the supervise goroutine
          rec,          \* the collector's record
          stop,         \* where each caller of Stop stands
          answer,       \* what each caller was last told
          attempt,      \* the caller that performs the stop
          load,         \* what Coverage read and has not yet written back
          capture,      \* the output transaction
          early,        \* history: the process was seen to exit outside a stop boundary
          faults

supervisorVars == <<contained, start, proc, tree, stream, sup, rec, stop, answer, attempt,
                    load, capture, early, faults>>

Nobody == "nobody"
NoResult == [status |-> "none", level |-> "none"]
Available == [status |-> "available", level |-> "full"]
Lost(level) == [status |-> "lost", level |-> level]
Refused(why) == [status |-> why, level |-> "none"]

Records ==
    [stopPrepared : BOOLEAN, stopRequested : BOOLEAN, unexpectedExit : BOOLEAN,
     teardownConfirmed : BOOLEAN, lifecycleErr : BOOLEAN, streamErr : BOOLEAN,
     coverage : {NoResult, Available, Lost("partial"), Lost("none")},
     result : {NoResult, Available, Lost("partial"), Lost("none")}]

NewRecord ==
    [stopPrepared |-> FALSE, stopRequested |-> FALSE, unexpectedExit |-> FALSE,
     teardownConfirmed |-> FALSE, lifecycleErr |-> FALSE, streamErr |-> FALSE,
     coverage |-> NoResult, result |-> NoResult]

TypeOK ==
    /\ contained \in BOOLEAN /\ tree \in BOOLEAN /\ early \in BOOLEAN
    /\ start \in {"idle", "opened", "awaiting", "rolling", "closing", "failed", "ready"}
    /\ proc \in {"none", "live", "dead"}
    /\ stream \in {"none", "open", "whole", "failed"}
    /\ sup \in {"none", "waiting", "exited", "classified", "done"}
    /\ rec \in Records
    /\ stop \in [Callers -> {"idle", "joined", "teardown", "signal", "signal-exited", "await",
                             "grace", "contain", "finalize", "report"}]
    /\ answer \in [Callers -> [status : {"none", "deadline", "unconfirmed", "unfinalized",
                                         "available", "lost"},
                               level : {"full", "partial", "none"}]]
    /\ attempt \in Callers \cup {Nobody}
    /\ load \in {NoResult, Lost("partial"), Lost("none")}
    /\ capture \in {"none", "open", "finalized", "truncated", "aborted"}
    /\ faults \in 0..MaxFaults

Init ==
    /\ contained \in BOOLEAN
    /\ start = "idle" /\ proc = "none" /\ tree = FALSE /\ stream = "none" /\ sup = "none"
    /\ rec = NewRecord /\ stop = [k \in Callers |-> "idle"] /\ answer = [k \in Callers |-> NoResult]
    /\ attempt = Nobody /\ load = NoResult /\ capture = "none" /\ early = FALSE /\ faults = 0

Well == UNCHANGED faults
Fault == faults < MaxFaults /\ faults' = faults + 1

Exited == sup \in {"exited", "classified", "done"}
Done == sup = "done"

-----------------------------------------------------------------------------
\* The process and its streams.

\* The collector ends: by itself, at a signal, or because its target went away.
\* A descendant may outlive it.
ProcessExits ==
    /\ proc = "live" /\ proc' = "dead"
    /\ UNCHANGED <<contained, start, tree, stream, sup, rec, stop, answer, attempt, load,
                   capture, early, faults>>

DescendantAppears ==
    /\ proc = "live" /\ ~tree /\ tree' = TRUE
    /\ UNCHANGED <<contained, start, proc, stream, sup, rec, stop, answer, attempt, load,
                   capture, early, faults>>

DescendantExits ==
    /\ tree /\ tree' = FALSE
    /\ UNCHANGED <<contained, start, proc, stream, sup, rec, stop, answer, attempt, load,
                   capture, early, faults>>

\* copyAndClose reaches the end of the pipe once nobody holds its write end,
\* fails at once when Wait has closed the read end, or fails by itself.
CopyEnds ==
    /\ stream = "open"
    /\ \/ /\ proc = "dead" /\ ~tree /\ (Exited => contained)
          /\ stream' = "whole" /\ Well /\ UNCHANGED rec
       \/ /\ Exited /\ ~contained
          /\ stream' = "failed" /\ Well /\ rec' = [rec EXCEPT !.streamErr = TRUE]
       \/ /\ stream' = "failed" /\ Fault /\ rec' = [rec EXCEPT !.streamErr = TRUE]
    /\ UNCHANGED <<contained, start, proc, tree, sup, stop, answer, attempt, load, capture, early>>

\* supervise: Wait returns and the exit is published before the record is
\* locked.
PublishExit ==
    /\ sup = "waiting" /\ proc = "dead"
    /\ sup' = "exited"
    /\ early' = (early \/ (~rec.stopPrepared /\ ~rec.stopRequested))
    /\ UNCHANGED <<contained, start, proc, tree, stream, rec, stop, answer, attempt, load,
                   capture, faults>>

\* Faulty variant: the goroutine alone classifies the exit, when it gets the
\* lock.
NoteExitOnly(r) == r

\* What a caller that finds the exit published makes of it.
NoteExit(r) ==
    IF Exited /\ ~r.stopPrepared /\ ~r.stopRequested THEN [r EXCEPT !.unexpectedExit = TRUE] ELSE r

ClassifyExit ==
    /\ sup = "exited" /\ sup' = "classified"
    /\ rec' = IF ~rec.stopPrepared /\ ~rec.stopRequested
              THEN [rec EXCEPT !.unexpectedExit = TRUE] ELSE rec
    /\ UNCHANGED <<contained, start, proc, tree, stream, stop, answer, attempt, load, capture,
                   early, faults>>

SupervisionEnds ==
    /\ sup = "classified" /\ stream \in {"whole", "failed"} /\ sup' = "done"
    /\ UNCHANGED <<contained, start, proc, tree, stream, rec, stop, answer, attempt, load,
                   capture, early, faults>>

\* Kill ends the direct process, and with the job its descendants.
Kill ==
    /\ proc' = IF proc = "live" THEN "dead" ELSE proc
    /\ tree' = IF contained THEN FALSE ELSE tree

-----------------------------------------------------------------------------
\* Start, serialized by startMu: open the outputs, start the process, wait for
\* readiness, and take it back when one of them fails.

OpenCapture ==
    /\ start = "idle"
    /\ \/ start' = "opened" /\ capture' = "open" /\ Well
       \/ start' = "failed" /\ UNCHANGED capture /\ Fault
    /\ UNCHANGED <<contained, proc, tree, stream, sup, rec, stop, answer, attempt, load, early>>

Spawn ==
    /\ start = "opened"
    /\ \/ /\ start' = "awaiting" /\ proc' = "live" /\ stream' = "open" /\ sup' = "waiting"
          /\ Well /\ UNCHANGED capture
       \/ start' = "failed" /\ capture' = "aborted" /\ Fault /\ UNCHANGED <<proc, stream, sup>>
    /\ UNCHANGED <<contained, tree, rec, stop, answer, attempt, load, early>>

\* Readiness is awaited without a lock; the exit is looked at once more before
\* the record is published.
BecomeReady ==
    /\ start = "awaiting"
    /\ \/ /\ ~Exited
          /\ start' = "ready" /\ rec' = [rec EXCEPT !.coverage = Available] /\ Well
       \/ Exited /\ start' = "rolling" /\ Well /\ UNCHANGED rec
       \/ start' = "rolling" /\ Fault /\ UNCHANGED rec
    /\ UNCHANGED <<contained, proc, tree, stream, sup, stop, answer, attempt, load, capture, early>>

\* rollbackStart: kill, wait for the end or for the grace, and abort the outputs
\* either way.
RollbackKill ==
    /\ start = "rolling" /\ start' = "closing"
    /\ \/ (~Exited \/ contained) /\ Kill /\ Well
       \/ (~Exited \/ contained) /\ UNCHANGED <<proc, tree>> /\ Fault
       \/ Exited /\ ~contained /\ UNCHANGED <<proc, tree>> /\ Well
    /\ UNCHANGED <<contained, stream, sup, rec, stop, answer, attempt, load, capture, early>>

RollbackAbort ==
    /\ start = "closing" /\ start' = "failed" /\ capture' = "aborted"
    /\ UNCHANGED <<contained, proc, tree, stream, sup, rec, stop, answer, attempt, load, early,
                   faults>>

-----------------------------------------------------------------------------
\* The stop boundary.

\* setStopPreparation does nothing once a stop has begun.
Preparable ==
    /\ start = "ready" /\ attempt = Nobody
    /\ ~rec.stopRequested /\ ~rec.teardownConfirmed /\ rec.result = NoResult

PrepareStop ==
    /\ Preparable
    /\ rec' = [NoteExit(rec) EXCEPT !.stopPrepared = TRUE]
    /\ UNCHANGED <<contained, start, proc, tree, stream, sup, stop, answer, attempt, load,
                   capture, early, faults>>

CancelStopPreparation ==
    /\ Preparable
    /\ rec' = [rec EXCEPT !.stopPrepared = FALSE, !.unexpectedExit = @ \/ Exited]
    /\ early' = (early \/ Exited)
    /\ UNCHANGED <<contained, start, proc, tree, stream, sup, stop, answer, attempt, load,
                   capture, faults>>

-----------------------------------------------------------------------------
\* Coverage reads the record under its lock and writes what it concluded under
\* the lock again.

LoadCoverage ==
    /\ start = "ready" /\ load = NoResult /\ Exited
    /\ rec' = NoteExit(rec)
    /\ \/ NoteExit(rec).streamErr /\ load' = Lost("none")
       \/ ~rec.streamErr /\ NoteExit(rec).unexpectedExit /\ load' = Lost("partial")
       \/ ~rec.streamErr /\ ~NoteExit(rec).unexpectedExit /\ UNCHANGED load
    /\ UNCHANGED <<contained, start, proc, tree, stream, sup, stop, answer, attempt, capture,
                   early, faults>>

StoreCoverage ==
    /\ load # NoResult
    /\ rec' = [rec EXCEPT !.coverage = load] /\ load' = NoResult
    /\ UNCHANGED <<contained, start, proc, tree, stream, sup, stop, answer, attempt, capture,
                   early, faults>>

-----------------------------------------------------------------------------
\* Stop.  The first caller performs it, the others await its attempt.

Goto(k, pc) == stop' = [stop EXCEPT ![k] = pc]

Stop(k) ==
    /\ start = "ready" /\ stop[k] = "idle"
    /\ \/ /\ rec.result # NoResult
          /\ answer' = [answer EXCEPT ![k] = rec.result] /\ UNCHANGED <<stop, attempt>>
       \/ /\ rec.result = NoResult /\ attempt # Nobody
          /\ Goto(k, "joined") /\ UNCHANGED <<answer, attempt>>
       \/ /\ rec.result = NoResult /\ attempt = Nobody
          /\ Goto(k, "teardown") /\ attempt' = k /\ UNCHANGED answer
    /\ UNCHANGED <<contained, start, proc, tree, stream, sup, rec, load, capture, early, faults>>

\* awaitStopAttempt gives up at its own deadline.
JoinExpires(k) ==
    /\ stop[k] = "joined"
    /\ Goto(k, "idle") /\ answer' = [answer EXCEPT ![k] = Refused("deadline")]
    /\ UNCHANGED <<contained, start, proc, tree, stream, sup, rec, attempt, load, capture, early,
                   faults>>

\* Faulty variant: an attempt that fails leaves those who joined it waiting.
FinishAlone(k, a) ==
    /\ stop' = [stop EXCEPT ![k] = "idle"] /\ answer' = [answer EXCEPT ![k] = a]
    /\ attempt' = Nobody

\* The attempt ends: its answer goes to its caller and to all who joined it.
Finish(k, a) ==
    LET told == {j \in Callers : j = k \/ stop[j] = "joined"}
    IN  /\ stop' = [j \in Callers |-> IF j \in told THEN "idle" ELSE stop[j]]
        /\ answer' = [j \in Callers |-> IF j \in told THEN a ELSE answer[j]]
        /\ attempt' = Nobody

\* ensureTeardown: the boundary is committed under the lock.
RequestStop(k) ==
    /\ stop[k] = "teardown"
    /\ \/ rec.teardownConfirmed /\ Goto(k, "finalize") /\ UNCHANGED rec
       \/ /\ ~rec.teardownConfirmed
          /\ rec' = [NoteExit(rec) EXCEPT !.stopPrepared = FALSE, !.stopRequested = TRUE]
          /\ Goto(k, IF Exited THEN "signal-exited" ELSE "signal")
    /\ UNCHANGED <<contained, start, proc, tree, stream, sup, answer, attempt, load, capture, early,
                   faults>>

\* Interrupt, or Kill where that fails (the job knows no other signal).  After an
\* exit that was already seen only the job is killed.
SignalProcess(k) ==
    /\ stop[k] \in {"signal", "signal-exited"}
    /\ Goto(k, "await")
    /\ \/ contained /\ Kill /\ Well /\ UNCHANGED rec
       \/ ~contained /\ UNCHANGED <<proc, tree, rec>> /\ Well
       \/ /\ contained \/ stop[k] = "signal"
          /\ Fault /\ UNCHANGED <<proc, tree>> /\ rec' = [rec EXCEPT !.lifecycleErr = TRUE]
    /\ UNCHANGED <<contained, start, stream, sup, answer, attempt, load, capture, early>>

AwaitDone(k) ==
    /\ stop[k] \in {"await", "grace"} /\ Done
    /\ Goto(k, "contain")
    /\ UNCHANGED <<contained, start, proc, tree, stream, sup, rec, answer, attempt, load, capture,
                   early, faults>>

\* The caller's deadline: kill and wait once more, for the grace.
StopExpires(k) ==
    /\ stop[k] = "await" /\ ~Done
    /\ Goto(k, "grace")
    /\ \/ Kill /\ Well /\ UNCHANGED rec
       \/ Fault /\ UNCHANGED <<proc, tree>> /\ rec' = [rec EXCEPT !.lifecycleErr = TRUE]
    /\ UNCHANGED <<contained, start, stream, sup, answer, attempt, load, capture, early>>

\* Teardown that could not be confirmed keeps the collector and can be retried.
Unconfirmed(k) ==
    /\ rec' = [rec EXCEPT !.lifecycleErr = TRUE, !.coverage = Lost("none")]
    /\ Finish(k, Refused("unconfirmed"))

GraceExpires(k) ==
    /\ stop[k] = "grace" /\ ~Done /\ Unconfirmed(k)
    /\ UNCHANGED <<contained, start, proc, tree, stream, sup, load, capture, early, faults>>

\* confirmAndCloseCollectorContainment waits until the job is empty, at most
\* until the deadline.
Contained == contained => ~tree

ConfirmContainment(k) ==
    /\ stop[k] = "contain"
    /\ \/ /\ Contained
          /\ rec' = [rec EXCEPT !.teardownConfirmed = TRUE]
          /\ Goto(k, "finalize") /\ Well /\ UNCHANGED <<answer, attempt>>
       \/ ~Contained /\ Unconfirmed(k) /\ Well
       \/ contained /\ Unconfirmed(k) /\ Fault
    /\ UNCHANGED <<contained, start, proc, tree, stream, sup, load, capture, early>>

\* capture.Finalize publishes both streams, at the byte limit as a truncated
\* prefix, or fails and can be retried.
FinalizeCapture(k) ==
    /\ stop[k] = "finalize"
    /\ \/ /\ capture \in {"open", "finalized"} /\ capture' = "finalized"
          /\ Goto(k, "report") /\ Well /\ UNCHANGED <<rec, answer, attempt>>
       \/ /\ \/ capture = "open" /\ Fault
             \/ capture = "truncated" /\ Well
          /\ capture' = "truncated"
          /\ rec' = [rec EXCEPT !.coverage = Lost("none"), !.result = Lost("none")]
          /\ Finish(k, Lost("none"))
       \/ /\ Fault /\ UNCHANGED capture
          /\ rec' = [rec EXCEPT !.coverage = Lost("none")] /\ Finish(k, Refused("unfinalized"))
    /\ UNCHANGED <<contained, start, proc, tree, stream, sup, load, early>>

\* permanentFailureLocked
PermanentFailure(r) == r.streamErr \/ r.lifecycleErr \/ r.unexpectedExit

FinalCoverage(r) ==
    CASE ~PermanentFailure(r) -> Available
      [] r.streamErr          -> Lost("none")
      [] OTHER                -> Lost("partial")

ReportStop(k) ==
    /\ stop[k] = "report"
    /\ rec' = [rec EXCEPT !.coverage = FinalCoverage(rec), !.result = FinalCoverage(rec)]
    /\ Finish(k, FinalCoverage(rec))
    /\ UNCHANGED <<contained, start, proc, tree, stream, sup, load, capture, early, faults>>

-----------------------------------------------------------------------------
StopStep(k) ==
    \/ RequestStop(k) \/ SignalProcess(k) \/ AwaitDone(k) \/ StopExpires(k) \/ GraceExpires(k)
    \/ ConfirmContainment(k) \/ FinalizeCapture(k) \/ ReportStop(k)

Next ==
    \/ ProcessExits \/ DescendantAppears \/ DescendantExits \/ CopyEnds
    \/ PublishExit \/ ClassifyExit \/ SupervisionEnds
    \/ OpenCapture \/ Spawn \/ BecomeReady \/ RollbackKill \/ RollbackAbort
    \/ PrepareStop \/ CancelStopPreparation \/ LoadCoverage \/ StoreCoverage
    \/ \E k \in Callers : Stop(k) \/ JoinExpires(k) \/ StopStep(k)

Spec == Init /\ [][Next]_supervisorVars

\* The steps of a stop are the code's own; each wait among them has a deadline.
Fairness == \A k \in Callers : WF_supervisorVars(StopStep(k))

-----------------------------------------------------------------------------
\* A collector whose result says its coverage is available ran until a stop
\* boundary was armed, its streams were copied to the end and published, and
\* neither it nor, where the platform can tell, a descendant of it still runs.
HonestCoverage ==
    rec.result.status = "available" =>
        /\ ~early /\ stream = "whole" /\ capture = "finalized"
        /\ proc = "dead" /\ Contained

\* The outputs are published only after the copiers have closed them, and once a
\* result is cached every caller that is told one is told that.
ResultIsFinal ==
    /\ (start = "ready" /\ capture # "open") => Done
    /\ \A k \in Callers : answer[k].status \in {"available", "lost"} => answer[k] = rec.result

\* Coverage is reported lost only for a reason: an exit outside the boundary, a
\* fault, a teardown that ran into its deadline, or a read end that Wait closed
\* under the copier.
LossIsExplained ==
    rec.result.status = "lost" =>
        \/ early \/ faults > 0 \/ rec.lifecycleErr
        \/ ~contained /\ stream = "failed"

\* A caller of Stop is answered.
StopIsAnswered ==
    \A k \in Callers : (stop[k] # "idle") ~> (stop[k] = "idle")
=============================================================================
