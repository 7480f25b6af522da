----------------------------- MODULE ExecExchange -----------------------------
(***************************************************************************)
(* One exec on the host, from the public stream to the guest and back:     *)
(*   the handler    OpenExec or OpenTargetExec (internal/orchestration     *)
(*                  /exec.go) with its input forwarder and its heartbeat;  *)
(*   the transport  guestTransport (internal/drivers/command): the frame   *)
(*                  reader, the waiter of the host process that relays to  *)
(*                  the guest, and Close.                                  *)
(* The guest is an environment that emits what GuestSupervisor does: the   *)
(* start, output, the exit and one terminal.  It need not end.  "expired"  *)
(* is the request's context: its deadline, or the client going away.       *)
(***************************************************************************)
EXTENDS Naturals, Sequences

CONSTANTS
    Kinds,          \* which handlers serve: a subset of {"agent", "target"}
    MaxFrames       \* bound on the frames in the host's pipe

VARIABLES
    kind, expired,
    pc, record, outcome, lifecycle, received,       \* the handler
    forward, heart,                                 \* its two helpers
    host, waited, pipe, frames, reader, seen, closing, closeErr,    \* the transport
    guest, emitted                                  \* the guest, and its terminal

handlerVars == <<record, outcome, lifecycle, received>>
streamVars  == <<waited, pipe, frames, reader, seen>>
guestVars   == <<guest, emitted>>
execVars == <<kind, expired, pc, handlerVars, forward, heart, host, streamVars,
              closing, closeErr, guestVars>>

NoTerminal == [exit |-> "none", confirmed |-> FALSE, error |-> FALSE]
\* What Run can say: success, a failed process, a refused start, or that the
\* cleanup is not confirmed.
GuestTerminals ==
    {[exit |-> "zero", confirmed |-> TRUE, error |-> FALSE],
     [exit |-> "bad", confirmed |-> TRUE, error |-> TRUE],
     [exit |-> "zero", confirmed |-> FALSE, error |-> TRUE]}
Frame(k) == [kind |-> k, terminal |-> NoTerminal]
TerminalFrame(t) == [kind |-> "terminal", terminal |-> t]
Ended == {"completed", "failed", "cancelled"}

Init ==
    /\ kind \in Kinds /\ expired = FALSE
    /\ pc = "create" /\ record = "none" /\ outcome = NoTerminal
    /\ lifecycle = "none" /\ received = FALSE
    /\ forward = "idle" /\ heart = "idle"
    /\ host = "none" /\ waited = FALSE /\ pipe = <<>> /\ frames = <<>>
    /\ reader = "idle" /\ seen = NoTerminal /\ closing = "no" /\ closeErr = FALSE
    /\ guest = "idle" /\ emitted = NoTerminal

-------------------------------------------------------------------------------
(* The guest.  Once the host process is gone its frames are lost.          *)

Emits(f) == pipe' = IF host = "running" THEN Append(pipe, f) ELSE pipe

GuestNext ==
    /\ Len(pipe) < MaxFrames
    /\ \/ /\ guest = "start" /\ guest' = "running" /\ Emits(Frame("started"))
          /\ UNCHANGED emitted
       \/ /\ guest = "running" /\ Emits(Frame("output"))
          /\ UNCHANGED guestVars
       \/ /\ guest = "running" /\ guest' = "exited" /\ Emits(Frame("exited"))
          /\ UNCHANGED emitted
       \/ \E t \in GuestTerminals :
            /\ guest = "exited" \/ (guest = "start" /\ t.exit = "bad")
            /\ guest' = "done" /\ emitted' = t /\ Emits(TerminalFrame(t))
    /\ UNCHANGED <<kind, expired, pc, handlerVars, forward, heart, host, waited, frames,
                   reader, seen, closing, closeErr>>

-------------------------------------------------------------------------------
(* The transport.                                                          *)

\* Faulty variant: the process is not bound to the context.
HostOutlivesContext ==
    /\ host = "running" /\ guest = "done"
    /\ host' = "exited"
    /\ UNCHANGED <<streamVars, closing, closeErr>>

\* The relaying process ends with the guest, and exec.CommandContext kills it
\* when the context ends.
HostExits ==
    /\ host = "running" /\ (guest = "done" \/ expired)
    /\ host' = "exited"
    /\ UNCHANGED <<streamVars, closing, closeErr>>

\* Cmd.Wait closes the pipe of StdoutPipe, and with it what was not yet read.
WaitReturns ==
    /\ host = "exited" /\ ~waited
    /\ waited' = TRUE
    /\ pipe' = <<>>
    /\ UNCHANGED <<host, frames, reader, seen, closing, closeErr>>

\* readGuestFrames and observeGuestFrame: a terminal is noted and ends the
\* reading; a frame read while the transport closes may be dropped.
ReadFrame ==
    /\ reader = "reading" /\ pipe # <<>>
    /\ LET f == Head(pipe)
       IN  /\ \/ Len(frames) < MaxFrames /\ frames' = Append(frames, f)
              \/ closing # "no" /\ UNCHANGED frames
           /\ seen' = IF f.kind = "terminal" THEN f.terminal ELSE seen
           /\ reader' = IF f.kind = "terminal" THEN "ended" ELSE reader
    /\ pipe' = Tail(pipe)
    /\ UNCHANGED <<host, waited, closing, closeErr>>

ReadFails ==
    /\ reader = "reading" /\ pipe = <<>> /\ host = "exited"
    /\ reader' = "ended"
    /\ UNCHANGED <<host, waited, pipe, frames, seen, closing, closeErr>>

\* guestTransport.Close runs once: stdin is closed, the host process gets a
\* grace period, is killed and gets another, and the reader is awaited.
CloseBegins == closing' = IF closing = "no" THEN "closing" ELSE closing

\* awaitProcessExit
CloseKills ==
    /\ closing = "closing" /\ ~waited
    /\ closing' = "killed" /\ closeErr' = TRUE /\ host' = "exited"
    /\ UNCHANGED streamVars

\* guestCleanupResult
CleanupResult == seen.confirmed

CloseEnds ==
    /\ closing \in {"closing", "killed"} /\ waited /\ reader = "ended"
    /\ closing' = "closed"
    /\ closeErr' = (closeErr \/ ~CleanupResult)
    /\ UNCHANGED <<host, streamVars>>

Apart == UNCHANGED <<kind, expired, pc, handlerVars, forward, heart, guestVars>>
HostNext == HostExits /\ Apart
WaitNext == WaitReturns /\ Apart
ReadNext == (ReadFrame \/ ReadFails) /\ Apart
CloseNext == (CloseKills \/ CloseEnds) /\ Apart

\* guestTransport.Send fails once the transport is closed or the process gone.
Sendable == closing = "no" /\ host = "running"

-------------------------------------------------------------------------------
(* The handler's helpers.                                                  *)

\* MaintainExecHeartbeat: a failed send closes the transport.  It waits while
\* the forwarder holds the send lock.
HeartbeatFails ==
    /\ heart = "beating" /\ forward # "sending" /\ ~Sendable
    /\ heart' = "failed"
    /\ CloseBegins
    /\ UNCHANGED <<kind, expired, pc, handlerVars, forward, host, streamVars, closeErr, guestVars>>

\* forwardExecInput: a client frame is sent, or blocks in a full pipe; a frame
\* that is invalid or cannot be sent ends the forwarding and cancels the exchange.
ForwardNext ==
    /\ \/ forward = "reading" /\ Sendable /\ forward' \in {"sending", "done"}
       \/ forward = "reading" /\ forward' = "failed"
       \/ forward = "sending" /\ Sendable /\ guest # "done" /\ forward' = "reading"
       \/ forward = "sending" /\ ~Sendable /\ forward' = "failed"
    /\ UNCHANGED <<kind, expired, pc, handlerVars, heart, host, streamVars, closing, closeErr, guestVars>>

Expire ==
    /\ ~expired /\ pc # "done"
    /\ expired' = TRUE
    /\ UNCHANGED <<kind, pc, handlerVars, forward, heart, host, streamVars, closing, closeErr, guestVars>>

-------------------------------------------------------------------------------
(* The handler.                                                            *)

\* OpenExec creates the exec and moves it to starting.  Either fails once the
\* context has ended; what was created then stays as it is.
CreateExec ==
    /\ pc = "create" /\ kind = "agent"
    /\ \/ ~expired /\ pc' = "open" /\ record' = "starting"
       \/ expired /\ pc' = "done" /\ record' \in {"none", "requested"}
    /\ UNCHANGED <<outcome, lifecycle, received, forward, heart, host, frames, reader, closing, guest>>

\* OpenTargetExec creates the operation of a running target run.
CreateTargetOperation ==
    /\ pc = "create" /\ kind = "target"
    /\ \/ ~expired /\ pc' = "open" /\ record' = "requested"
       \/ expired /\ pc' = "done" /\ UNCHANGED record
    /\ UNCHANGED <<outcome, lifecycle, received, forward, heart, host, frames, reader, closing, guest>>

\* The driver opens the transport: StartGuestTransport starts the host process,
\* writes the start frame and starts the reader and the waiter.
Open ==
    /\ pc = "open"
    /\ \/ /\ ~expired /\ pc' = "run"
          /\ host' = "running" /\ guest' = "start" /\ reader' = "reading"
       \/ /\ pc' = "fail"                      \* refused, or aborted at the start frame
          /\ UNCHANGED <<host, guest, reader>>
    /\ UNCHANGED <<handlerVars, forward, heart, frames, closing>>

\* The record is moved to running before the exchange begins.
Run ==
    /\ pc = "run"
    /\ \/ /\ ~expired /\ pc' = "exchange" /\ record' = "running"
          /\ forward' = "reading" /\ heart' = "beating"
          /\ UNCHANGED closing
       \/ /\ expired /\ pc' = "closing" /\ CloseBegins
          /\ UNCHANGED <<record, forward, heart>>
    /\ UNCHANGED <<outcome, lifecycle, received, host, frames, reader, guest>>

\* exchangeExec returns: the heartbeat is stopped, and the transport closed.
Leave(got) ==
    /\ pc' = "closing"
    /\ received' = got
    /\ CloseBegins
    /\ heart' = IF heart = "beating" THEN "stopped" ELSE heart

\* ProcessLifecycle.Observe
Observed(f) ==
    CASE f.kind = "started" /\ lifecycle = "none"    -> "started"
      [] f.kind = "exited" /\ lifecycle = "started"  -> "exited"
      [] OTHER                                       -> "invalid"

\* ProcessLifecycle.ValidateTerminal
TerminalValid(t) == IF lifecycle = "none" THEN t.error ELSE lifecycle = "exited"

\* Stopping the heartbeat waits for a send of it that waits for the send lock.
HeartbeatStops == heart = "beating" => forward # "sending"

\* Receive returns a frame.  Output is passed on, unless the client is gone;
\* the terminal ends the exchange, with an error if the heartbeat had failed.
ReceiveFrame ==
    /\ pc = "exchange" /\ closing = "no" /\ frames # <<>>
    /\ frames' = Tail(frames)
    /\ LET f == Head(frames)
       IN  CASE f.kind = "terminal" ->
                    /\ HeartbeatStops
                    /\ outcome' = f.terminal
                    /\ Leave(heart # "failed" /\ TerminalValid(f.terminal))
                    /\ UNCHANGED lifecycle
             [] f.kind = "output" ->
                    /\ \/ UNCHANGED <<pc, received, heart, closing>>
                       \/ expired /\ HeartbeatStops /\ Leave(FALSE)
                    /\ UNCHANGED <<lifecycle, outcome>>
             [] OTHER ->
                    /\ lifecycle' = Observed(f)
                    /\ IF Observed(f) = "invalid" THEN Leave(FALSE)
                                                  ELSE UNCHANGED <<pc, received, heart, closing>>
                    /\ UNCHANGED outcome
    /\ UNCHANGED <<record, forward, host, reader, guest>>

\* Receive fails: the context ended, the forwarder failed and cancelled it, the
\* transport was closed by the heartbeat, or the reader ended.
ReceiveFails ==
    /\ pc = "exchange"
    /\ \/ expired
       \/ forward = "failed"
       \/ closing # "no"
       \/ reader = "ended" /\ frames = <<>>
    /\ HeartbeatStops
    /\ Leave(FALSE)
    /\ UNCHANGED <<record, outcome, lifecycle, forward, host, frames, reader, guest>>

\* connection.Close returns; the action is sealed, which never fails the exec.
ExecClosed ==
    /\ pc = "closing" /\ closing = "closed" /\ kind = "agent"
    /\ pc' = IF received THEN "finalize" ELSE "fail"
    /\ UNCHANGED <<handlerVars, forward, heart, host, frames, reader, closing, guest>>

\* A target operation fails with its close.
OperationClosed ==
    /\ pc = "closing" /\ closing = "closed" /\ kind = "target"
    /\ pc' = IF received /\ ~closeErr THEN "finalize" ELSE "fail"
    /\ UNCHANGED <<handlerVars, forward, heart, host, frames, reader, closing, guest>>

\* Faulty variant: the exit code alone decides.
SucceededByExit == outcome.exit = "zero"

Succeeded == outcome.exit = "zero" /\ ~outcome.error /\ outcome.confirmed /\ ~closeErr

Judged == IF Succeeded THEN "completed" ELSE "failed"

\* finalizeExec works under the request's context.
FinalizeExec ==
    /\ pc = "finalize" /\ kind = "agent"
    /\ pc' = "done"
    /\ record' = IF expired THEN record ELSE Judged
    /\ UNCHANGED <<outcome, lifecycle, received, forward, heart, host, frames, reader, closing, guest>>

\* transitionOperation works under a fresh context once the request has ended.
TransitionOperation ==
    /\ pc = "finalize" /\ kind = "target"
    /\ pc' = "done"
    /\ record' = Judged
    /\ UNCHANGED <<outcome, lifecycle, received, forward, heart, host, frames, reader, closing, guest>>

\* Faulty variant: the failure is recorded under the request's context.
FinalizeFailureInRequest ==
    /\ pc = "fail"
    /\ pc' = "done"
    /\ record' = IF expired THEN record ELSE "failed"
    /\ UNCHANGED <<outcome, lifecycle, received, forward, heart, host, frames, reader, closing, guest>>

\* finalizeExecFailure and finalizeOperationFailure
FinalizeFailure ==
    /\ pc = "fail"
    /\ pc' = "done"
    /\ record' \in {"failed"} \cup (IF expired \/ forward = "failed" THEN {"cancelled"} ELSE {})
    /\ UNCHANGED <<outcome, lifecycle, received, forward, heart, host, frames, reader, closing, guest>>

HandlerNext ==
    /\ \/ CreateExec
       \/ CreateTargetOperation
       \/ Open
       \/ Run
       \/ ReceiveFrame
       \/ ReceiveFails
       \/ ExecClosed
       \/ OperationClosed
       \/ FinalizeExec
       \/ TransitionOperation
       \/ FinalizeFailure
    /\ UNCHANGED <<kind, expired, waited, pipe, seen, closeErr, emitted>>

Settled == pc = "done" /\ UNCHANGED execVars

Next ==
    \/ GuestNext
    \/ HostNext
    \/ WaitNext
    \/ ReadNext
    \/ CloseNext
    \/ HeartbeatFails
    \/ ForwardNext
    \/ Expire
    \/ HandlerNext
    \/ Settled

Spec == Init /\ [][Next]_execVars

(* The host's goroutines are scheduled, grace periods and the deadline end. *)
(* Receive chooses fairly between a frame and a context that has ended.     *)
(* The guest and the client need not do anything: only a send that fails    *)
(* returns by itself.                                                       *)
Fairness ==
    /\ WF_execVars(HandlerNext)
    /\ SF_execVars(HandlerNext /\ pc' = "closing")
    /\ WF_execVars(HostNext)
    /\ WF_execVars(WaitNext)
    /\ WF_execVars(ReadNext)
    /\ WF_execVars(CloseNext)
    /\ WF_execVars(HeartbeatFails)
    /\ WF_execVars(ForwardNext /\ forward = "sending" /\ ~Sendable)
    /\ WF_execVars(Expire)

-------------------------------------------------------------------------------

TypeOK ==
    /\ kind \in Kinds /\ expired \in BOOLEAN
    /\ pc \in {"create", "open", "run", "exchange", "closing", "finalize", "fail", "done"}
    /\ record \in {"none", "requested", "starting", "running"} \cup Ended
    /\ {outcome, seen, emitted} \subseteq GuestTerminals \cup {NoTerminal}
    /\ lifecycle \in {"none", "started", "exited", "invalid"} /\ received \in BOOLEAN
    /\ forward \in {"idle", "reading", "sending", "failed", "done"}
    /\ heart \in {"idle", "beating", "failed", "stopped"}
    /\ host \in {"none", "running", "exited"} /\ waited \in BOOLEAN
    /\ Len(pipe) <= MaxFrames /\ Len(frames) <= MaxFrames
    /\ reader \in {"idle", "reading", "ended"}
    /\ closing \in {"no", "closing", "killed", "closed"} /\ closeErr \in BOOLEAN
    /\ guest \in {"idle", "start", "running", "exited", "done"}

(* An exec is recorded as completed only when its guest ended and said that *)
(* nothing was left behind, and closing the transport confirmed it: a lost, *)
(* killed or half-read session is never a success (exec.go finalizeExec,    *)
(* command.go guestCleanupResult).                                          *)
CompletedIsConfirmed ==
    record = "completed" =>
        guest = "done" /\ emitted.confirmed /\ seen = emitted /\ emitted.exit = "zero"

(* A handler that is done leaves a terminal record, but for two cases: the *)
(* request ended before anything was opened, or between the terminal frame *)
(* of an agent exec and its finalization (exec.go finalizeExec).           *)
DoneIsRecorded ==
    (pc = "done" /\ record \notin Ended) =>
        expired /\ (host = "none" \/ (kind = "agent" /\ received))

(* The handler ends whatever the guest and the client do: the guest hangs, *)
(* does not read, or never sends a terminal.                               *)
HandlerEnds == (pc = "exchange") ~> (pc = "done")
===============================================================================
