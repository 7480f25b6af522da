--------------------------- MODULE GuestSupervisor ----------------------------
(***************************************************************************)
(* Supervisor.Run of internal/guest: one process in the guest, from its    *)
(* start frame to the single terminal frame.  The run loop, one pump per   *)
(* output stream and the process (its leader and one descendant of its     *)
(* group) work at once.  The host is the environment: frames arrive in     *)
(* "up", heartbeats may fail to come, the control stream ends, and the     *)
(* link the guest writes to may be cut.  Every grace period is a choice    *)
(* between what it waits for and its end.                                  *)
(***************************************************************************)
EXTENDS Naturals, Sequences

CONSTANTS
    Streams,        \* the process's output streams
    MaxOutput,      \* bound on the chunks the process writes
    MaxBudget,      \* the chunks ExecStart.MaxOutputBytes admits
    MaxInput        \* bound on the control frames that arrive

VARIABLES
    expired,        \* ExecStart.Deadline has passed
    control,        \* "live", "quiet" (no heartbeat came in time) or "ended"
    link,           \* what the guest writes reaches the host: "up" or "cut"
    up, arrived,    \* control frames to be read, and how many there were
    guest, cause, inputs, drained, clean, terminal,
    leader, child, exit, signal, pending, produced,
    budget, pump, posted, truncated

hostVars    == <<expired, control, link>>
processVars == <<leader, child, exit, signal, pending, produced>>
pumpVars    == <<budget, pump, truncated>>
endVars     == <<inputs, drained, clean, terminal>>
guestVars == <<hostVars, up, arrived, guest, cause, posted, processVars, pumpVars, endVars>>

NoTerminal == [exit |-> "none", confirmed |-> FALSE, error |-> FALSE]
Terminals == [exit : {"none", "zero", "bad"}, confirmed : BOOLEAN, error : BOOLEAN]

Init ==
    /\ expired = FALSE /\ control = "live" /\ link = "up"
    /\ up = <<>> /\ arrived = 0
    /\ guest = "start" /\ cause = "none" /\ inputs = "none"
    /\ drained = FALSE /\ clean = FALSE /\ terminal = NoTerminal
    /\ leader = "none" /\ child = "none" /\ exit = "none" /\ signal = "none"
    /\ pending = [s \in Streams |-> 0] /\ produced = 0
    /\ budget = MaxBudget /\ pump = [s \in Streams |-> "idle"]
    /\ posted = FALSE /\ truncated = FALSE

-------------------------------------------------------------------------------
(* The process.  Its group is gone when the leader and the descendant are. *)

GroupGone == leader # "running" /\ child # "running"

Fork ==
    /\ leader = "running" /\ child = "none"
    /\ child' = "running"
    /\ UNCHANGED <<leader, exit, signal, produced, pending>>

\* Output stays in the pipe until the pump reads it, also after the writer is gone.
Produce(s) ==
    /\ ~GroupGone /\ produced < MaxOutput
    /\ produced' = produced + 1
    /\ pending' = [pending EXCEPT ![s] = @ + 1]
    /\ UNCHANGED <<leader, child, exit, signal>>

LeaderExits(how) ==
    /\ leader = "running" /\ signal # "kill"
    /\ leader' = "exited" /\ exit' = how
    /\ UNCHANGED <<child, signal, produced, pending>>

ChildExits ==
    /\ child = "running" /\ signal # "kill"
    /\ child' = "gone"
    /\ UNCHANGED <<leader, exit, signal, produced, pending>>

\* SIGKILL reaches the whole process group.
Killed ==
    /\ signal = "kill" /\ ~GroupGone
    /\ leader' = "exited" /\ child' = IF child = "running" THEN "gone" ELSE child
    /\ exit' = IF leader = "running" THEN "bad" ELSE exit
    /\ UNCHANGED <<signal, produced, pending>>

ProcessNext ==
    /\ \/ Fork
       \/ \E s \in Streams : Produce(s)
       \/ \E how \in {"zero", "bad"} : LeaderExits(how)
       \/ ChildExits
       \/ Killed
    /\ UNCHANGED <<hostVars, up, arrived, guest, cause, posted, pumpVars, endVars>>

-------------------------------------------------------------------------------
(* The host, and Serve's reader of the control stream.                     *)

ControlArrives ==
    /\ control # "ended" /\ up = <<>> /\ arrived < MaxInput
    /\ arrived' = arrived + 1
    /\ \E k \in {"stdin", "signal", "resize", "close"} : up' = <<k>>
    /\ UNCHANGED hostVars

HostChanges ==
    /\ \/ ~expired /\ expired' = TRUE /\ UNCHANGED <<control, link>>
       \/ control = "live" /\ control' \in {"quiet", "ended"} /\ UNCHANGED <<expired, link>>
       \/ link = "up" /\ link' = "cut" /\ control' = "ended" /\ UNCHANGED expired
    /\ UNCHANGED <<up, arrived>>

HostNext ==
    /\ guest # "done"
    /\ ControlArrives \/ HostChanges
    /\ UNCHANGED <<guest, cause, posted, processVars, pumpVars, endVars>>

-------------------------------------------------------------------------------
(* The supervisor.                                                         *)

\* A write fails only once the link is cut, and need not fail then.
Writes == IF link = "up" THEN {TRUE} ELSE BOOLEAN

\* The deferred terminal frame, the last thing Run does.
EmitTerminal(t) == guest' = "done" /\ terminal' = t

Refusal(confirmed) == [exit |-> "bad", confirmed |-> confirmed, error |-> TRUE]

\* Serve and validateStart: the first frame is a start that is complete, asks for
\* no terminal and has time left.
ValidateStart ==
    /\ guest = "start"
    /\ \/ ~expired /\ guest' = "inputs" /\ UNCHANGED terminal
       \/ EmitTerminal(Refusal(TRUE))
    /\ UNCHANGED <<cause, inputs, drained, clean, leader, pump>>

\* materializeTemporaryInputs; what a failure left is removed if it can be, and
\* the terminal confirms the cleanup either way.
Materialize ==
    /\ guest = "inputs"
    /\ \/ guest' = "launch" /\ inputs' = "written" /\ UNCHANGED terminal
       \/ inputs' \in {"removed", "written"} /\ EmitTerminal(Refusal(TRUE))
    /\ UNCHANGED <<cause, drained, clean, leader, pump>>

\* materializedInputs.cleanup removes the directory, or fails.
Cleanup == inputs' \in {"removed", "written"}

LaunchFails ==
    /\ guest = "launch"
    /\ Cleanup
    /\ EmitTerminal(Refusal(inputs' = "removed"))
    /\ UNCHANGED <<cause, drained, clean, leader, pump>>

\* The process is launched in a group of its own and reported, and the pumps
\* start; finishAfterFailure when the report fails.
Launch ==
    /\ guest = "launch"
    /\ leader' = "running"
    /\ \E ok \in Writes :
        /\ guest' = IF ok THEN "loop" ELSE "stopping"
        /\ cause' = IF ok THEN "none" ELSE "emit"
        /\ pump' = IF ok THEN [s \in Streams |-> "running"] ELSE pump
    /\ UNCHANGED <<inputs, drained, clean, terminal>>

\* The run loop selects one of the ready channels.
SelectWaited ==
    /\ guest = "loop" /\ leader = "exited"
    /\ guest' = "draining"
    /\ UNCHANGED <<cause, posted, up, signal>>

StopFor(why) == guest' = "stopping" /\ cause' = why

SelectOutputError ==
    /\ guest = "loop" /\ posted
    /\ posted' = FALSE
    /\ StopFor("output")
    /\ UNCHANGED <<up, signal>>

SelectDeadline ==
    /\ guest = "loop" /\ expired
    /\ StopFor("deadline")
    /\ UNCHANGED <<posted, up, signal>>

SelectHeartbeat ==
    /\ guest = "loop" /\ control # "live"
    /\ StopFor("heartbeat")
    /\ UNCHANGED <<posted, up, signal>>

SelectControlEOF ==
    /\ guest = "loop" /\ up = <<>> /\ control = "ended"
    /\ StopFor("eof")
    /\ UNCHANGED <<posted, up, signal>>

\* handleControl; a write to the process's stdin blocks the loop.
HandleControl ==
    /\ guest = "loop" /\ up # <<>>
    /\ up' = Tail(up)
    /\ CASE Head(up) = "stdin"  -> guest' = "stdin" /\ UNCHANGED <<cause, signal>>
         [] Head(up) = "signal" -> /\ signal' = IF signal = "none" THEN "term" ELSE signal
                                   /\ UNCHANGED <<guest, cause>>
         [] Head(up) = "resize" -> StopFor("control") /\ UNCHANGED signal
         [] OTHER               -> UNCHANGED <<guest, cause, signal>>
    /\ UNCHANGED posted

\* The process takes its input or its pipe breaks.
WriteStdin ==
    /\ guest = "stdin"
    /\ \/ ~GroupGone /\ guest' = "loop" /\ UNCHANGED cause
       \/ GroupGone /\ StopFor("control")
    /\ UNCHANGED <<posted, up, signal>>

\* stopProcess: SIGTERM, a grace period, SIGKILL, a grace period.
Terminate ==
    /\ guest = "stopping"
    /\ guest' = "terminating"
    /\ signal' = IF signal = "kill" THEN signal ELSE "term"
    /\ UNCHANGED <<cause, posted, up>>

Kill ==
    /\ guest = "terminating"
    /\ guest' = "killing" /\ signal' = "kill"
    /\ UNCHANGED <<cause, posted, up>>

Started == pump # [s \in Streams |-> "idle"]

ObserveStop ==
    /\ guest \in {"terminating", "killing"} /\ leader = "exited"
    /\ guest' = IF Started THEN "draining" ELSE "confirming"
    /\ UNCHANGED <<cause, posted, up, signal>>

\* The second grace period ends without the wait.
GiveUp ==
    /\ guest = "killing" /\ leader = "running"
    /\ guest' = IF Started THEN "draining" ELSE "confirming"
    /\ UNCHANGED <<cause, posted, up, signal>>

LoopNext ==
    /\ \/ SelectWaited
       \/ SelectOutputError
       \/ SelectDeadline
       \/ SelectHeartbeat
       \/ SelectControlEOF
       \/ HandleControl
       \/ WriteStdin
       \/ Terminate
       \/ Kill
       \/ ObserveStop
       \/ GiveUp
    /\ UNCHANGED <<endVars, leader, child, exit, produced, pending, pumpVars>>

Pumped == \A s \in Streams : pump[s] # "running"

\* waitForOutput
Drain ==
    /\ guest = "draining"
    /\ guest' = "confirming" /\ drained' = Pumped
    /\ UNCHANGED <<cause, inputs, clean, terminal>>

\* ConfirmCleanup polls the group until it is gone or the grace period ends.
\* Then the temporary inputs are removed.
ConfirmCleanup ==
    /\ guest = "confirming"
    /\ clean' = (GroupGone /\ (drained \/ ~Started))
    /\ Cleanup
    /\ guest' = "exiting"
    /\ UNCHANGED <<cause, drained, terminal>>

\* Faulty variant: only the leader is looked at.
ReceiptOfLeader ==
    LET confirmed == leader = "exited" /\ inputs = "removed"
    IN  [exit |-> exit, confirmed |-> confirmed, error |-> cause # "none" \/ ~confirmed]

\* The terminal of Run and of finishAfterFailure; a failed report of the exit
\* is an error of it.
Receipt ==
    LET confirmed == clean /\ inputs = "removed"
    IN  [exit |-> exit, confirmed |-> confirmed, error |-> cause # "none" \/ ~confirmed]

Exit ==
    /\ guest = "exiting"
    /\ \E ok \in Writes : EmitTerminal([Receipt EXCEPT !.error = @ \/ ~ok])
    /\ UNCHANGED <<cause, inputs, drained, clean>>

SupervisorNext ==
    /\ \/ /\ ValidateStart \/ Materialize \/ LaunchFails \/ Launch
          /\ UNCHANGED <<child, exit, signal, produced, pending, budget, posted, truncated, up>>
       \/ LoopNext
       \/ /\ Drain \/ ConfirmCleanup \/ Exit
          /\ UNCHANGED <<processVars, pumpVars, posted, up>>
    /\ UNCHANGED <<hostVars, arrived>>

\* One read of a pump: the chunk is charged to the budget both pumps share and
\* emitted, or the failure is posted and the pump ends with the rest unread.
PumpChunk(s) ==
    /\ pump[s] = "running" /\ pending[s] > 0
    /\ \/ /\ budget = 0
          /\ pump' = [pump EXCEPT ![s] = "failed"] /\ posted' = TRUE /\ truncated' = TRUE
          /\ UNCHANGED <<budget, pending>>
       \/ /\ budget > 0 /\ budget' = budget - 1
          /\ pending' = [pending EXCEPT ![s] = @ - 1]
          /\ \E ok \in Writes :
              /\ pump' = IF ok THEN pump ELSE [pump EXCEPT ![s] = "failed"]
              /\ posted' = (posted \/ ~ok) /\ truncated' = (truncated \/ ~ok)

\* End of file, once every writer of the pipe is gone.
PumpEnds(s) ==
    /\ pump[s] = "running" /\ pending[s] = 0 /\ GroupGone
    /\ pump' = [pump EXCEPT ![s] = "done"]
    /\ UNCHANGED <<budget, posted, truncated, pending>>

PumpNext ==
    /\ guest # "done"
    /\ \E s \in Streams : PumpChunk(s) \/ PumpEnds(s)
    /\ UNCHANGED <<hostVars, up, arrived, guest, cause, endVars, leader, child, exit, signal, produced>>

Settled == guest = "done" /\ UNCHANGED guestVars

Next ==
    \/ ProcessNext
    \/ HostNext
    \/ SupervisorNext
    \/ PumpNext
    \/ Settled

Spec == Init /\ [][Next]_guestVars

(* The deadline comes, the supervisor and its pumps run and SIGKILL takes  *)
(* effect.  The process need not do anything, nor read its input.          *)
Fairness ==
    /\ WF_guestVars(HostNext /\ expired')
    /\ WF_guestVars(SupervisorNext /\ guest # "stdin")
    /\ WF_guestVars(PumpNext)
    /\ WF_guestVars(ProcessNext /\ signal = "kill")

-------------------------------------------------------------------------------

TypeOK ==
    /\ expired \in BOOLEAN /\ control \in {"live", "quiet", "ended"} /\ link \in {"up", "cut"}
    /\ up \in {<<>>} \cup {<<k>> : k \in {"stdin", "signal", "resize", "close"}}
    /\ arrived \in 0..MaxInput
    /\ guest \in {"start", "inputs", "launch", "loop", "stdin", "stopping", "terminating", "killing",
                  "draining", "confirming", "exiting", "done"}
    /\ cause \in {"none", "emit", "output", "deadline", "heartbeat", "eof", "control"}
    /\ inputs \in {"none", "written", "removed"} /\ terminal \in Terminals
    /\ leader \in {"none", "running", "exited"} /\ child \in {"none", "running", "gone"}
    /\ budget \in 0..MaxBudget /\ produced \in 0..MaxOutput
    /\ pump \in [Streams -> {"idle", "running", "failed", "done"}]

(* A terminal frame that confirms the cleanup is true: no process of the   *)
(* group is left, no pump will emit any more, and the temporary inputs are *)
(* gone, unless they could not be written in full and removing what was    *)
(* written failed too (guest/supervisor.go:35-40 and 117).                 *)
ConfirmedIsClean ==
    terminal.confirmed => GroupGone /\ Pumped /\ (leader # "none" => inputs = "removed")

(* A terminal frame without an error reports whole output, but for one     *)
(* case: the process exited before the run loop read the failure that a    *)
(* pump had posted (guest/supervisor.go:83-110).                           *)
TruncationIsExplained ==
    (guest = "done" /\ ~terminal.error /\ truncated) => posted

(* Once the deadline has passed the supervisor ends, whatever the process  *)
(* does, unless it is blocked writing to the stdin of a process that does  *)
(* not read it: that write happens inside the run loop.                    *)
GuestEnds ==
    (guest = "loop" /\ expired) ~> (guest \in {"stdin", "done"})
===============================================================================
