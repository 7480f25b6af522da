------------------------------ MODULE AgentRunner ------------------------------
(***************************************************************************)
(* The embedding's way to run a command in an agent (adapters/agentrunner  *)
(* /environment.go): Execute creates an exec, moves it to starting, opens  *)
(* a process, moves the exec to running, exchanges frames and records the  *)
(* end.  Every step is a mutation of the core under a key derived from the *)
(* caller's, so that a retry repeats it.  An attempt is one call of        *)
(* Execute with the same key and the same request; attempts may overlap,   *)
(* and the daemon may crash and recover between them.  OpenExec of the     *)
(* public API starts in the same way.                                      *)
(***************************************************************************)
EXTENDS Naturals

CONSTANTS
    Attempts,       \* calls of Execute with one idempotency key
    MaxCrashes      \* bound on the crashes of the daemon

VARIABLES
    record, confirmed,      \* the durable exec, and whether its cleanup is
    answered,               \* the recorded result of each derived key
    agent, up, crashes,     \* whether the agent and the daemon are there
    pc, holds, result,      \* of an attempt: the record it acts on, its answer
    process,                \* what each attempt opened
    late, overlapped,       \* history: called after a start; read together
    reconciled              \* history: recovered while the daemon was up

runnerVars == <<record, confirmed, answered, agent, up, crashes, pc, holds, result,
                process, late, overlapped, reconciled>>

Terminal == {"completed", "failed", "cancelled", "lost"}
Opened == {a \in Attempts : process[a] # "none"}
Alive == {a \in Attempts : process[a] = "alive"}
NoEnd == [from |-> "none", state |-> "none"]

Init ==
    /\ record = "none" /\ confirmed = FALSE
    /\ answered = [starting |-> FALSE, running |-> FALSE, finalize |-> NoEnd]
    /\ agent = "ready" /\ up = TRUE /\ crashes = 0
    /\ pc = [a \in Attempts |-> "idle"] /\ holds = [a \in Attempts |-> NoEnd]
    /\ result = [a \in Attempts |-> "none"]
    /\ process = [a \in Attempts |-> "none"]
    /\ late = {} /\ overlapped = FALSE /\ reconciled = FALSE

Returns(a, r) == pc' = [pc EXCEPT ![a] = "done"] /\ result' = [result EXCEPT ![a] = r]
Goes(a, p) == pc' = [pc EXCEPT ![a] = p] /\ UNCHANGED result

-------------------------------------------------------------------------------
(* The steps of one attempt.                                               *)

\* The history of a call: whether a process was opened before it, and whether
\* it reads the exec while another attempt is about to move it.
Called(a) ==
    /\ late' = IF Opened = {} THEN late ELSE late \cup {a}
    /\ overlapped' = (overlapped \/ (record = "requested" /\ \E b \in Attempts : pc[b] = "start"))

\* What Execute makes of the record CreateExec returned.
Judge(a, r) ==
    CASE r \in Terminal  -> Returns(a, r)
      [] r = "requested" -> Goes(a, "start")
      [] OTHER           -> Returns(a, "in_progress")

\* Faulty variant: the replay returns the exec as it was created.
CreateExecRecorded(a) ==
    /\ pc[a] = "idle" /\ up
    /\ Called(a)
    /\ record' = IF record = "none" THEN "requested" ELSE record
    /\ Judge(a, "requested")
    /\ UNCHANGED <<confirmed, answered, holds, process>>

\* CreateExec records only the identity of the exec as its answer, so that a
\* replay reads the exec as it is now.
CreateExec(a) ==
    /\ pc[a] = "idle" /\ up
    /\ Called(a)
    /\ \/ agent = "ready" \/ record # "none"
    /\ record' = IF record = "none" THEN "requested" ELSE record
    /\ Judge(a, record')
    /\ UNCHANGED <<confirmed, answered, holds, process>>

\* TransitionExec to starting, at the revision that was read.  A replay has the
\* recorded answer whatever the exec is by now.  A failure leaves the exec.
TransitionStarting(a) ==
    /\ pc[a] = "start"
    /\ \/ /\ answered.starting \/ (record = "requested" /\ agent = "ready")
          /\ answered' = [answered EXCEPT !.starting = TRUE]
          /\ record' = IF answered.starting THEN record ELSE "starting"
          /\ Goes(a, "open")
       \/ /\ Returns(a, "error")
          /\ UNCHANGED <<record, answered>>
    /\ UNCHANGED <<confirmed, holds, process, late, overlapped>>

\* What an attempt will record: the state it acts on, the end and its cleanup.
Ends(a, from, state) ==
    /\ holds' = [holds EXCEPT ![a] = [from |-> from, state |-> state]]
    /\ Goes(a, "finalize")

\* driver.OpenExec
OpenExec(a) ==
    /\ pc[a] = "open"
    /\ \/ /\ agent = "ready"
          /\ process' = [process EXCEPT ![a] = "alive"]
          /\ Goes(a, "run") /\ UNCHANGED holds
       \/ Ends(a, "starting", "failed") /\ UNCHANGED process
    /\ UNCHANGED <<record, confirmed, answered, late, overlapped>>

\* stream.Close may leave a process it could not reach.
Closed(a) == process' \in {[process EXCEPT ![a] = IF @ = "alive" THEN p ELSE @] : p \in {"alive", "gone"}}

\* TransitionExec to running; when it fails the stream is closed.
TransitionRunning(a) ==
    /\ pc[a] = "run"
    /\ \/ /\ answered.running \/ (record = "starting" /\ agent = "ready")
          /\ answered' = [answered EXCEPT !.running = TRUE]
          /\ record' = IF answered.running THEN record ELSE "running"
          /\ Goes(a, "exchange") /\ UNCHANGED <<holds, process>>
       \/ /\ Ends(a, "starting", "failed") /\ Closed(a)
          /\ UNCHANGED <<record, answered>>
    /\ UNCHANGED <<confirmed, late, overlapped>>

\* exchange returns the terminal frame of a process that has ended, an error
\* when the input could not all be sent, or an error of its own: the stream
\* broke, a callback failed, the output exceeded its limit or the context ended.
Exchange(a) ==
    /\ pc[a] = "exchange"
    /\ \/ process[a] = "zero" /\ Ends(a, "running", "completed")
       \/ process[a] = "bad" /\ Ends(a, "running", "failed")
       \/ \E s \in {"lost", "cancelled"} : Ends(a, "running", s)
    /\ Closed(a)
    /\ UNCHANGED <<record, confirmed, answered, late, overlapped>>

\* Faulty variant: the end is recorded whatever became of the exec.
FinalizeUnfenced(a) ==
    /\ pc[a] = "finalize"
    /\ record' = holds[a].state
    /\ confirmed' = (process[a] \in {"zero", "bad"} /\ holds[a].state \in {"completed", "failed"})
    /\ Returns(a, holds[a].state)
    /\ UNCHANGED <<answered, holds, process, late, overlapped>>

\* FinalizeExec under a context of its own: a repetition of the same end has
\* the recorded answer, another end under the key conflicts, and so does an exec
\* that is no longer what the attempt holds.  It may fail and change nothing.
Finalize(a) ==
    /\ pc[a] = "finalize"
    /\ \/ /\ answered.finalize = holds[a]
          /\ Returns(a, holds[a].state) /\ UNCHANGED <<record, confirmed, answered>>
       \/ /\ answered.finalize = NoEnd /\ record = holds[a].from
          /\ answered' = [answered EXCEPT !.finalize = holds[a]]
          /\ record' = holds[a].state
          /\ confirmed' = (process[a] \in {"zero", "bad"} /\ holds[a].state \in {"completed", "failed"})
          /\ Returns(a, holds[a].state)
       \/ Returns(a, "error") /\ UNCHANGED <<record, confirmed, answered>>
    /\ UNCHANGED <<holds, process, late, overlapped>>

Attempt(a) ==
    /\ \/ CreateExec(a) \/ TransitionStarting(a) \/ OpenExec(a) \/ TransitionRunning(a)
       \/ Exchange(a) \/ Finalize(a)
    /\ UNCHANGED <<agent, up, crashes, reconciled>>

-------------------------------------------------------------------------------
(* What happens around the attempts.                                       *)

ProcessEnds(a) ==
    /\ process[a] = "alive"
    /\ process' \in {[process EXCEPT ![a] = "zero"], [process EXCEPT ![a] = "bad"]}
    /\ UNCHANGED <<record, confirmed, answered, agent, up, crashes, pc, holds, result, late, overlapped, reconciled>>

Gone == process' = [a \in Attempts |-> IF process[a] = "alive" THEN "gone" ELSE process[a]]

\* The lease is terminated: the agent is destroyed and then its exec ended.
TerminateLease ==
    /\ up /\ agent = "ready" /\ record # "none"
    /\ agent' = "gone" /\ Gone
    /\ record' = IF record \in Terminal THEN record ELSE "cancelled"
    /\ confirmed' = (confirmed \/ record \notin Terminal)
    /\ UNCHANGED <<answered, up, crashes, pc, holds, result, late, overlapped, reconciled>>

Crash ==
    /\ up /\ crashes < MaxCrashes
    /\ up' = FALSE /\ crashes' = crashes + 1
    /\ pc' = [a \in Attempts |-> IF pc[a] = "idle" THEN "idle" ELSE "done"]
    /\ result' = [a \in Attempts |-> IF pc[a] \in {"idle", "done"} THEN result[a] ELSE "crashed"]
    /\ UNCHANGED <<record, confirmed, answered, agent, holds, process, late, overlapped, reconciled>>

\* Faulty variant: the exec is ended without a look at its processes.
RecoverExecsUnproven ==
    /\ record' = IF record \in {"starting", "running"} THEN "lost" ELSE record
    /\ confirmed' = (confirmed \/ record \in {"starting", "running"})
    /\ UNCHANGED process

\* recoverPersistedExecs: every exec that is starting or running counts as
\* interrupted.  The driver stops the whole generation, processes included,
\* before the exec is recorded as lost.
RecoverExecs ==
    IF record \in {"starting", "running"}
    THEN Gone /\ record' = "lost" /\ confirmed' = TRUE
    ELSE UNCHANGED <<process, record, confirmed>>

\* At the start of the daemon no attempt is under way.
Recover ==
    /\ ~up /\ up' = TRUE
    /\ RecoverExecs
    /\ UNCHANGED <<answered, agent, crashes, pc, holds, result, late, overlapped, reconciled>>

\* Manager.Reconcile does the same at the embedding's request.
Reconcile ==
    /\ up /\ agent = "ready" /\ record \in {"starting", "running"}
    /\ RecoverExecs
    /\ reconciled' = TRUE
    /\ UNCHANGED <<answered, agent, up, crashes, pc, holds, result, late, overlapped>>

Done == (\A a \in Attempts : pc[a] = "done") /\ up /\ Alive = {} /\ UNCHANGED runnerVars

Next ==
    \/ \E a \in Attempts : Attempt(a)
    \/ \E a \in Attempts : ProcessEnds(a)
    \/ TerminateLease
    \/ Crash
    \/ Recover
    \/ Reconcile
    \/ Done

Spec == Init /\ [][Next]_runnerVars

-------------------------------------------------------------------------------

TypeOK ==
    /\ record \in {"none", "requested", "starting", "running"} \cup Terminal
    /\ confirmed \in BOOLEAN /\ agent \in {"ready", "gone"} /\ up \in BOOLEAN
    /\ crashes \in 0..MaxCrashes
    /\ pc \in [Attempts -> {"idle", "start", "open", "run", "exchange", "finalize", "done"}]
    /\ result \in [Attempts -> Terminal \cup {"none", "in_progress", "error", "crashed"}]
    /\ process \in [Attempts -> {"none", "alive", "zero", "bad", "gone"}]
    /\ late \subseteq Attempts /\ {overlapped, reconciled} \subseteq BOOLEAN

(* A retry never runs the command again: an attempt called after a process *)
(* was opened opens none, across crashes and recovery.  Only attempts that *)
(* read the exec together, before either moved it to starting, may both    *)
(* open one: the second replays the first one's transition                 *)
(* (environment.go Execute).                                               *)
RetryStartsNothing ==
    /\ late \cap Opened = {}
    /\ ~overlapped => \A a, b \in Opened : a = b

(* What an attempt returns as the end of the exec is what is recorded, and *)
(* success is that of a process that ended so.                             *)
ReturnedIsRecorded ==
    \A a \in Attempts : result[a] \in Terminal =>
        /\ result[a] = record
        /\ (record = "completed") => (\E b \in Attempts : process[b] = "zero")

(* An exec whose cleanup is recorded as confirmed has no process left,     *)
(* unless attempts overlapped or a recovery met an attempt under way       *)
(* (exec_reconciliation.go).                                               *)
ConfirmedIsGone == (confirmed /\ ~overlapped /\ ~reconciled) => Alive = {}

(* An exec that recovery records as lost was cut off by a restart of the   *)
(* daemon: "execution lost control-plane continuity during daemon restart" *)
(* (exec_reconciliation.go:14).                                            *)
LostByRestart == (record = "lost" /\ confirmed) => crashes > 0

(* Every attempt returns.                                                  *)
AttemptEnded(a) == pc[a] \in {"idle", "done"}
===============================================================================
