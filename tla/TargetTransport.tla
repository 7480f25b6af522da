---------------------------- MODULE TargetTransport ---------------------------
(***************************************************************************)
(* A transfer, tunnel or exec of a running target run.  The handler        *)
(* (internal/orchestration/target_io.go, exec.go) creates an operation     *)
(* record, opens a transport of its own at the target driver, works        *)
(* through it, closes it and ends the record.  Meanwhile the driver may    *)
(* revoke and drain the transport, when the run is stopped or contained.   *)
(* Both close at once, through the same single closer: targetTransport of  *)
(* linuxcontainer waits for the operation before it closes what is held,   *)
(* androidTransport of cuttlefish closes the endpoints first.              *)
(***************************************************************************)
EXTENDS Naturals

CONSTANT Works      \* <<driver, operation>> pairs: <<"linux", "push">>, ...

VARIABLES
    work,           \* which driver serves which operation
    expired,        \* the request's context has ended
    pc, record,     \* the handler, and the operation record
    published,      \* the pushed file is in place
    fact,           \* the lifecycle fact of the success is recorded
    closed, drained, closing, closeErr, active, held,   \* the transport
    background,     \* whether a goroutine closes what was held, and what it took
    closer          \* the two callers of Close

handlerVars   == <<pc, record, published, fact>>
closeVars     == <<drained, closing, closeErr, background>>
transportVars == <<work, expired, handlerVars, closed, closeVars, active, held, closer>>

Linux == work[1] = "linux"
Operation == work[2]
Closers == {"handler", "driver"}
Idle == [on |-> FALSE, taken |-> {}]
Ended == {"completed", "failed", "cancelled"}

Init ==
    /\ work \in Works /\ expired = FALSE
    /\ pc = "create" /\ record = "none" /\ published = FALSE /\ fact = FALSE
    /\ closed = FALSE /\ drained = FALSE /\ closing = FALSE /\ closeErr = FALSE
    /\ active = 0 /\ held = {} /\ background = Idle
    /\ closer = [c \in Closers |-> "idle"]

Go(s) == pc' = s

-------------------------------------------------------------------------------
(* The handler before and after the transport.                             *)

\* CreateTargetOperation, after the run was found running.
CreateOperation ==
    /\ pc = "create"
    /\ \/ ~expired /\ record' = "requested" /\ Go("open")
       \/ expired /\ UNCHANGED record /\ Go("done")
    /\ UNCHANGED <<published, fact, closed, active, held, closer>>

\* OpenTransport of the driver.  A tunnel and an exec are opened before the
\* record moves to running, a transfer after.
OpenTransport ==
    /\ pc = "open"
    /\ \/ Go("fail")
       \/ Operation \in {"push", "pull"} /\ Go("run")
       \/ Operation \in {"adb", "exec"} /\ Go("begin")
    /\ UNCHANGED <<record, published, fact, closed, active, held, closer>>

\* The record moves to running.  Once the request has ended that fails: a
\* transfer or tunnel then only closes, an exec also ends its record.
Run ==
    /\ pc = "run"
    /\ \/ /\ ~expired /\ record' = "running" /\ UNCHANGED closer
          /\ Go(IF Operation \in {"push", "pull"} THEN "begin" ELSE "exchange")
       \/ /\ expired /\ UNCHANGED record
          /\ closer' = [closer EXCEPT !["handler"] = "try"]
          /\ Go(IF Operation = "exec" THEN "closingFailed" ELSE "abandon")
    /\ UNCHANGED <<published, fact, closed, active, held>>

\* beginOperation
Begin ==
    /\ pc = "begin"
    /\ \/ /\ ~closed /\ active' = 1 /\ Go("transfer") /\ UNCHANGED closer
       \/ /\ closed /\ Go("closingFailed") /\ UNCHANGED active
          /\ closer' = [closer EXCEPT !["handler"] = "try"]
    /\ UNCHANGED <<record, published, fact, closed, held>>

\* endOperation, and the handler closes the transport on the way out.
EndWith(s) ==
    /\ active' = 0
    /\ Go(s)
    /\ closer' = IF s \in {"closing", "closingFailed"}
                 THEN [closer EXCEPT !["handler"] = "try"] ELSE closer

\* A copy that fails: the context ended or was cancelled, the bytes are too
\* many or others than the operation names, or the target refuses.
TransferFails ==
    /\ pc \in {"transfer", "publish"}
    /\ EndWith("closingFailed")
    /\ UNCHANGED <<record, published, fact, closed, held>>

\* Faulty variant: the operation ends before the file is renamed in place.
PushContentDetached ==
    /\ pc = "transfer" /\ Operation = "push" /\ ~expired
    /\ ~(Linux /\ closed)
    /\ active' = 0
    /\ Go("publish")
    /\ UNCHANGED <<record, published, fact, closed, held, closer>>

\* PushFile writes beside the destination and asks once more whether the
\* transport is open; the Android gateway has no such question.
PushContent ==
    /\ pc = "transfer" /\ Operation = "push" /\ ~expired
    /\ ~(Linux /\ closed)
    /\ Go("publish")
    /\ UNCHANGED <<record, published, fact, closed, active, held, closer>>

\* The file is renamed in place.
Publish ==
    /\ pc = "publish" /\ Operation = "push"
    /\ published' = TRUE
    /\ Go("record")
    /\ UNCHANGED <<record, fact, closed, active, held, closer>>

\* The snapshot of an Android pull belongs to the handler alone.
Tracked == Linux \/ Operation # "pull"

\* PullFile reads a snapshot, OpenExec and OpenADB open what the handler will
\* use.  It is held by the transport unless that was closed meanwhile; what
\* cannot be closed then is held all the same.
Hold ==
    /\ pc = "transfer" /\ Operation \in {"pull", "exec", "adb"}
    /\ \/ /\ ~closed /\ Go("record") /\ UNCHANGED <<active, closer>>
          /\ held' = IF Tracked THEN {Operation} ELSE {}
       \/ /\ closed /\ EndWith("closingFailed")
          /\ \/ UNCHANGED held
             \/ Operation = "adb" /\ held' = {"adb"}
    /\ UNCHANGED <<record, published, fact, closed>>

\* recordLifecycle, recordSuccessfulPush, recordADBAuthority: the success is a
\* fact of the run, which a run that is over does not take.  An Android push
\* looks once more whether the transport is open.
RecordFact ==
    /\ pc = "record"
    /\ ~(Operation = "push" /\ ~Linux /\ closed)
    /\ fact' = TRUE
    /\ EndWith(CASE Operation = "push" -> "closing"
                 [] Operation = "pull" -> "exchange"
                 [] OTHER              -> "run")
    /\ UNCHANGED <<record, published, closed, held>>

RecordFails ==
    /\ pc = "record"
    /\ EndWith("closingFailed")
    /\ held' \in {held, {}}
    /\ UNCHANGED <<record, published, fact, closed>>

\* The content of a pull is sent, or a tunnel or exec is relayed: to its end,
\* or until it fails, as it does once the driver has closed what was held.
Exchange ==
    /\ pc = "exchange"
    /\ \/ Go("closing") /\ (Tracked => held \cup background.taken # {})
       \/ Go("closingFailed")
    /\ closer' = [closer EXCEPT !["handler"] = "try"]
    /\ held' = IF Operation = "pull" THEN {} ELSE held
    /\ UNCHANGED <<record, published, fact, closed, active>>

\* The handler's Close has returned.
Closed ==
    /\ closer["handler"] \in {"ok", "err"}
    /\ \/ pc = "closing" /\ Go(IF closer["handler"] = "ok" THEN "complete" ELSE "fail")
       \/ pc = "closingFailed" /\ Go("fail")
       \/ pc = "abandon" /\ Go("done")
    /\ UNCHANGED <<record, published, fact, closed, active, held, closer>>

\* transitionOperation and finalizeOperationFailure, under a fresh context once
\* the request has ended.
Finish ==
    /\ \/ pc = "complete" /\ record' = "completed"
       \/ pc = "fail" /\ record' \in {"failed", "cancelled"} /\ (record' = "cancelled" => expired)
    /\ Go("done")
    /\ UNCHANGED <<published, fact, closed, active, held, closer>>

HandlerNext ==
    /\ \/ CreateOperation
       \/ OpenTransport
       \/ Run
       \/ Begin
       \/ TransferFails
       \/ PushContent
       \/ Publish
       \/ Hold
       \/ RecordFact
       \/ RecordFails
       \/ Exchange
       \/ Closed
       \/ Finish
    /\ UNCHANGED <<work, expired, closeVars>>

Expire ==
    /\ ~expired /\ pc # "done"
    /\ expired' = TRUE
    /\ UNCHANGED <<work, handlerVars, closed, closeVars, active, held, closer>>

-------------------------------------------------------------------------------
(* Closing.  Each caller has a deadline of its own.                        *)

\* The driver revokes the transports of a run and drains them.
Revoke ==
    /\ closer["driver"] = "idle" /\ pc \notin {"create", "open"}
    /\ closed' = TRUE
    /\ closer' = [closer EXCEPT !["driver"] = "try"]
    /\ UNCHANGED <<closeVars, held>>

Move(c, s) == closer' = [closer EXCEPT ![c] = s]

\* The first to come closes, the others wait for it.  Android takes the
\* endpoints at once, Linux first waits for the operation.
BeginClose(c) ==
    /\ closer[c] = "try"
    /\ closed' = TRUE
    /\ \/ drained /\ Move(c, "ok") /\ UNCHANGED <<closeVars, held>>
       \/ ~drained /\ closing /\ Move(c, "waiting") /\ UNCHANGED <<closeVars, held>>
       \/ /\ ~drained /\ ~closing /\ closing' = TRUE
          /\ Move(c, IF Linux THEN "idling" ELSE "closing")
          /\ background' = IF Linux THEN Idle ELSE [on |-> TRUE, taken |-> held]
          /\ held' = IF Linux THEN held ELSE {}
          /\ UNCHANGED <<drained, closeErr>>

\* Faulty variant: what is held is closed while the operation still runs.
IdleLinuxAtOnce(c) ==
    /\ Linux /\ closer[c] = "idling"
    /\ background' = [on |-> TRUE, taken |-> held] /\ Move(c, "closing")
    /\ UNCHANGED <<closed, drained, closing, closeErr, held>>

IdleLinux(c) ==
    /\ Linux /\ closer[c] = "idling"
    /\ active = 0
    /\ background' = [on |-> TRUE, taken |-> held] /\ Move(c, "closing")
    /\ UNCHANGED <<closed, drained, closing, closeErr, held>>

\* The goroutine that closes; what fails to close stays held.
CloseHeld ==
    /\ background.on
    /\ background' = Idle /\ closing' = FALSE
    /\ \/ held' = held \ background.taken /\ closeErr' = FALSE /\ drained' = Linux
       \/ /\ background.taken # {} /\ held' = held \cup background.taken
          /\ closeErr' = TRUE /\ UNCHANGED drained
    /\ UNCHANGED <<closed, closer>>

\* The attempt is over, one's own or the one waited for.
CloseReturns(c) ==
    /\ closer[c] \in {"closing", "waiting"} /\ ~closing
    /\ Move(c, CASE closeErr       -> "err"
                 [] drained        -> "ok"
                 [] Linux          -> "try"
                 [] OTHER          -> "idling")
    /\ UNCHANGED <<closed, closeVars, held>>

\* Android waits for the operation last, and closes what it left.
IdleAndroid(c) ==
    /\ ~Linux /\ closer[c] = "idling"
    /\ active = 0
    /\ \/ ~closing /\ held = {} /\ drained' = TRUE /\ Move(c, "ok")
       \/ (closing \/ held # {}) /\ Move(c, "try") /\ UNCHANGED drained
    /\ UNCHANGED <<closed, closing, closeErr, background, held>>

\* The caller's deadline ends; a handler closes an Android transport without
\* one.  A Linux caller that was waiting for the operation gives the closing up.
CloseTimesOut(c) ==
    /\ closer[c] \in {"idling", "closing", "waiting"}
    /\ Linux \/ c = "driver"
    /\ IF Linux /\ closer[c] = "idling"
       THEN closing' = FALSE /\ closeErr' = TRUE ELSE UNCHANGED <<closing, closeErr>>
    /\ Move(c, "err")
    /\ UNCHANGED <<closed, drained, background, held>>

Apart == UNCHANGED <<work, expired, handlerVars, active>>
RevokeNext == Revoke /\ Apart
BackgroundNext == CloseHeld /\ Apart
CloserNext(c) ==
    /\ \/ BeginClose(c)
       \/ IdleLinux(c)
       \/ CloseReturns(c)
       \/ IdleAndroid(c)
    /\ Apart
TimeoutNext(c) == CloseTimesOut(c) /\ Apart

Settled == pc = "done" /\ closer["driver"] \in {"idle", "ok", "err"} /\ UNCHANGED transportVars

Next ==
    \/ HandlerNext
    \/ RevokeNext
    \/ BackgroundNext
    \/ \E c \in Closers : CloserNext(c) \/ TimeoutNext(c)
    \/ Expire
    \/ Settled

Spec == Init /\ [][Next]_transportVars

(* The handler and the closers are scheduled, and a caller that keeps      *)
(* waiting meets its deadline.                                             *)
Fairness ==
    /\ WF_transportVars(HandlerNext)
    /\ WF_transportVars(BackgroundNext)
    /\ \A c \in Closers : WF_transportVars(CloserNext(c)) /\ SF_transportVars(TimeoutNext(c))

-------------------------------------------------------------------------------

TypeOK ==
    /\ work \in Works
    /\ pc \in {"create", "open", "run", "begin", "transfer", "publish", "record", "exchange",
               "closing", "closingFailed", "abandon", "complete", "fail", "done"}
    /\ record \in {"none", "requested", "running"} \cup Ended
    /\ active \in 0..1 /\ held \subseteq {"pull", "exec", "adb"}
    /\ background \in [on : BOOLEAN, taken : SUBSET {"pull", "exec", "adb"}]
    /\ closer \in [Closers -> {"idle", "try", "waiting", "idling", "closing", "ok", "err"}]

(* A drained transport is quiet: no operation runs in it and nothing it    *)
(* opened is left (the driver stops and destroys the target on the word of *)
(* it: transport.go closeContext, closeWithContext).                       *)
DrainedIsQuiet == drained => active = 0 /\ held = {} /\ ~closing

(* A file is put in place only while the transport is not drained, also    *)
(* when it was revoked between the last check and the rename.              *)
PublishesUndrained == published' # published => ~drained
NothingAfterDrain == [][PublishesUndrained]_transportVars

(* An operation is completed only with its effect and its fact.            *)
CompletedHasFact ==
    record = "completed" => fact /\ (Operation = "push" => published)

(* A handler that is done leaves a terminal record, unless its request     *)
(* ended before the operation was running: the record of a transfer or a   *)
(* tunnel then stays requested (target_io.go:101, 161, 283).               *)
DoneIsRecorded ==
    (pc = "done" /\ record \notin Ended) => expired /\ record \in {"none", "requested"}

(* Every Close returns, and the handler ends.                              *)
CloseEnds ==
    /\ (pc = "open") ~> (pc = "done")
    /\ (closer["driver"] = "try") ~> (closer["driver"] \in {"ok", "err"})
===============================================================================
