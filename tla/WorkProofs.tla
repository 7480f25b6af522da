----------------------------- MODULE WorkProofs -------------------------------
(***************************************************************************)
(* Proofs about the transports of the target drivers (TargetTransport) and *)
(* the agent runner (AgentRunner), for any kinds of work, any number of    *)
(* attempts and any number of crashes.  The instances rename what the two  *)
(* components would otherwise share.                                       *)
(***************************************************************************)
EXTENDS Naturals, TLAPS

CONSTANTS
    Works,                      \* TargetTransport
    Attempts, RunnerCrashes     \* AgentRunner

VARIABLES work, overdue, transfer, operation, published, fact, transportClosed, drained,
          transportClosing, transportErr, active, held, background, transportCloser,
          execution, confirmed, answered, agent, daemonUp, restarts, attempt, holds,
          result, process, late, overlapped, reconciled

Transport == INSTANCE TargetTransport WITH
    expired <- overdue, pc <- transfer, record <- operation, closed <- transportClosed,
    closing <- transportClosing, closeErr <- transportErr, closer <- transportCloser
Runner == INSTANCE AgentRunner WITH
    MaxCrashes <- RunnerCrashes, record <- execution, pc <- attempt, up <- daemonUp,
    crashes <- restarts

-----------------------------------------------------------------------------
(* Transports of the target drivers.                                       *)

Booleans ==
    /\ overdue \in BOOLEAN /\ published \in BOOLEAN /\ fact \in BOOLEAN
    /\ transportClosed \in BOOLEAN /\ drained \in BOOLEAN /\ transportClosing \in BOOLEAN
    /\ transportErr \in BOOLEAN

\* Where the handler is between beginOperation and endOperation.
Inside == {"transfer", "publish", "record"}

\* What a place of the handler says of the record, the file and the fact.
HandlerInv ==
    /\ active = IF transfer \in Inside THEN 1 ELSE 0
    /\ transfer = "create" => operation = "none"
    /\ transfer \in {"open", "run", "abandon"} => operation = "requested"
    /\ transfer \in {"begin"} \cup Inside /\ Transport!Operation \notin {"push", "pull"} => operation = "requested"
    /\ transfer = "abandon" => overdue
    /\ transfer \in {"exchange", "closing", "complete"} => fact
    /\ transfer = "run" /\ Transport!Operation \notin {"push", "pull"} => fact
    /\ transfer = "exchange" => Transport!Operation # "push"
    /\ transfer \in {"record", "closing", "complete"} /\ Transport!Operation = "push" => published
    /\ operation = "completed" => transfer = "done"

\* A closing that is under way has one owner, and closes nothing of a Linux
\* transport before its operation has ended.
CloseInv ==
    /\ drained => transportClosed
    /\ transportClosing => transportClosed
    /\ \A c \in Transport!Closers : transportCloser[c] \notin {"idle", "try"} => transportClosed
    /\ background.on => transportClosing
    /\ background.on /\ Transport!Linux => active = 0 /\ held \subseteq background.taken
    /\ Transport!Linux => \A c \in Transport!Closers : transportCloser[c] = "idling" => transportClosing /\ ~background.on
    /\ Transport!Linux => \A c, d \in Transport!Closers :
          transportCloser[c] = "idling" /\ transportCloser[d] = "idling" => c = d

TransportInv ==
    /\ Transport!TypeOK /\ Booleans /\ HandlerInv /\ CloseInv
    /\ Transport!DrainedIsQuiet /\ Transport!CompletedHasFact /\ Transport!DoneIsRecorded

-----------------------------------------------------------------------------

\* What a transport holds.
Things == {"pull", "exec", "adb"}

\* An abandoned close is typed.
LEMMA IdleTyped == Transport!Idle \in [on : BOOLEAN, taken : SUBSET Things]
<1>1. {} \in SUBSET Things /\ FALSE \in BOOLEAN
  OBVIOUS
<1> QED
  BY <1>1 DEF Transport!Idle

\* A transport that was never opened satisfies the invariant.
LEMMA TransportInit == Transport!Init => TransportInv
<1> SUFFICES ASSUME Transport!Init PROVE TransportInv
  OBVIOUS
<1>1. background \in [on : BOOLEAN, taken : SUBSET Things]
  BY IdleTyped DEF Transport!Init
<1>2. transportCloser \in [Transport!Closers -> {"idle", "try", "waiting", "idling", "closing", "ok", "err"}]
  BY DEF Transport!Init
<1>3. Transport!TypeOK /\ Booleans
  <2>1. work \in Works /\ active \in 0..1 /\ held \subseteq Things
    BY DEF Transport!Init
  <2>2. transfer = "create" /\ operation = "none" /\ Booleans
    BY Zenon DEF Transport!Init, Booleans
  <2> QED
    BY <1>1, <1>2, <2>1, <2>2 DEF Transport!TypeOK, Things, Transport!Ended
<1>4. HandlerInv /\ Transport!DrainedIsQuiet /\ Transport!CompletedHasFact /\ Transport!DoneIsRecorded
  BY DEF Transport!Init, HandlerInv, Transport!DrainedIsQuiet, Transport!CompletedHasFact,
     Transport!DoneIsRecorded, Inside
<1>5. CloseInv
  BY DEF Transport!Init, CloseInv, Transport!Idle
<1> QED
  BY <1>3, <1>4, <1>5 DEF TransportInv

\* A step of the handler keeps the types.
LEMMA HandlerTypes ==
    ASSUME TransportInv, Transport!HandlerNext
    PROVE  Transport!TypeOK' /\ Booleans'
<1> USE DEF TransportInv, Transport!TypeOK, Booleans, Transport!closeVars, Transport!Go,
Transport!EndWith, Transport!Closers, Transport!Ended
<1>0. UNCHANGED <<work, overdue, Transport!closeVars>>
  BY DEF Transport!HandlerNext
<1>1. CASE Transport!CreateOperation
  BY <1>0, <1>1 DEF Transport!CreateOperation
<1>2. CASE Transport!OpenTransport
  BY <1>0, <1>2 DEF Transport!OpenTransport
<1>3. CASE Transport!Run
  BY <1>0, <1>3 DEF Transport!Run
<1>4. CASE Transport!Begin
  BY <1>0, <1>4 DEF Transport!Begin
<1>5. CASE Transport!TransferFails
  BY <1>0, <1>5 DEF Transport!TransferFails
<1>6. CASE Transport!PushContent
  BY <1>0, <1>6 DEF Transport!PushContent
<1>7. CASE Transport!Publish
  BY <1>0, <1>7 DEF Transport!Publish
<1>8. CASE Transport!Hold
  <2>1. held' \subseteq {"pull", "exec", "adb"}
    BY <1>8, Zenon DEF Transport!Hold
  <2>2. active' \in 0..1 /\ transfer' \in {"record", "closingFailed"}
    BY <1>8 DEF Transport!Hold
  <2>3. transportCloser' \in [Transport!Closers -> {"idle", "try", "waiting", "idling", "closing", "ok", "err"}]
    BY <1>8 DEF Transport!Hold
  <2> QED
    BY <1>0, <1>8, <2>1, <2>2, <2>3 DEF Transport!Hold
<1>9. CASE Transport!RecordFact
  BY <1>0, <1>9 DEF Transport!RecordFact
<1>10. CASE Transport!RecordFails
  BY <1>0, <1>10 DEF Transport!RecordFails
<1>11. CASE Transport!Exchange
  <2>1. held' \subseteq {"pull", "exec", "adb"}
    BY <1>11, Zenon DEF Transport!Exchange
  <2>2. transportCloser' \in [Transport!Closers -> {"idle", "try", "waiting", "idling", "closing", "ok", "err"}]
    BY <1>11 DEF Transport!Exchange
  <2>3. transfer' \in {"closing", "closingFailed"}
    BY <1>11 DEF Transport!Exchange
  <2> QED
    BY <1>0, <1>11, <2>1, <2>2, <2>3 DEF Transport!Exchange
<1>12. CASE Transport!Closed
  BY <1>0, <1>12 DEF Transport!Closed
<1>13. CASE Transport!Finish
  BY <1>0, <1>13 DEF Transport!Finish
<1> QED
  BY <1>1, <1>2, <1>3, <1>4, <1>5, <1>6, <1>7, <1>8, <1>9, <1>10, <1>11, <1>12,
     <1>13 DEF Transport!HandlerNext

\* A step of the handler keeps what its place says.
LEMMA HandlerPlaces ==
    ASSUME TransportInv, Transport!HandlerNext
    PROVE  HandlerInv' /\ Transport!CompletedHasFact' /\ Transport!DoneIsRecorded'
<1> USE DEF TransportInv, Transport!TypeOK, Booleans, HandlerInv, Transport!CompletedHasFact,
Transport!DoneIsRecorded,
            Inside, Transport!Go, Transport!EndWith, Transport!Operation, Transport!Ended
<1>0. UNCHANGED <<work, overdue>>
  BY DEF Transport!HandlerNext
<1>1. CASE Transport!CreateOperation
  BY <1>0, <1>1 DEF Transport!CreateOperation
<1>2. CASE Transport!OpenTransport
  BY <1>0, <1>2 DEF Transport!OpenTransport
<1>3. CASE Transport!Run
  BY <1>0, <1>3 DEF Transport!Run
<1>4. CASE Transport!Begin
  BY <1>0, <1>4 DEF Transport!Begin
<1>5. CASE Transport!TransferFails
  BY <1>0, <1>5 DEF Transport!TransferFails
<1>6. CASE Transport!PushContent
  BY <1>0, <1>6 DEF Transport!PushContent
<1>7. CASE Transport!Publish
  BY <1>0, <1>7 DEF Transport!Publish
<1>8. CASE Transport!Hold
  BY <1>0, <1>8 DEF Transport!Hold
<1>9. CASE Transport!RecordFact
  BY <1>0, <1>9 DEF Transport!RecordFact
<1>10. CASE Transport!RecordFails
  BY <1>0, <1>10 DEF Transport!RecordFails
<1>11. CASE Transport!Exchange
  BY <1>0, <1>11, Zenon DEF Transport!Exchange
<1>12. CASE Transport!Closed
  BY <1>0, <1>12, Zenon DEF Transport!Closed
<1>13. CASE Transport!Finish
  BY <1>0, <1>13 DEF Transport!Finish
<1> QED
  BY <1>1, <1>2, <1>3, <1>4, <1>5, <1>6, <1>7, <1>8, <1>9, <1>10, <1>11, <1>12,
     <1>13 DEF Transport!HandlerNext

\* A step of the handler outside the operation holds nothing more, inside it
\* the transport is not drained, and it begins no closing.
LEMMA HandlerHolds ==
    ASSUME TransportInv, Transport!HandlerNext
    PROVE  /\ UNCHANGED <<work, drained, transportClosing, background, transportClosed>>
           /\ transportCloser' \in {transportCloser, [transportCloser EXCEPT !["handler"] = "try"]}
           /\ active = 0 => held' \in {held, {}}
           /\ active = 0 /\ transportClosed => active' = 0
<1> USE DEF TransportInv, HandlerInv, Inside, Transport!Go, Transport!EndWith
<1>0. UNCHANGED <<work, drained, transportClosing, background>>
  BY DEF Transport!HandlerNext, Transport!closeVars
<1>1. CASE Transport!CreateOperation
  BY <1>0, <1>1 DEF Transport!CreateOperation
<1>2. CASE Transport!OpenTransport
  BY <1>0, <1>2 DEF Transport!OpenTransport
<1>3. CASE Transport!Run
  BY <1>0, <1>3 DEF Transport!Run
<1>4. CASE Transport!Begin
  BY <1>0, <1>4 DEF Transport!Begin
<1>5. CASE Transport!TransferFails
  BY <1>0, <1>5 DEF Transport!TransferFails
<1>6. CASE Transport!PushContent
  BY <1>0, <1>6 DEF Transport!PushContent
<1>7. CASE Transport!Publish
  BY <1>0, <1>7 DEF Transport!Publish
<1>8. CASE Transport!Hold
  BY <1>0, <1>8 DEF Transport!Hold
<1>9. CASE Transport!RecordFact
  BY <1>0, <1>9 DEF Transport!RecordFact
<1>10. CASE Transport!RecordFails
  BY <1>0, <1>10 DEF Transport!RecordFails
<1>11. CASE Transport!Exchange
  BY <1>0, <1>11 DEF Transport!Exchange
<1>12. CASE Transport!Closed
  BY <1>0, <1>12 DEF Transport!Closed
<1>13. CASE Transport!Finish
  BY <1>0, <1>13 DEF Transport!Finish
<1> QED
  BY <1>1, <1>2, <1>3, <1>4, <1>5, <1>6, <1>7, <1>8, <1>9, <1>10, <1>11, <1>12,
     <1>13 DEF Transport!HandlerNext

\* The handler of the transfer closes at most by its own closer, and leaves a
\* drained transport quiet.
LEMMA HandlerCloses ==
    ASSUME TransportInv, Transport!HandlerNext
    PROVE  CloseInv' /\ Transport!DrainedIsQuiet'
<1>1. /\ UNCHANGED <<work, drained, transportClosing, background, transportClosed>>
      /\ transportCloser' \in {transportCloser, [transportCloser EXCEPT !["handler"] = "try"]}
      /\ active = 0 => held' \in {held, {}}
      /\ active = 0 /\ transportClosed => active' = 0
  BY HandlerHolds
<1>2. \A c \in Transport!Closers : transportCloser'[c] = transportCloser[c] \/ transportCloser'[c] = "try"
  BY <1>1 DEF TransportInv, Transport!TypeOK
<1>3. Transport!DrainedIsQuiet'
  BY <1>1 DEF TransportInv, Transport!DrainedIsQuiet, CloseInv
<1>4. CloseInv'
  BY <1>1, <1>2, Zenon DEF TransportInv, CloseInv, Transport!Linux, Transport!TypeOK
<1> QED
  BY <1>3, <1>4

-----------------------------------------------------------------------------
\* A step of a closer leaves the handler where it is.
LEMMA ApartKeeps ==
    ASSUME TransportInv, Transport!Apart
    PROVE  HandlerInv' /\ Transport!CompletedHasFact' /\ Transport!DoneIsRecorded'
  BY DEF TransportInv, Transport!Apart, Transport!handlerVars, HandlerInv,
     Transport!CompletedHasFact, Transport!DoneIsRecorded, Transport!Operation

\* Revoking marks the transport closed and leaves the operation in it alone.
LEMMA RevokeKeeps ==
    ASSUME TransportInv, Transport!RevokeNext
    PROVE  TransportInv'
<1> USE DEF TransportInv, Transport!RevokeNext, Transport!Revoke, Transport!Apart,
Transport!handlerVars, Transport!closeVars, Transport!TypeOK
<1>1. Transport!TypeOK' /\ Booleans'
  BY DEF Booleans, Transport!Closers
<1>2. CloseInv' /\ Transport!DrainedIsQuiet'
  BY DEF CloseInv, Transport!DrainedIsQuiet, Transport!Linux
<1> QED
  BY <1>1, <1>2, ApartKeeps

\* A close that was given up on goes on in the background and releases once.
LEMMA BackgroundKeeps ==
    ASSUME TransportInv, Transport!BackgroundNext
    PROVE  TransportInv'
<1> USE DEF TransportInv, Transport!BackgroundNext, Transport!CloseHeld, Transport!Apart,
Transport!handlerVars
<1>1. Transport!TypeOK'
  <2>1. held' \subseteq Things
    BY Zenon DEF Transport!TypeOK, Things
  <2> QED
    BY <2>1, IdleTyped DEF Transport!TypeOK, Things
<1>2. Booleans'
  <2>1. Transport!Linux \in BOOLEAN
    BY DEF Transport!Linux
  <2> QED
    BY <2>1, Zenon DEF Booleans
<1>3. ~background'.on /\ ~transportClosing' /\ transportClosed
  BY DEF Transport!Idle, CloseInv
<1>4. CloseInv'
  BY <1>3 DEF CloseInv, Transport!Linux
<1>5. Transport!DrainedIsQuiet'
  BY <1>3, Zenon DEF CloseInv, Transport!DrainedIsQuiet, Transport!Linux
<1> QED
  BY <1>1, <1>2, <1>4, <1>5, ApartKeeps

\* A closer waits for the operation, and one of the two closes.
LEMMA CloserKeeps ==
    ASSUME TransportInv, NEW c \in Transport!Closers, Transport!CloserNext(c) \/ Transport!TimeoutNext(c)
    PROVE  TransportInv'
<1> USE DEF TransportInv, Transport!Apart, Transport!handlerVars, Transport!closeVars,
Transport!Move
<1>0. Transport!Apart
  BY DEF Transport!CloserNext, Transport!TimeoutNext
<1>1. CASE Transport!BeginClose(c)
  <2>1. transportClosed' /\ transportCloser'[c] \in {"ok", "waiting", "idling", "closing"}
    BY <1>1 DEF Transport!BeginClose, Transport!TypeOK
  <2>2. \A d \in Transport!Closers : d # c => transportCloser'[d] = transportCloser[d]
    BY <1>1 DEF Transport!BeginClose, Transport!TypeOK
  <2>3. CASE UNCHANGED <<Transport!closeVars, held>>
    <3>1. Transport!TypeOK' /\ Booleans'
      BY <1>0, <1>1, <2>3 DEF Transport!TypeOK, Booleans, Transport!BeginClose
    <3>2. transportCloser'[c] # "idling"
      BY <1>1, <2>3 DEF Transport!BeginClose, Transport!TypeOK, Booleans
    <3>3. CloseInv' /\ Transport!DrainedIsQuiet'
      BY <1>0, <2>1, <2>2, <2>3, <3>2, Zenon DEF CloseInv, Transport!DrainedIsQuiet, Transport!Linux
    <3> QED
      BY <1>0, <3>1, <3>3, ApartKeeps
  <2>4. CASE Transport!Linux /\ ~drained /\ ~transportClosing /\ transportClosing' = TRUE /\ background' = Transport!Idle
             /\ UNCHANGED <<held, drained, transportErr>>
    <3>1. Transport!TypeOK' /\ Booleans'
      BY <1>0, <1>1, <2>4, IdleTyped, Zenon DEF Transport!TypeOK, Booleans, Transport!BeginClose,
         Things
    <3>2. CloseInv' /\ Transport!DrainedIsQuiet'
      BY <1>0, <2>1, <2>2, <2>4, ZenonT(40) DEF CloseInv, Transport!DrainedIsQuiet, Transport!Linux,
         Transport!Idle
    <3> QED
      BY <1>0, <3>1, <3>2, ApartKeeps
  <2>5. CASE ~Transport!Linux /\ ~drained /\ ~transportClosing /\ transportClosing' = TRUE /\ held' = {}
             /\ background' = [on |-> TRUE, taken |-> held]
             /\ UNCHANGED <<drained, transportErr>>
    <3>1. Transport!TypeOK' /\ Booleans'
      BY <1>0, <1>1, <2>5, Zenon DEF Transport!TypeOK, Booleans, Transport!BeginClose
    <3>2. CloseInv' /\ Transport!DrainedIsQuiet'
      BY <1>0, <2>1, <2>2, <2>5 DEF CloseInv, Transport!DrainedIsQuiet, Transport!Linux
    <3> QED
      BY <1>0, <3>1, <3>2, ApartKeeps
  <2> QED
    BY <1>1, <2>3, <2>4, <2>5, Zenon DEF Transport!BeginClose
<1>2. CASE Transport!IdleLinux(c)
  <2>1. Transport!TypeOK' /\ Booleans'
    BY <1>0, <1>2 DEF Transport!TypeOK, Booleans, Transport!IdleLinux
  <2>2. CloseInv' /\ Transport!DrainedIsQuiet'
    BY <1>0, <1>2 DEF Transport!TypeOK, Booleans, CloseInv, Transport!DrainedIsQuiet,
       Transport!Linux, Transport!IdleLinux
  <2> QED
    BY <1>0, <2>1, <2>2, ApartKeeps
<1>3. CASE Transport!CloseReturns(c)
  <2>1. Transport!TypeOK' /\ Booleans'
    BY <1>0, <1>3 DEF Transport!TypeOK, Booleans, Transport!CloseReturns
  <2>2. CloseInv' /\ Transport!DrainedIsQuiet'
    BY <1>0, <1>3 DEF Transport!TypeOK, Booleans, CloseInv, Transport!DrainedIsQuiet,
       Transport!Linux, Transport!CloseReturns
  <2> QED
    BY <1>0, <2>1, <2>2, ApartKeeps
<1>4. CASE Transport!IdleAndroid(c)
  <2>1. Transport!TypeOK' /\ Booleans'
    <3>1. transportCloser' \in [Transport!Closers -> {"idle", "try", "waiting", "idling", "closing", "ok", "err"}]
      BY <1>4 DEF Transport!TypeOK, Transport!IdleAndroid
    <3>2. Transport!TypeOK'
      BY <1>0, <1>4, <3>1, Zenon DEF Transport!TypeOK, Transport!IdleAndroid
    <3>3. Booleans'
      BY <1>0, <1>4, Zenon DEF Booleans, Transport!IdleAndroid
    <3> QED
      BY <3>2, <3>3
  <2>2. CloseInv' /\ Transport!DrainedIsQuiet'
    BY <1>0, <1>4 DEF Transport!TypeOK, Booleans, CloseInv, Transport!DrainedIsQuiet,
       Transport!Linux, Transport!IdleAndroid
  <2> QED
    BY <1>0, <2>1, <2>2, ApartKeeps
<1>5. CASE Transport!CloseTimesOut(c)
  <2>1. Transport!TypeOK' /\ Booleans'
    <3>1. transportCloser' \in [Transport!Closers -> {"idle", "try", "waiting", "idling", "closing", "ok", "err"}]
      BY <1>5 DEF Transport!TypeOK, Transport!CloseTimesOut
    <3>2. Transport!TypeOK'
      BY <1>0, <1>5, <3>1, Zenon DEF Transport!TypeOK, Transport!CloseTimesOut
    <3>3. Booleans'
      BY <1>0, <1>5, Zenon DEF Booleans, Transport!CloseTimesOut
    <3> QED
      BY <3>2, <3>3
  <2>2. CloseInv' /\ Transport!DrainedIsQuiet'
    BY <1>0, <1>5 DEF Transport!TypeOK, Booleans, CloseInv, Transport!DrainedIsQuiet,
       Transport!Linux, Transport!CloseTimesOut
  <2> QED
    BY <1>0, <2>1, <2>2, ApartKeeps
<1> QED
  BY <1>1, <1>2, <1>3, <1>4, <1>5 DEF Transport!CloserNext, Transport!TimeoutNext

\* Every step of a transport keeps its invariant.
LEMMA TransportStepKeeps ==
    ASSUME TransportInv, [Transport!Next]_(Transport!transportVars)
    PROVE  TransportInv'
<1>1. CASE Transport!HandlerNext
  BY <1>1, HandlerTypes, HandlerPlaces, HandlerCloses DEF TransportInv
<1>2. CASE Transport!RevokeNext
  BY <1>2, RevokeKeeps
<1>3. CASE Transport!BackgroundNext
  BY <1>3, BackgroundKeeps, Zenon
<1>4. CASE \E c \in Transport!Closers : Transport!CloserNext(c) \/ Transport!TimeoutNext(c)
  BY <1>4, CloserKeeps
<1>5. CASE Transport!Expire
  BY <1>5 DEF Transport!Expire, TransportInv, Transport!TypeOK, Booleans, HandlerInv, CloseInv,
     Transport!DrainedIsQuiet,
     Transport!CompletedHasFact, Transport!DoneIsRecorded, Transport!handlerVars,
     Transport!closeVars, Transport!Linux, Transport!Operation
<1>6. CASE Transport!Settled \/ UNCHANGED Transport!transportVars
  <2>1. UNCHANGED Transport!transportVars
    BY <1>6 DEF Transport!Settled
  <2>2. Transport!TypeOK' /\ Booleans'
    BY <2>1 DEF Transport!transportVars, Transport!handlerVars, Transport!closeVars, TransportInv,
       Transport!TypeOK, Booleans
  <2>3. HandlerInv' /\ Transport!CompletedHasFact' /\ Transport!DoneIsRecorded'
    BY <2>1, Zenon DEF Transport!transportVars, Transport!handlerVars, TransportInv, HandlerInv,
       Transport!CompletedHasFact,
       Transport!DoneIsRecorded, Transport!Operation
  <2>4. CloseInv' /\ Transport!DrainedIsQuiet'
    BY <2>1 DEF Transport!transportVars, Transport!closeVars, TransportInv, CloseInv,
       Transport!DrainedIsQuiet, Transport!Linux
  <2> QED
    BY <2>2, <2>3, <2>4 DEF TransportInv
<1> QED
  BY <1>1, <1>2, <1>3, <1>4, <1>5, <1>6 DEF Transport!Next

-----------------------------------------------------------------------------
(* A transport that Close reported drained has no operation in it, holds   *)
(* nothing it opened and is not being closed again, and what the handler   *)
(* records of the operation is true.                                       *)
THEOREM TransportInvariant ==
    Transport!Spec => [](/\ Transport!TypeOK /\ Transport!DrainedIsQuiet
                         /\ Transport!CompletedHasFact /\ Transport!DoneIsRecorded)
<1>1. TransportInv => /\ Transport!TypeOK /\ Transport!DrainedIsQuiet
                      /\ Transport!CompletedHasFact /\ Transport!DoneIsRecorded
  BY DEF TransportInv
<1> QED
  BY <1>1, TransportInit, TransportStepKeeps, PTL DEF Transport!Spec

\* Publishing is a step of the handler inside the operation, which a drain
\* waits for.
LEMMA PublishingIsInside ==
    ASSUME TransportInv, [Transport!Next]_(Transport!transportVars)
    PROVE  Transport!PublishesUndrained
<1> SUFFICES ASSUME Transport!Next, published' # published PROVE ~drained
  BY DEF Transport!PublishesUndrained, Transport!transportVars, Transport!handlerVars
<1>1. Transport!Publish
  BY DEF Transport!Next, Transport!HandlerNext, Transport!RevokeNext, Transport!BackgroundNext,
     Transport!CloserNext, Transport!TimeoutNext, Transport!Apart,
         Transport!handlerVars, Transport!transportVars, Transport!Expire, Transport!Settled,
         Transport!CreateOperation, Transport!OpenTransport, Transport!Run,
         Transport!Begin, Transport!TransferFails, Transport!PushContent, Transport!Hold,
         Transport!RecordFact, Transport!RecordFails, Transport!Exchange, Transport!Closed,
         Transport!Finish
<1> QED
  BY <1>1 DEF Transport!Publish, TransportInv, HandlerInv, Inside, Transport!DrainedIsQuiet

(* The pushed file is renamed in place only while the transport is not     *)
(* drained.                                                                *)
THEOREM PushBeforeDrain == Transport!Spec => Transport!NothingAfterDrain
  BY TransportInit, TransportStepKeeps, PublishingIsInside, PTL DEF Transport!Spec,
     Transport!NothingAfterDrain

-----------------------------------------------------------------------------
(* The agent runner.                                                       *)

EndSet == [from : {"none", "starting", "running"}, state : Runner!Terminal \cup {"none"}]

RunnerTypes ==
    /\ RunnerCrashes \in Nat /\ Runner!TypeOK
    /\ answered \in [starting : BOOLEAN, running : BOOLEAN, finalize : EndSet]
    /\ holds \in [Attempts -> EndSet]

\* An attempt that passed TransitionStarting, and one that read the exec before.
Begun(a) == attempt[a] \in {"open", "run", "exchange", "finalize"} \/ process[a] # "none"
Moving(a) == attempt[a] = "start" \/ Begun(a)

\* The record an attempt acts on.
Order ==
    /\ answered.starting => execution \notin {"none", "requested"}
    /\ \A a \in Attempts : Begun(a) => answered.starting
    /\ \A a \in Attempts : attempt[a] = "start" => execution # "none"
    /\ \A a \in Attempts : attempt[a] \in {"idle", "start", "open"} => process[a] = "none"
    /\ \A a \in late : attempt[a] = "done" /\ process[a] = "none"
    /\ ~daemonUp => \A a \in Attempts : attempt[a] \in {"idle", "done"}

Alone == ~overlapped => \A a, b \in Attempts : Moving(a) /\ Moving(b) => a = b

\* What was returned, what will be recorded and what is.
RunnerResults ==
    /\ \A a \in Attempts : result[a] \in Runner!Terminal => result[a] = execution
    /\ \A a \in Attempts : attempt[a] = "finalize" =>
          /\ holds[a].from \in {"starting", "running"} /\ holds[a].state \in Runner!Terminal
          /\ holds[a].state = "completed" => process[a] = "zero"
    /\ answered.finalize # Runner!NoEnd => execution = answered.finalize.state /\ execution \in Runner!Terminal
    /\ execution = "completed" => \E b \in Attempts : process[b] = "zero"

Cleaned ==
    /\ confirmed => execution \in Runner!Terminal
    /\ (confirmed /\ ~overlapped /\ ~reconciled) => \A a \in Attempts :
          process[a] # "alive" /\ (agent = "gone" \/ attempt[a] \notin {"start", "open"})

RunnerInv == RunnerTypes /\ Order /\ Alone /\ RunnerResults /\ Cleaned

\* The ends a run can be recorded with.
LEMMA EndTypes ==
    /\ Runner!NoEnd \in EndSet /\ Runner!NoEnd.state \notin Runner!Terminal
    /\ \A f \in {"starting", "running"}, s \in Runner!Terminal : [from |-> f, state |-> s] \in EndSet
  BY DEF Runner!NoEnd, EndSet, Runner!Terminal

\* No attempt has begun.
LEMMA RunnerInit == RunnerCrashes \in Nat /\ Runner!Init => RunnerInv
<1> SUFFICES ASSUME RunnerCrashes \in Nat, Runner!Init PROVE RunnerInv
  OBVIOUS
<1>1. RunnerTypes
  <2>0. /\ execution = "none" /\ confirmed = FALSE /\ agent = "ready" /\ daemonUp = TRUE /\ restarts = 0
        /\ attempt = [a \in Attempts |-> "idle"] /\ result = [a \in Attempts |-> "none"]
        /\ process = [a \in Attempts |-> "none"] /\ late = {} /\ overlapped = FALSE /\ reconciled = FALSE
    BY DEF Runner!Init
  <2>1. Runner!TypeOK
    <3>1. {overlapped, reconciled} \subseteq BOOLEAN /\ confirmed \in BOOLEAN /\ daemonUp \in BOOLEAN
      BY <2>0, Zenon
    <3> QED
      BY <2>0, <3>1 DEF Runner!TypeOK
  <2>2. answered \in [starting : BOOLEAN, running : BOOLEAN, finalize : EndSet] /\ holds \in [Attempts -> EndSet]
    BY EndTypes DEF Runner!Init
  <2> QED
    BY <2>1, <2>2 DEF RunnerTypes
<1>2. Order /\ Alone
  BY DEF Runner!Init, Order, Alone, Moving, Begun
<1>3. RunnerResults /\ Cleaned
  BY DEF Runner!Init, RunnerResults, Cleaned, Runner!Terminal
<1> QED
  BY <1>1, <1>2, <1>3 DEF RunnerInv

\* An attempt that creates the record, or finds it and returns what is recorded.
LEMMA CreateKeeps ==
    ASSUME RunnerInv, NEW a \in Attempts, Runner!CreateExec(a), Runner!Attempt(a)
    PROVE  RunnerInv'
<1>1. /\ UNCHANGED <<agent, daemonUp, restarts, reconciled, confirmed, answered, holds, process>>
      /\ attempt[a] = "idle" /\ daemonUp /\ Runner!Called(a)
      /\ execution' = IF execution = "none" THEN "requested" ELSE execution
      /\ \/ execution' \in Runner!Terminal /\ attempt' = [attempt EXCEPT ![a] = "done"] /\ result' = [result EXCEPT ![a] = execution']
         \/ execution' = "requested" /\ attempt' = [attempt EXCEPT ![a] = "start"] /\ result' = result
         \/ /\ execution' \notin Runner!Terminal /\ execution' # "requested" /\ attempt' = [attempt EXCEPT ![a] = "done"]
            /\ result' = [result EXCEPT ![a] = "in_progress"]
  BY Zenon DEF Runner!Attempt, Runner!CreateExec, Runner!Judge, Runner!Goes, Runner!Returns,
     Runner!Terminal
<1>2. /\ late' = late \/ (late' = late \cup {a} /\ \E b \in Attempts : process[b] # "none")
      /\ overlapped => overlapped'
      /\ ~overlapped' /\ execution = "requested" => \A b \in Attempts : attempt[b] # "start"
  BY <1>1, Zenon DEF Runner!Called, Runner!Opened
<1>3. overlapped' \in BOOLEAN
  BY <1>1, Zenon DEF Runner!Called, RunnerInv, RunnerTypes, Runner!TypeOK
<1>4. RunnerTypes'
  <2>1. execution' \in {"none", "requested", "starting", "running"} \cup Runner!Terminal /\ late' \subseteq Attempts
    BY <1>1, <1>2 DEF RunnerInv, RunnerTypes, Runner!TypeOK
  <2>2. attempt' \in [Attempts -> {"idle", "start", "open", "run", "exchange", "finalize", "done"}]
    BY <1>1 DEF RunnerInv, RunnerTypes, Runner!TypeOK
  <2>3. result' \in [Attempts -> Runner!Terminal \cup {"none", "in_progress", "error", "crashed"}]
    BY <1>1, Zenon DEF RunnerInv, RunnerTypes, Runner!TypeOK
  <2> QED
    BY <1>1, <1>3, <2>1, <2>2, <2>3 DEF RunnerInv, RunnerTypes, Runner!TypeOK
<1>5. /\ \A b \in Attempts : b # a => attempt'[b] = attempt[b] /\ result'[b] = result[b]
      /\ process[a] = "none"
      /\ \/ attempt'[a] = "done" /\ (result'[a] \in Runner!Terminal => result'[a] = execution')
         \/ attempt'[a] = "start" /\ execution' = "requested" /\ result'[a] = result[a]
  BY <1>1 DEF RunnerInv, RunnerTypes, Runner!TypeOK, Order, Runner!Terminal
<1>6. /\ execution' = execution \/ (execution = "none" /\ execution' = "requested")
      /\ \A b \in Attempts : process[b] # "none" => execution \notin {"none", "requested"}
  BY <1>1, Zenon DEF RunnerInv, Order, Begun
<1>7. Order'
  <2>1. a \in late' /\ a \notin late => attempt'[a] = "done"
    BY <1>2, <1>5, <1>6
  <2>2. a \notin late
    BY <1>1 DEF RunnerInv, Order
  <2>3. UNCHANGED <<answered, process, daemonUp>> /\ daemonUp
    BY <1>1, Zenon
  <2>4. \A b \in late' : attempt'[b] = "done" /\ process[b] = "none"
    BY <1>2, <1>5, <2>1, <2>2 DEF RunnerInv, RunnerTypes, Runner!TypeOK, Order
  <2>5. \A b \in Attempts : Begun(b)' => Begun(b)
    BY <1>5, <2>3, Zenon DEF Begun
  <2>6. \A b \in Attempts : attempt'[b] = "start" => execution' # "none"
    BY <1>5, <1>6, Zenon DEF RunnerInv, Order
  <2>7. \A b \in Attempts : attempt'[b] \in {"idle", "start", "open"} => process[b] = "none"
    BY <1>5 DEF RunnerInv, Order
  <2> QED
    BY <1>6, <2>3, <2>4, <2>5, <2>6, <2>7, Zenon DEF RunnerInv, Order
<1>8. Alone'
  <2>1. CASE attempt'[a] = "done"
    BY <1>1, <1>2, <1>5, <2>1 DEF RunnerInv, Alone, Moving, Begun
  <2>2. CASE attempt'[a] = "start" /\ ~overlapped'
    <3>1. \A b \in Attempts : ~Moving(b)
      BY <1>2, <1>5, <1>6, <2>2, Zenon DEF RunnerInv, Order, Moving, Begun
    <3> QED
      BY <1>1, <1>5, <3>1, Zenon DEF Alone, Moving, Begun
  <2> QED
    BY <1>5, <2>1, <2>2, Zenon DEF Alone
<1>9. RunnerResults'
  BY <1>1, <1>5, <1>6 DEF RunnerInv, RunnerResults, Runner!Terminal
<1>10. Cleaned'
  BY <1>1, <1>2, <1>5, <1>6 DEF RunnerInv, Cleaned, Runner!Terminal
<1> QED
  BY <1>4, <1>7, <1>8, <1>9, <1>10 DEF RunnerInv

\* The transition to starting is made once, or replayed to the same attempt.
LEMMA StartingKeeps ==
    ASSUME RunnerInv, NEW a \in Attempts, Runner!TransitionStarting(a), Runner!Attempt(a)
    PROVE  RunnerInv'
<1>1. /\ UNCHANGED <<agent, daemonUp, restarts, reconciled, confirmed, holds, process, late, overlapped>>
      /\ attempt[a] = "start"
      /\ \/ /\ answered.starting \/ (execution = "requested" /\ agent = "ready")
            /\ answered' = [answered EXCEPT !.starting = TRUE]
            /\ execution' = IF answered.starting THEN execution ELSE "starting"
            /\ attempt' = [attempt EXCEPT ![a] = "open"] /\ result' = result
         \/ /\ attempt' = [attempt EXCEPT ![a] = "done"] /\ result' = [result EXCEPT ![a] = "error"]
            /\ UNCHANGED <<execution, answered>>
  BY DEF Runner!Attempt, Runner!TransitionStarting, Runner!Goes, Runner!Returns
<1>2. answered' \in [starting : BOOLEAN, running : BOOLEAN, finalize : EndSet]
      /\ answered'.finalize = answered.finalize
  BY <1>1, Zenon DEF RunnerInv, RunnerTypes
<1>3. /\ \A b \in Attempts : b # a => attempt'[b] = attempt[b] /\ result'[b] = result[b]
      /\ \/ /\ attempt'[a] = "open" /\ answered'.starting /\ result'[a] = result[a]
            /\ \/ execution' = execution /\ answered.starting
               \/ execution' = "starting" /\ execution = "requested"
         \/ attempt'[a] = "done" /\ result'[a] = "error" /\ execution' = execution /\ answered' = answered
  BY <1>1 DEF RunnerInv, RunnerTypes, Runner!TypeOK
<1>4. RunnerTypes'
  <2>1. attempt' \in [Attempts -> {"idle", "start", "open", "run", "exchange", "finalize", "done"}]
    BY <1>1 DEF RunnerInv, RunnerTypes, Runner!TypeOK
  <2>2. result' \in [Attempts -> Runner!Terminal \cup {"none", "in_progress", "error", "crashed"}]
    BY <1>1 DEF RunnerInv, RunnerTypes, Runner!TypeOK
  <2> QED
    BY <1>1, <1>2, <1>3, <2>1, <2>2 DEF RunnerInv, RunnerTypes, Runner!TypeOK
<1>5. Order'
  <2>1. UNCHANGED <<process, daemonUp, late>> /\ daemonUp /\ a \notin late /\ process[a] = "none"
    BY <1>1 DEF RunnerInv, RunnerTypes, Runner!TypeOK, Order
  <2>2. answered.starting => answered'.starting /\ execution' = execution
    BY <1>3 DEF RunnerInv, Order
  <2>3. \A b \in Attempts : Begun(b)' => answered'.starting
    BY <1>3, <2>1, <2>2, Zenon DEF RunnerInv, Order, Begun
  <2>4. answered'.starting => execution' \notin {"none", "requested"}
    BY <1>3 DEF RunnerInv, Order
  <2>5. \A b \in Attempts : (attempt'[b] = "start" => execution' # "none")
            /\ (attempt'[b] \in {"idle", "start", "open"} => process[b] = "none")
    BY <1>3, <2>1, Zenon DEF RunnerInv, Order
  <2>6. \A b \in late : attempt'[b] = "done" /\ process[b] = "none"
    BY <1>3, <2>1 DEF RunnerInv, RunnerTypes, Runner!TypeOK, Order
  <2> QED
    BY <2>1, <2>3, <2>4, <2>5, <2>6 DEF Order
<1>6. Alone'
  BY <1>1, <1>3 DEF RunnerInv, Alone, Moving, Begun
<1>7. RunnerResults'
  BY <1>1, <1>2, <1>3 DEF RunnerInv, RunnerResults, Runner!Terminal
<1>8. Cleaned'
  BY <1>1, <1>3 DEF RunnerInv, Cleaned, Runner!Terminal
<1> QED
  BY <1>4, <1>5, <1>6, <1>7, <1>8 DEF RunnerInv

\* What an attempt is about to record.
LEMMA EndsHold ==
    ASSUME RunnerInv, NEW a \in Attempts, NEW f \in {"starting", "running"},
           NEW s \in Runner!Terminal, Runner!Ends(a, f, s)
    PROVE  /\ holds' \in [Attempts -> EndSet] /\ holds'[a].from = f /\ holds'[a].state = s
           /\ \A b \in Attempts : b # a => holds'[b] = holds[b]
           /\ attempt' = [attempt EXCEPT ![a] = "finalize"] /\ result' = result
<1>1. /\ holds' = [holds EXCEPT ![a] = [from |-> f, state |-> s]]
      /\ attempt' = [attempt EXCEPT ![a] = "finalize"] /\ result' = result
  BY DEF Runner!Ends, Runner!Goes
<1> QED
  BY <1>1, EndTypes DEF RunnerInv, RunnerTypes

\* Closing the stream leaves a process that has ended as it is.
LEMMA ClosedHolds ==
    ASSUME RunnerInv, NEW a \in Attempts, Runner!Closed(a)
    PROVE  /\ process' \in [Attempts -> {"none", "alive", "zero", "bad", "gone"}]
           /\ \A b \in Attempts : b # a => process'[b] = process[b]
           /\ process'[a] = process[a] \/ (process[a] = "alive" /\ process'[a] = "gone")
<1>1. PICK p \in {"alive", "gone"} : process' = [process EXCEPT ![a] = IF @ = "alive" THEN p ELSE @]
  BY Zenon DEF Runner!Closed
<1> QED
  BY <1>1 DEF RunnerInv, RunnerTypes, Runner!TypeOK

\* The steps between starting and the end.
LEMMA RunnerRunningKeeps ==
    ASSUME RunnerInv, NEW a \in Attempts,
           Runner!OpenExec(a) \/ Runner!TransitionRunning(a) \/ Runner!Exchange(a), Runner!Attempt(a)
    PROVE  RunnerInv'
<1>1. /\ UNCHANGED <<agent, daemonUp, restarts, reconciled, confirmed, late, overlapped>>
      /\ result' = result
  BY DEF Runner!Attempt, Runner!OpenExec, Runner!TransitionRunning, Runner!Exchange, Runner!Ends,
     Runner!Goes
<1>2. /\ answered' \in [starting : BOOLEAN, running : BOOLEAN, finalize : EndSet]
      /\ answered'.finalize = answered.finalize /\ answered'.starting = answered.starting
      /\ execution' = execution \/ (execution = "starting" /\ execution' = "running")
  BY Zenon DEF Runner!OpenExec, Runner!TransitionRunning, Runner!Exchange, RunnerInv, RunnerTypes
<1>3. /\ attempt[a] \in {"open", "run", "exchange"} /\ process' \in [Attempts -> {"none", "alive", "zero", "bad", "gone"}]
      /\ holds' \in [Attempts -> EndSet]
      /\ \A b \in Attempts : b # a => holds'[b] = holds[b] /\ process'[b] = process[b]
      /\ \/ /\ attempt[a] = "open" /\ agent = "ready" /\ attempt' = [attempt EXCEPT ![a] = "run"] /\ process'[a] = "alive"
         \/ /\ attempt[a] = "run" /\ attempt' = [attempt EXCEPT ![a] = "exchange"] /\ process' = process
         \/ /\ attempt' = [attempt EXCEPT ![a] = "finalize"]
            /\ process'[a] = process[a] \/ (process[a] = "alive" /\ process'[a] = "gone")
            /\ holds'[a].from \in {"starting", "running"} /\ holds'[a].state \in Runner!Terminal
            /\ holds'[a].state = "completed" => process'[a] = "zero"
  <2>1. CASE Runner!OpenExec(a)
    <3>1. CASE agent = "ready" /\ process' = [process EXCEPT ![a] = "alive"] /\ Runner!Goes(a, "run") /\ UNCHANGED holds
      BY <2>1, <3>1, Zenon DEF Runner!OpenExec, Runner!Goes, RunnerInv, RunnerTypes, Runner!TypeOK
    <3>2. CASE Runner!Ends(a, "starting", "failed") /\ UNCHANGED process
      BY <2>1, <3>2, EndsHold DEF Runner!OpenExec, Runner!Terminal, RunnerInv, RunnerTypes,
         Runner!TypeOK
    <3> QED
      BY <2>1, <3>1, <3>2 DEF Runner!OpenExec
  <2>2. CASE Runner!TransitionRunning(a)
    <3>1. CASE Runner!Goes(a, "exchange") /\ UNCHANGED <<holds, process>>
      BY <2>2, <3>1, Zenon DEF Runner!TransitionRunning, Runner!Goes, RunnerInv, RunnerTypes,
         Runner!TypeOK
    <3>2. CASE Runner!Ends(a, "starting", "failed") /\ Runner!Closed(a)
      BY <2>2, <3>2, EndsHold, ClosedHolds DEF Runner!TransitionRunning, Runner!Terminal
    <3> QED
      BY <2>2, <3>1, <3>2 DEF Runner!TransitionRunning
  <2>3. CASE Runner!Exchange(a)
    <3>1. PICK s \in Runner!Terminal : Runner!Ends(a, "running", s) /\ (s = "completed" => process[a] = "zero")
      BY <2>3, Zenon DEF Runner!Exchange, Runner!Terminal
    <3> QED
      BY <2>3, <3>1, EndsHold, ClosedHolds, Zenon DEF Runner!Exchange
  <2> QED
    BY <2>1, <2>2, <2>3, Zenon
<1>4. RunnerTypes'
  <2>1. attempt' \in [Attempts -> {"idle", "start", "open", "run", "exchange", "finalize", "done"}]
    BY <1>3 DEF RunnerInv, RunnerTypes, Runner!TypeOK
  <2> QED
    BY <1>1, <1>2, <1>3, <2>1 DEF RunnerInv, RunnerTypes, Runner!TypeOK
<1>5. /\ \A b \in Attempts : b # a => attempt'[b] = attempt[b]
      /\ attempt'[a] \in {"run", "exchange", "finalize"} /\ Begun(a) /\ answered.starting
      /\ execution \notin {"none", "requested"} /\ a \notin late /\ daemonUp
  BY <1>3 DEF RunnerInv, RunnerTypes, Runner!TypeOK, Order, Begun
<1>6. Order'
  <2>1. answered'.starting /\ execution' \notin {"none", "requested"}
    BY <1>2, <1>5
  <2>2. \A b \in Attempts : attempt'[b] \in {"idle", "start", "open"} => process'[b] = "none"
    BY <1>3, <1>5, Zenon DEF RunnerInv, Order
  <2>3. ASSUME NEW b \in late'
        PROVE  attempt'[b] = "done" /\ process'[b] = "none"
    <3>1. b \in Attempts /\ b \in late /\ b # a
      BY <1>1, <1>5, <2>3 DEF RunnerInv, RunnerTypes, Runner!TypeOK
    <3>2. attempt[b] = "done" /\ process[b] = "none"
      BY <3>1, Zenon DEF RunnerInv, Order
    <3> QED
      BY <1>3, <1>5, <3>1, <3>2, Zenon
  <2>4. \A b \in Attempts : attempt'[b] # "start" \/ execution' # "none"
    BY <2>1, Zenon
  <2>5. daemonUp'
    BY <1>1, <1>5, Zenon
  <2> QED
    BY <2>1, <2>2, <2>3, <2>4, <2>5, Zenon DEF Order
<1>7. Alone'
  <2>1. \A b \in Attempts : Moving(b)' => Moving(b)
    BY <1>3, <1>5, Zenon DEF Moving, Begun
  <2> QED
    BY <1>1, <2>1, Zenon DEF RunnerInv, Alone
<1>8. /\ \A b \in Attempts : process[b] = "zero" => process'[b] = "zero"
      /\ \A b \in Attempts : attempt'[b] = "finalize" =>
          /\ holds'[b].from \in {"starting", "running"} /\ holds'[b].state \in Runner!Terminal
          /\ holds'[b].state = "completed" => process'[b] = "zero"
  BY <1>3, <1>5 DEF RunnerInv, RunnerTypes, Runner!TypeOK, RunnerResults, Order
<1>9. RunnerResults'
  <2>1. execution' # execution => execution \notin Runner!Terminal /\ execution' # "completed"
    BY <1>2 DEF Runner!Terminal
  <2>2. \A b \in Attempts : result'[b] \in Runner!Terminal => result'[b] = execution'
    BY <1>1, <2>1, Zenon DEF RunnerInv, RunnerResults
  <2>3. /\ answered'.finalize # Runner!NoEnd =>
             execution' = answered'.finalize.state /\ execution' \in Runner!Terminal
        /\ execution' = "completed" => \E b \in Attempts : process'[b] = "zero"
    BY <1>2, <1>8, <2>1, Zenon DEF RunnerInv, RunnerResults
  <2> QED
    BY <1>8, <2>2, <2>3, Zenon DEF RunnerResults
<1>10. Cleaned'
  BY <1>1, <1>2, <1>3, <1>5, Zenon DEF RunnerInv, Cleaned, Runner!Terminal
<1> QED
  BY <1>4, <1>6, <1>7, <1>9, <1>10 DEF RunnerInv

\* An attempt finalizes with the end it holds, or finds another one recorded.
LEMMA FinalizeKeeps ==
    ASSUME RunnerInv, NEW a \in Attempts, Runner!Finalize(a), Runner!Attempt(a)
    PROVE  RunnerInv'
<1>1. /\ UNCHANGED <<agent, daemonUp, restarts, reconciled, holds, process, late, overlapped>>
      /\ attempt[a] = "finalize" /\ attempt' = [attempt EXCEPT ![a] = "done"]
      /\ \/ /\ answered.finalize = holds[a] /\ result' = [result EXCEPT ![a] = holds[a].state]
            /\ UNCHANGED <<execution, confirmed, answered>>
         \/ /\ answered.finalize = Runner!NoEnd /\ execution = holds[a].from
            /\ answered' = [answered EXCEPT !.finalize = holds[a]]
            /\ execution' = holds[a].state /\ result' = [result EXCEPT ![a] = holds[a].state]
            /\ confirmed' = (process[a] \in {"zero", "bad"} /\ holds[a].state \in {"completed", "failed"})
         \/ result' = [result EXCEPT ![a] = "error"] /\ UNCHANGED <<execution, confirmed, answered>>
  BY DEF Runner!Attempt, Runner!Finalize, Runner!Returns
<1>2. /\ holds[a].from \in {"starting", "running"} /\ holds[a].state \in Runner!Terminal
      /\ holds[a].state = "completed" => process[a] = "zero"
      /\ holds[a] # Runner!NoEnd /\ holds[a] \in EndSet
      /\ Begun(a) /\ answered.starting /\ a \notin late
  BY <1>1, EndTypes DEF RunnerInv, RunnerTypes, Runner!TypeOK, RunnerResults, Order, Begun
<1>3. /\ \A b \in Attempts : b # a => attempt'[b] = attempt[b] /\ result'[b] = result[b]
      /\ attempt'[a] = "done"
      /\ \/ /\ execution' = execution /\ result'[a] = execution /\ execution \in Runner!Terminal /\ confirmed' = confirmed
            /\ answered' = answered
         \/ /\ execution' \in Runner!Terminal /\ result'[a] = execution' /\ execution \notin Runner!Terminal
            /\ execution' = "completed" => process[a] = "zero"
            /\ confirmed' => process[a] \in {"zero", "bad"}
            /\ answered'.starting = answered.starting /\ answered'.finalize.state = execution'
         \/ /\ execution' = execution /\ result'[a] = "error" /\ confirmed' = confirmed /\ answered' = answered
  <2>1. /\ \A b \in Attempts : b # a => attempt'[b] = attempt[b] /\ result'[b] = result[b]
        /\ attempt'[a] = "done"
    BY <1>1 DEF RunnerInv, RunnerTypes, Runner!TypeOK
  <2>2. CASE answered.finalize = holds[a] /\ result' = [result EXCEPT ![a] = holds[a].state]
             /\ UNCHANGED <<execution, confirmed, answered>>
    BY <1>2, <2>1, <2>2, ZenonT(40) DEF RunnerInv, RunnerTypes, Runner!TypeOK, RunnerResults
  <2>3. CASE /\ answered.finalize = Runner!NoEnd /\ execution = holds[a].from
             /\ answered' = [answered EXCEPT !.finalize = holds[a]]
             /\ execution' = holds[a].state /\ result' = [result EXCEPT ![a] = holds[a].state]
             /\ confirmed' = (process[a] \in {"zero", "bad"} /\ holds[a].state \in {"completed", "failed"})
    <3>1. answered'.starting = answered.starting /\ answered'.finalize = holds[a]
      BY <2>3 DEF RunnerInv, RunnerTypes
    <3>2. result'[a] = holds[a].state
      BY <2>3 DEF RunnerInv, RunnerTypes, Runner!TypeOK
    <3> QED
      BY <1>2, <2>1, <2>3, <3>1, <3>2, Zenon DEF Runner!Terminal
  <2>4. CASE result' = [result EXCEPT ![a] = "error"] /\ UNCHANGED <<execution, confirmed, answered>>
    BY <2>1, <2>4 DEF RunnerInv, RunnerTypes, Runner!TypeOK
  <2> QED
    BY <1>1, <2>2, <2>3, <2>4, Zenon
<1>4. RunnerTypes'
  <2>1. attempt' \in [Attempts -> {"idle", "start", "open", "run", "exchange", "finalize", "done"}]
    BY <1>1 DEF RunnerInv, RunnerTypes, Runner!TypeOK
  <2>2. result' \in [Attempts -> Runner!Terminal \cup {"none", "in_progress", "error", "crashed"}]
    BY <1>1, <1>2 DEF RunnerInv, RunnerTypes, Runner!TypeOK
  <2>3. answered' \in [starting : BOOLEAN, running : BOOLEAN, finalize : EndSet]
    BY <1>1, <1>2 DEF RunnerInv, RunnerTypes
  <2>4. confirmed' \in BOOLEAN
    BY <1>1, Zenon DEF RunnerInv, RunnerTypes, Runner!TypeOK
  <2> QED
    BY <1>1, <1>3, <2>1, <2>2, <2>3, <2>4 DEF RunnerInv, RunnerTypes, Runner!TypeOK
<1>5. UNCHANGED <<agent, daemonUp, reconciled, holds, process, late, overlapped>>
  BY <1>1
<1>6. Order'
  <2>1. answered'.starting = answered.starting /\ execution' \notin {"none", "requested"}
    BY <1>2, <1>3, Zenon DEF RunnerInv, Order, Runner!Terminal
  <2>2. \A b \in late : attempt'[b] = "done" /\ process[b] = "none"
    BY <1>2, <1>3 DEF RunnerInv, RunnerTypes, Runner!TypeOK, Order
  <2>3. daemonUp => daemonUp'
    BY <1>5, Zenon
  <2> QED
    BY <1>2, <1>3, <1>5, <2>1, <2>2, Zenon DEF RunnerInv, Order, Begun
<1>7. Alone'
  BY <1>2, <1>3, <1>5 DEF RunnerInv, Alone, Moving, Begun
<1>8. RunnerResults'
  <2>1. \A b \in Attempts : result'[b] \in Runner!Terminal => result'[b] = execution'
    BY <1>3 DEF RunnerInv, RunnerResults, Runner!Terminal
  <2>2. answered'.finalize # Runner!NoEnd => execution' = answered'.finalize.state /\ execution' \in Runner!Terminal
    BY <1>3, Zenon DEF RunnerInv, RunnerResults
  <2>3. execution' = "completed" => \E b \in Attempts : process[b] = "zero"
    BY <1>3, Zenon DEF RunnerInv, RunnerResults
  <2>4. \A b \in Attempts : attempt'[b] = "finalize" => attempt[b] = "finalize"
    BY <1>3, Zenon
  <2> QED
    BY <1>5, <2>1, <2>2, <2>3, <2>4, Zenon DEF RunnerInv, RunnerResults
<1>9. Cleaned'
  <2>1. CASE execution \in Runner!Terminal \/ execution' = execution
    BY <1>3, <1>5, <2>1 DEF RunnerInv, Cleaned
  <2>2. CASE execution' \in Runner!Terminal /\ (confirmed' => process[a] \in {"zero", "bad"})
    <3>1. ~overlapped => \A b \in Attempts : b # a => ~Moving(b)
      BY <1>2, Zenon DEF RunnerInv, Alone, Moving
    <3>2. confirmed' /\ ~overlapped => \A b \in Attempts : process[b] # "alive" /\ attempt'[b] \notin {"start", "open"}
      BY <1>3, <2>2, <3>1 DEF Moving, Begun
    <3> QED
      BY <1>5, <2>2, <3>2, Zenon DEF Cleaned
  <2> QED
    BY <1>3, <2>1, <2>2, Zenon
<1> QED
  BY <1>4, <1>6, <1>7, <1>8, <1>9 DEF RunnerInv

\* A process ends by itself.
LEMMA ProcessKeeps ==
    ASSUME RunnerInv, NEW a \in Attempts, Runner!ProcessEnds(a)
    PROVE  RunnerInv'
<1>1. /\ UNCHANGED <<execution, confirmed, answered, agent, daemonUp, restarts, attempt, holds, result, late, overlapped, reconciled>>
      /\ process[a] = "alive" /\ \E p \in {"zero", "bad"} : process' = [process EXCEPT ![a] = p]
  BY Zenon DEF Runner!ProcessEnds
<1>2. /\ \A b \in Attempts : b # a => process'[b] = process[b]
      /\ process'[a] \in {"zero", "bad"}
      /\ process' \in [Attempts -> {"none", "alive", "zero", "bad", "gone"}]
  BY <1>1 DEF RunnerInv, RunnerTypes, Runner!TypeOK
<1>3. RunnerTypes' /\ Order'
  BY <1>1, <1>2 DEF RunnerInv, RunnerTypes, Runner!TypeOK, Order, Begun
<1>4. Alone' /\ RunnerResults' /\ Cleaned'
  BY <1>1, <1>2 DEF RunnerInv, Alone, Moving, Begun, RunnerResults, Cleaned
<1> QED
  BY <1>3, <1>4, Zenon DEF RunnerInv

\* Every process that lives is ended.
LEMMA GoneHolds ==
    ASSUME RunnerInv, Runner!Gone
    PROVE  /\ process' \in [Attempts -> {"none", "alive", "zero", "bad", "gone"}]
           /\ \A b \in Attempts :
                 /\ process'[b] # "alive"
                 /\ process'[b] = "none" <=> process[b] = "none"
                 /\ process'[b] = "zero" <=> process[b] = "zero"
<1>1. process' = [a \in Attempts |-> IF process[a] = "alive" THEN "gone" ELSE process[a]]
  BY DEF Runner!Gone
<1>2. process \in [Attempts -> {"none", "alive", "zero", "bad", "gone"}]
  BY Zenon DEF RunnerInv, RunnerTypes, Runner!TypeOK
<1> QED
  BY <1>1, <1>2

\* The exec is ended from outside, once its processes are gone.
LEMMA EndedOutside ==
    ASSUME RunnerInv, UNCHANGED <<answered, restarts, attempt, holds, result, late, overlapped>>,
           Runner!Gone, confirmed' \in BOOLEAN, daemonUp' \in BOOLEAN, agent' \in {"ready", "gone"}, reconciled' \in BOOLEAN,
           execution # "none",
           \/ execution' = execution /\ confirmed' = confirmed
           \/ execution \notin Runner!Terminal /\ execution' \in {"cancelled", "lost"},
           daemonUp' \/ ~daemonUp, reconciled => reconciled', agent = "gone" => agent' = "gone",
           confirmed' /\ ~reconciled' =>
              confirmed \/ agent' = "gone" \/ \A b \in Attempts : attempt[b] \in {"idle", "done"}
    PROVE  RunnerInv'
<1>0. /\ process' \in [Attempts -> {"none", "alive", "zero", "bad", "gone"}]
      /\ \A b \in Attempts :
            /\ process'[b] # "alive"
            /\ process'[b] = "none" <=> process[b] = "none"
            /\ process'[b] = "zero" <=> process[b] = "zero"
  BY GoneHolds, Zenon
<1>1. RunnerTypes'
  BY <1>0, Zenon DEF RunnerInv, RunnerTypes, Runner!TypeOK, Runner!Terminal
<1>2. Order'
  <2>1. execution \notin {"none", "requested"} => execution' \notin {"none", "requested"}
    BY Zenon DEF Runner!Terminal
  <2>2. execution' # "none"
    BY Zenon
  <2>3. \A b \in late : b \in Attempts
    BY Zenon DEF RunnerInv, RunnerTypes, Runner!TypeOK
  <2> QED
    BY <1>0, <2>1, <2>2, <2>3 DEF RunnerInv, Order, Begun
<1>3. Alone'
  BY <1>0, Zenon DEF RunnerInv, Alone, Moving, Begun
<1>4. RunnerResults'
  <2>1. \/ execution' = execution
        \/ execution \notin Runner!Terminal /\ execution' \in Runner!Terminal /\ execution' # "completed"
    BY Zenon DEF Runner!Terminal
  <2> QED
    BY <1>0, <2>1 DEF RunnerInv, RunnerResults
<1>5. Cleaned'
  <2>1. (execution' = execution /\ confirmed' = confirmed) \/ execution' \in Runner!Terminal
    BY Zenon DEF Runner!Terminal
  <2>2. confirmed' => execution' \in Runner!Terminal
    BY <2>1, Zenon DEF RunnerInv, Cleaned
  <2>3. confirmed' /\ ~overlapped /\ ~reconciled' =>
            \A b \in Attempts : agent' = "gone" \/ attempt[b] \notin {"start", "open"}
    BY DEF RunnerInv, Cleaned
  <2> QED
    BY <1>0, <2>2, <2>3 DEF Cleaned
<1> QED
  BY <1>1, <1>2, <1>3, <1>4, <1>5, Zenon DEF RunnerInv

\* Termination, recovery and reconciliation record only what is gone.
LEMMA AroundKeeps ==
    ASSUME RunnerInv, Runner!TerminateLease \/ Runner!Recover \/ Runner!Reconcile
    PROVE  RunnerInv'
<1>1. CASE Runner!TerminateLease
  <2>1. /\ UNCHANGED <<answered, daemonUp, restarts, attempt, holds, result, late, overlapped, reconciled>>
        /\ agent' = "gone" /\ Runner!Gone /\ execution # "none"
        /\ \/ execution \in Runner!Terminal /\ execution' = execution
           \/ execution \notin Runner!Terminal /\ execution' = "cancelled"
    BY <1>1, Zenon DEF Runner!TerminateLease
  <2>2. confirmed' \in BOOLEAN /\ daemonUp' \in BOOLEAN /\ reconciled' \in BOOLEAN
    BY <1>1, Zenon DEF Runner!TerminateLease, RunnerInv, RunnerTypes, Runner!TypeOK
  <2>3. execution \in Runner!Terminal => confirmed' = confirmed
    BY <1>1, Zenon DEF Runner!TerminateLease, RunnerInv, RunnerTypes, Runner!TypeOK
  <2> QED
    BY <2>1, <2>2, <2>3, EndedOutside, Zenon
<1>2. CASE Runner!Recover /\ execution \notin {"starting", "running"}
  <2>1. /\ UNCHANGED <<execution, confirmed, process, answered, agent, restarts, attempt, holds, result, late, overlapped,
                        reconciled>>
        /\ daemonUp' = TRUE
    BY <1>2, Zenon DEF Runner!Recover, Runner!RecoverExecs
  <2> QED
    BY <2>1 DEF RunnerInv, RunnerTypes, Runner!TypeOK, Order, Begun, Alone, Moving, RunnerResults,
       Cleaned
<1>3. CASE (Runner!Recover \/ Runner!Reconcile) /\ execution \in {"starting", "running"}
  <2>1. /\ UNCHANGED <<answered, agent, restarts, attempt, holds, result, late, overlapped>>
        /\ Runner!Gone /\ execution' = "lost" /\ confirmed' = TRUE /\ daemonUp' = TRUE
        /\ (~daemonUp /\ reconciled' = reconciled) \/ reconciled' = TRUE
    BY <1>3, Zenon DEF Runner!Recover, Runner!Reconcile, Runner!RecoverExecs, RunnerInv,
       RunnerTypes, Runner!TypeOK
  <2>2. reconciled' \in BOOLEAN /\ agent' \in {"ready", "gone"}
    BY <2>1, Zenon DEF RunnerInv, RunnerTypes, Runner!TypeOK
  <2>3. ~daemonUp => \A b \in Attempts : attempt[b] \in {"idle", "done"}
    BY DEF RunnerInv, Order
  <2>4. execution \notin Runner!Terminal
    BY <1>3 DEF Runner!Terminal
  <2> QED
    BY <1>3, <2>1, <2>2, <2>3, <2>4, EndedOutside
<1> QED
  BY <1>1, <1>2, <1>3, Zenon DEF Runner!Reconcile

\* A crash of the daemon drops the attempts and leaves their processes.
LEMMA RunnerCrashKeeps ==
    ASSUME RunnerInv, Runner!Crash
    PROVE  RunnerInv'
<1>1. /\ UNCHANGED <<execution, confirmed, answered, agent, holds, process, late, overlapped, reconciled>>
      /\ daemonUp' = FALSE /\ restarts' = restarts + 1 /\ restarts < RunnerCrashes
      /\ attempt' = [a \in Attempts |-> IF attempt[a] = "idle" THEN "idle" ELSE "done"]
      /\ result' = [a \in Attempts |-> IF attempt[a] \in {"idle", "done"} THEN result[a] ELSE "crashed"]
  BY Zenon DEF Runner!Crash
<1>2. /\ \A a \in Attempts : attempt'[a] \in {"idle", "done"} /\ (attempt'[a] = "idle" <=> attempt[a] = "idle")
      /\ \A a \in Attempts : result'[a] \in {result[a], "crashed"}
      /\ attempt' \in [Attempts -> {"idle", "start", "open", "run", "exchange", "finalize", "done"}]
  BY <1>1, Zenon
<1>3. RunnerTypes'
  <2>1. result' \in [Attempts -> Runner!Terminal \cup {"none", "in_progress", "error", "crashed"}]
    BY <1>1 DEF RunnerInv, RunnerTypes, Runner!TypeOK
  <2>2. restarts' \in 0..RunnerCrashes
    BY <1>1 DEF RunnerInv, RunnerTypes, Runner!TypeOK
  <2> QED
    BY <1>1, <1>2, <2>1, <2>2, Zenon DEF RunnerInv, RunnerTypes, Runner!TypeOK
<1>4. UNCHANGED <<execution, confirmed, answered, agent, holds, process, late, overlapped, reconciled>>
  BY <1>1, Zenon
<1>5. Order'
  BY <1>2, <1>4, Zenon DEF RunnerInv, RunnerTypes, Runner!TypeOK, Order, Begun
<1>6. Alone'
  BY <1>2, <1>4, Zenon DEF RunnerInv, Alone, Moving, Begun
<1>7. RunnerResults'
  BY <1>2, <1>4 DEF RunnerInv, RunnerResults, Runner!Terminal
<1>8. Cleaned'
  BY <1>2, <1>4, Zenon DEF RunnerInv, Cleaned
<1> QED
  BY <1>3, <1>5, <1>6, <1>7, <1>8 DEF RunnerInv

\* Every step of the runner keeps its invariant.
LEMMA RunnerStepKeeps ==
    ASSUME RunnerInv, [Runner!Next]_(Runner!runnerVars)
    PROVE  RunnerInv'
<1>1. ASSUME NEW a \in Attempts, Runner!Attempt(a) PROVE RunnerInv'
  BY <1>1, CreateKeeps, StartingKeeps, RunnerRunningKeeps, FinalizeKeeps DEF Runner!Attempt
<1>2. CASE UNCHANGED Runner!runnerVars
  BY <1>2 DEF Runner!runnerVars, RunnerInv, RunnerTypes, Runner!TypeOK, Order, Begun, Alone, Moving,
     RunnerResults, Cleaned
<1> QED
  BY <1>1, <1>2, ProcessKeeps, AroundKeeps, RunnerCrashKeeps, Zenon DEF Runner!Next, Runner!Done

\* The invariant implies the properties.
LEMMA RunnerImplies ==
    RunnerInv => /\ Runner!TypeOK /\ Runner!RetryStartsNothing
                 /\ Runner!ReturnedIsRecorded /\ Runner!ConfirmedIsGone
<1> SUFFICES ASSUME RunnerInv PROVE Runner!RetryStartsNothing /\ Runner!ReturnedIsRecorded /\ Runner!ConfirmedIsGone
  BY DEF RunnerInv, RunnerTypes
<1>1. late \cap Runner!Opened = {}
  BY Zenon DEF RunnerInv, Order, Runner!Opened
<1>2. ASSUME ~overlapped, NEW a \in Runner!Opened, NEW b \in Runner!Opened PROVE a = b
  BY <1>2, Zenon DEF Runner!Opened, RunnerInv, Alone, Moving, Begun
<1>3. Runner!ReturnedIsRecorded
  BY DEF RunnerInv, RunnerResults, Runner!ReturnedIsRecorded
<1>4. Runner!ConfirmedIsGone
  BY DEF RunnerInv, Cleaned, Runner!ConfirmedIsGone, Runner!Alive
<1> QED
  BY <1>1, <1>2, <1>3, <1>4 DEF Runner!RetryStartsNothing

(* Whatever attempts of one command overlap and wherever the daemon dies:  *)
(* a retry opens no second process, an answer is what is recorded, and a   *)
(* cleanup recorded as confirmed has left no process, with the two         *)
(* exceptions the properties name.                                         *)
THEOREM RunnerInvariant ==
    ASSUME RunnerCrashes \in Nat
    PROVE  Runner!Spec => [](/\ Runner!TypeOK /\ Runner!RetryStartsNothing
                             /\ Runner!ReturnedIsRecorded /\ Runner!ConfirmedIsGone)
  BY RunnerInit, RunnerStepKeeps, RunnerImplies, PTL DEF Runner!Spec
===============================================================================
