---------------------------- MODULE SessionProofs -----------------------------
(***************************************************************************)
(* Proofs about the handlers of execs (ExecExchange) and the device gateway *)
(* (DeviceGateway), for any number of frames, clients and connections.     *)
(***************************************************************************)
EXTENDS Naturals, Sequences, FiniteSets, TLAPS

CONSTANTS
    Kinds, GuestFrames,             \* ExecExchange
    Clients, MaximumConnections     \* DeviceGateway

VARIABLES kind, expired, pc, record, outcome, lifecycle, received, forward, heart,
          host, waited, pipe, frames, reader, seen, closing, closeErr, guest, emitted,
          endpoint, acceptor, session, connections, doomed

Exec == INSTANCE ExecExchange WITH MaxFrames <- GuestFrames
Gateway == INSTANCE DeviceGateway

-----------------------------------------------------------------------------
(* Execs.                                                                  *)

FrameSet == [kind : {"started", "output", "exited", "terminal"},
             terminal : Exec!GuestTerminals \cup {Exec!NoTerminal}]

ExecTypes == GuestFrames \in Nat /\ Exec!TypeOK /\ pipe \in Seq(FrameSet) /\ frames \in Seq(FrameSet)

\* Every terminal on its way is the one the guest emitted.
Terminals ==
    /\ emitted # Exec!NoTerminal <=> guest = "done"
    /\ \A i \in 1..Len(pipe) : pipe[i].kind = "terminal" => pipe[i].terminal = emitted /\ guest = "done"
    /\ \A i \in 1..Len(frames) : frames[i].kind = "terminal" =>
          frames[i].terminal = emitted /\ seen = emitted /\ guest = "done"
    /\ seen \in {Exec!NoTerminal, emitted}
    /\ outcome # Exec!NoTerminal => outcome = emitted /\ seen = emitted

\* Success is judged of an outcome that has it.
Judgement == record = "completed" => pc = "done" /\ outcome.exit = "zero" /\ outcome.confirmed

\* Where the handler stands, and what is open there.
Places ==
    /\ pc = "create" => host = "none"
    /\ pc = "open" => host = "none"
    /\ pc \in {"run", "exchange", "closing", "finalize"} => host # "none"
    /\ host = "none" => closing = "no" /\ heart = "idle" /\ guest = "idle"
    /\ pc = "finalize" => received
    /\ Exec!DoneIsRecorded

ExecInv == ExecTypes /\ Terminals /\ Judgement /\ Places

\* The frames and terminals of a guest.
LEMMA TerminalTypes ==
    /\ Exec!NoTerminal \notin Exec!GuestTerminals
    /\ Exec!NoTerminal.exit # "zero"
    /\ \A k \in {"started", "output", "exited"} : Exec!Frame(k) \in FrameSet /\ Exec!Frame(k).kind = k
    /\ \A t \in Exec!GuestTerminals :
          Exec!TerminalFrame(t) \in FrameSet /\ Exec!TerminalFrame(t).terminal = t /\ Exec!TerminalFrame(t).kind = "terminal"
    /\ \A f \in FrameSet : f.terminal \in Exec!GuestTerminals \cup {Exec!NoTerminal}
                            /\ f.kind \in {"started", "output", "exited", "terminal"}
  BY DEF Exec!NoTerminal, Exec!GuestTerminals, Exec!Frame, Exec!TerminalFrame, FrameSet

\* What a sequence holds after a frame was sent.
LEMMA Joined ==
    ASSUME NEW S, NEW s \in Seq(S), NEW e \in S
    PROVE  /\ Append(s, e) \in Seq(S) /\ Len(Append(s, e)) = Len(s) + 1 /\ Len(s) \in Nat
           /\ \A i \in 1..Len(Append(s, e)) :
                 Append(s, e)[i] = e \/ \E j \in 1..Len(s) : Append(s, e)[i] = s[j]
  OBVIOUS

\* What a sequence holds after a frame was received.
LEMMA Shortened ==
    ASSUME NEW S, NEW s \in Seq(S), s # <<>>
    PROVE  /\ Tail(s) \in Seq(S) /\ Len(Tail(s)) = Len(s) - 1 /\ Len(s) \in Nat \ {0}
           /\ Head(s) \in S /\ Head(s) = s[1] /\ 1 \in 1..Len(s)
           /\ \A i \in 1..Len(Tail(s)) : \E j \in 1..Len(s) : Tail(s)[i] = s[j]
  OBVIOUS

\* An exec that was not created satisfies the invariant.
LEMMA ExecInit == GuestFrames \in Nat /\ Exec!Init => ExecInv
<1> SUFFICES ASSUME GuestFrames \in Nat, Exec!Init PROVE ExecInv
  OBVIOUS
<1>1. <<>> \in Seq(FrameSet) /\ Len(<<>>) = 0 /\ 0 <= GuestFrames
  OBVIOUS
<1>2. Exec!TypeOK
  BY <1>1, Zenon DEF Exec!Init, Exec!TypeOK
<1>3. Terminals /\ Judgement /\ Places
  BY <1>1 DEF Exec!Init, Terminals, Judgement, Places, Exec!DoneIsRecorded
<1> QED
  BY <1>1, <1>2, <1>3, Zenon DEF ExecInv, ExecTypes, Exec!Init

\* The guest emits one terminal, last.
LEMMA GuestKeeps == ExecInv /\ Exec!GuestNext => ExecInv'
<1> SUFFICES ASSUME ExecInv, Exec!GuestNext PROVE ExecInv'
  OBVIOUS
<1>0. /\ UNCHANGED <<kind, expired, pc, record, outcome, lifecycle, received, forward, heart, host, waited,
                      frames, reader, seen, closing, closeErr>>
      /\ Len(pipe) < GuestFrames
  BY DEF Exec!GuestNext, Exec!handlerVars
<1>1. PICK f \in FrameSet :
        /\ Exec!Emits(f)
        /\ \/ /\ emitted' = emitted /\ guest \in {"start", "running"} /\ guest' \in {"running", "exited"}
              /\ f.kind # "terminal"
           \/ /\ emitted' \in Exec!GuestTerminals /\ guest \in {"start", "exited"} /\ guest' = "done"
              /\ f.terminal = emitted'
  <2>1. CASE \E t \in Exec!GuestTerminals :
            /\ guest = "exited" \/ (guest = "start" /\ t.exit = "bad")
            /\ guest' = "done" /\ emitted' = t /\ Exec!Emits(Exec!TerminalFrame(t))
    BY <2>1, TerminalTypes
  <2>2. CASE \/ guest = "start" /\ guest' = "running" /\ Exec!Emits(Exec!Frame("started")) /\ UNCHANGED emitted
             \/ guest = "running" /\ Exec!Emits(Exec!Frame("output")) /\ UNCHANGED Exec!guestVars
             \/ guest = "running" /\ guest' = "exited" /\ Exec!Emits(Exec!Frame("exited")) /\ UNCHANGED emitted
    BY <2>2, TerminalTypes DEF Exec!guestVars
  <2> QED
    BY <2>1, <2>2 DEF Exec!GuestNext
<1>2. /\ pipe' \in Seq(FrameSet) /\ Len(pipe') <= GuestFrames
      /\ \A i \in 1..Len(pipe') : pipe'[i] = f \/ \E j \in 1..Len(pipe) : pipe'[i] = pipe[j]
  BY <1>0, <1>1, Joined DEF Exec!Emits, ExecInv, ExecTypes
<1>3. ExecTypes'
  BY <1>0, <1>1, <1>2 DEF ExecInv, ExecTypes, Exec!TypeOK
<1>4. Terminals'
  BY <1>0, <1>1, <1>2, TerminalTypes DEF ExecInv, Terminals
<1>5. Judgement' /\ Places'
  BY <1>0, <1>1 DEF ExecInv, Judgement, Places, Exec!DoneIsRecorded
<1> QED
  BY <1>3, <1>4, <1>5 DEF ExecInv

\* The host's process, its wait and the close of the transport.
LEMMA TransportKeeps == ExecInv /\ (Exec!HostNext \/ Exec!WaitNext \/ Exec!CloseNext) => ExecInv'
<1> SUFFICES ASSUME ExecInv, Exec!HostNext \/ Exec!WaitNext \/ Exec!CloseNext PROVE ExecInv'
  OBVIOUS
<1>1. /\ UNCHANGED <<kind, expired, pc, record, outcome, lifecycle, received, forward, heart,
                      frames, reader, seen, guest, emitted>>
      /\ \/ host' = host
         \/ host' = "exited" /\ (host = "running" \/ closing = "closing")
      /\ pipe' = pipe \/ pipe' = <<>>
      /\ \/ closing' = closing
         \/ closing # "no" /\ closing' \in {"killed", "closed"}
  BY DEF Exec!HostNext, Exec!WaitNext, Exec!CloseNext, Exec!HostExits, Exec!WaitReturns,
     Exec!CloseKills, Exec!CloseEnds, Exec!Apart, Exec!handlerVars,
         Exec!guestVars, Exec!streamVars
<1>2. ExecTypes'
  <2>0. <<>> \in Seq(FrameSet) /\ Len(<<>>) = 0 /\ (GuestFrames \in Nat => 0 <= GuestFrames)
    OBVIOUS
  <2>1. pipe' \in Seq(FrameSet) /\ Len(pipe') <= GuestFrames
    BY <1>1, <2>0, Zenon DEF ExecInv, ExecTypes, Exec!TypeOK
  <2>2. waited' \in BOOLEAN /\ closeErr' \in BOOLEAN
    BY Zenon DEF Exec!HostNext, Exec!WaitNext, Exec!CloseNext, Exec!HostExits, Exec!WaitReturns,
       Exec!CloseKills, Exec!CloseEnds, Exec!Apart,
         Exec!streamVars, ExecInv, ExecTypes, Exec!TypeOK
  <2> QED
    BY <1>1, <2>1, <2>2 DEF ExecInv, ExecTypes, Exec!TypeOK
<1>3. Terminals'
  BY <1>1 DEF ExecInv, Terminals
<1>4. Judgement' /\ Places'
  BY <1>1 DEF ExecInv, Judgement, Places, Exec!DoneIsRecorded
<1> QED
  BY <1>2, <1>3, <1>4 DEF ExecInv

\* The reader passes the frames on in order and remembers the terminal.
LEMMA ReadKeeps == ExecInv /\ Exec!ReadNext => ExecInv'
<1> SUFFICES ASSUME ExecInv, Exec!ReadNext PROVE ExecInv'
  OBVIOUS
<1>1. UNCHANGED <<kind, expired, pc, record, outcome, lifecycle, received, forward, heart, host, waited,
                  closing, closeErr, guest, emitted>>
  BY DEF Exec!ReadNext, Exec!ReadFrame, Exec!ReadFails, Exec!Apart, Exec!handlerVars, Exec!guestVars
<1>2. CASE Exec!ReadFails
  <2>1. UNCHANGED <<pipe, frames, seen>> /\ reader' = "ended"
    BY <1>2 DEF Exec!ReadFails
  <2>2. ExecTypes' /\ Terminals'
    BY <1>1, <2>1 DEF ExecInv, ExecTypes, Exec!TypeOK, Terminals
  <2>3. Judgement' /\ Places'
    BY <1>1 DEF ExecInv, Judgement, Places, Exec!DoneIsRecorded
  <2> QED
    BY <2>2, <2>3 DEF ExecInv
<1>3. CASE Exec!ReadFrame
  <2>1. PICK f : f = Head(pipe)
    OBVIOUS
  <2>2. /\ pipe # <<>> /\ pipe' = Tail(pipe)
        /\ (Len(frames) < GuestFrames /\ frames' = Append(frames, f)) \/ frames' = frames
        /\ IF f.kind = "terminal" THEN seen' = f.terminal /\ reader' = "ended"
                                  ELSE seen' = seen /\ reader' = reader
    BY <1>3, <2>1 DEF Exec!ReadFrame
  <2>3. /\ f \in FrameSet /\ f = pipe[1] /\ 1 \in 1..Len(pipe) /\ pipe' \in Seq(FrameSet)
        /\ Len(pipe') <= GuestFrames /\ \A i \in 1..Len(pipe') : \E j \in 1..Len(pipe) : pipe'[i] = pipe[j]
    BY <2>1, <2>2, Shortened DEF ExecInv, ExecTypes, Exec!TypeOK
  <2>4. /\ frames' \in Seq(FrameSet) /\ Len(frames') <= GuestFrames
        /\ \A i \in 1..Len(frames') : frames'[i] = f \/ \E j \in 1..Len(frames) : frames'[i] = frames[j]
    <3>1. frames \in Seq(FrameSet) /\ Len(frames) <= GuestFrames /\ Len(frames) \in Nat /\ GuestFrames \in Nat
      BY DEF ExecInv, ExecTypes, Exec!TypeOK
    <3>2. CASE frames' = frames
      BY <3>1, <3>2
    <3>3. CASE Len(frames) < GuestFrames /\ frames' = Append(frames, f)
      BY <2>3, <3>1, <3>3, Joined
    <3> QED
      BY <2>2, <3>2, <3>3
  <2>5. f.kind = "terminal" => f.terminal = emitted /\ guest = "done"
    BY <2>3 DEF ExecInv, Terminals
  <2>6. ExecTypes'
    BY <1>1, <2>2, <2>3, <2>4, TerminalTypes DEF ExecInv, ExecTypes, Exec!TypeOK
  <2>7. Terminals'
    <3>1. \A i \in 1..Len(pipe') : pipe'[i].kind = "terminal" => pipe'[i].terminal = emitted /\ guest = "done"
      BY <2>3 DEF ExecInv, Terminals
    <3>2. \/ f.kind = "terminal" /\ seen' = emitted /\ f.terminal = emitted /\ guest = "done"
          \/ f.kind # "terminal" /\ seen' = seen
      BY <2>2, <2>5
    <3>3. \A i \in 1..Len(frames') : frames'[i].kind = "terminal" =>
             frames'[i].terminal = emitted /\ seen' = emitted /\ guest = "done"
      BY <2>4, <3>2 DEF ExecInv, Terminals
    <3>4. seen' \in {Exec!NoTerminal, emitted} /\ (outcome # Exec!NoTerminal => outcome = emitted /\ seen' = emitted)
      BY <3>2 DEF ExecInv, Terminals
    <3> QED
      BY <1>1, <3>1, <3>3, <3>4 DEF ExecInv, Terminals
  <2>8. Judgement' /\ Places'
    BY <1>1 DEF ExecInv, Judgement, Places, Exec!DoneIsRecorded
  <2> QED
    BY <2>6, <2>7, <2>8 DEF ExecInv
<1> QED
  BY <1>2, <1>3 DEF Exec!ReadNext

\* Heartbeat, forwarder and deadline touch no outcome.
LEMMA HelpersKeep == ExecInv /\ (Exec!HeartbeatFails \/ Exec!ForwardNext \/ Exec!Expire) => ExecInv'
<1> SUFFICES ASSUME ExecInv, Exec!HeartbeatFails \/ Exec!ForwardNext \/ Exec!Expire PROVE ExecInv'
  OBVIOUS
<1>1. /\ UNCHANGED <<kind, pc, record, outcome, lifecycle, received, host, waited, pipe, frames, reader,
                      seen, closeErr, guest, emitted>>
      /\ forward' \in {"idle", "reading", "sending", "failed", "done"}
      /\ expired' \in BOOLEAN /\ (expired => expired')
      /\ (heart' = heart /\ closing' = closing)
         \/ (heart = "beating" /\ heart' = "failed" /\ closing' \in {closing, "closing"})
  BY Zenon DEF Exec!HeartbeatFails, Exec!ForwardNext, Exec!Expire, Exec!CloseBegins,
     Exec!handlerVars, Exec!guestVars, Exec!streamVars, ExecInv,
         ExecTypes, Exec!TypeOK
<1>2. ExecTypes'
  BY <1>1 DEF ExecInv, ExecTypes, Exec!TypeOK
<1>3. Terminals' /\ Judgement'
  BY <1>1 DEF ExecInv, Terminals, Judgement
<1>4. Places'
  BY <1>1 DEF ExecInv, Places, Exec!DoneIsRecorded
<1> QED
  BY <1>2, <1>3, <1>4 DEF ExecInv

\* What every step of the handler leaves alone.
LEMMA HandlerFrame ==
    ASSUME Exec!HandlerNext
    PROVE  UNCHANGED <<kind, expired, waited, pipe, seen, closeErr, emitted>>
  BY DEF Exec!HandlerNext

\* The handler takes its outcome from a terminal it received.
LEMMA ReceiveKeeps == ExecInv /\ Exec!HandlerNext /\ Exec!ReceiveFrame => ExecInv'
<1> SUFFICES ASSUME ExecInv, Exec!HandlerNext, Exec!ReceiveFrame PROVE ExecInv'
  OBVIOUS
<1>1. UNCHANGED <<kind, expired, waited, pipe, seen, closeErr, emitted, record, forward, host, reader, guest>>
  BY HandlerFrame DEF Exec!ReceiveFrame
<1>2. PICK f : f = Head(frames)
  OBVIOUS
<1>3. /\ pc = "exchange" /\ frames # <<>> /\ frames' = Tail(frames) /\ closing = "no"
      /\ outcome' = outcome \/ (f.kind = "terminal" /\ outcome' = f.terminal)
      /\ pc' \in {pc, "closing"} /\ closing' \in {closing, "closing"} /\ heart' \in {heart, "stopped"}
      /\ lifecycle' \in {lifecycle, "started", "exited", "invalid"}
  BY <1>2 DEF Exec!ReceiveFrame, Exec!Leave, Exec!CloseBegins, Exec!Observed
<1>4. received' \in BOOLEAN
  BY <1>2, Zenon DEF Exec!ReceiveFrame, Exec!Leave, ExecInv, ExecTypes, Exec!TypeOK,
     Exec!TerminalValid
<1>5. /\ f \in FrameSet /\ f = frames[1] /\ 1 \in 1..Len(frames) /\ frames' \in Seq(FrameSet)
      /\ Len(frames') <= GuestFrames /\ \A i \in 1..Len(frames') : \E j \in 1..Len(frames) : frames'[i] = frames[j]
  BY <1>2, <1>3, Shortened DEF ExecInv, ExecTypes, Exec!TypeOK
<1>6. f.kind = "terminal" => f.terminal = emitted /\ guest = "done" /\ seen = emitted
  BY <1>5 DEF ExecInv, Terminals
<1>7. ExecTypes'
  BY <1>1, <1>3, <1>4, <1>5, TerminalTypes DEF ExecInv, ExecTypes, Exec!TypeOK
<1>8. Terminals'
  <2>1. outcome' # Exec!NoTerminal => outcome' = emitted /\ seen = emitted
    BY <1>3, <1>6 DEF ExecInv, Terminals
  <2>2. \A i \in 1..Len(frames') : frames'[i].kind = "terminal" =>
             frames'[i].terminal = emitted /\ seen = emitted /\ guest = "done"
    BY <1>5 DEF ExecInv, Terminals
  <2> QED
    BY <1>1, <2>1, <2>2 DEF ExecInv, Terminals
<1>9. Judgement' /\ Places'
  BY <1>1, <1>3 DEF ExecInv, Judgement, Places, Exec!DoneIsRecorded
<1> QED
  BY <1>7, <1>8, <1>9 DEF ExecInv

\* The other steps move the handler and its record, and open or close.
LEMMA ExecHandlerKeeps == ExecInv /\ Exec!HandlerNext /\ ~Exec!ReceiveFrame => ExecInv'
<1> SUFFICES ASSUME ExecInv, Exec!HandlerNext, ~Exec!ReceiveFrame PROVE ExecInv'
  BY Zenon
<1>1. UNCHANGED <<kind, expired, waited, pipe, seen, closeErr, emitted, outcome, lifecycle, frames>>
  BY HandlerFrame, Zenon DEF Exec!HandlerNext, Exec!CreateExec, Exec!CreateTargetOperation,
     Exec!Open, Exec!Run, Exec!ReceiveFails, Exec!ExecClosed,
     Exec!OperationClosed, Exec!FinalizeExec, Exec!TransitionOperation, Exec!FinalizeFailure,
     Exec!handlerVars
<1>2. \/ /\ pc = "create" /\ UNCHANGED <<received, forward, heart, host, reader, closing, guest>>
         /\ \/ ~expired /\ pc' = "open" /\ record' \in {"starting", "requested"}
            \/ expired /\ pc' = "done" /\ record' \in {record, "none", "requested"}
      \/ /\ pc = "open" /\ UNCHANGED <<received, forward, heart, closing, record>>
         /\ \/ pc' = "run" /\ host' = "running" /\ guest' = "start" /\ reader' = "reading"
            \/ pc' = "fail" /\ UNCHANGED <<host, guest, reader>>
      \/ /\ pc = "run" /\ UNCHANGED <<received, host, reader, guest>>
         /\ \/ /\ pc' = "exchange" /\ record' = "running" /\ forward' = "reading" /\ heart' = "beating"
               /\ UNCHANGED closing
            \/ pc' = "closing" /\ closing' \in {closing, "closing"} /\ UNCHANGED <<record, forward, heart>>
      \/ /\ pc = "exchange" /\ UNCHANGED <<record, forward, host, reader, guest>>
         /\ pc' = "closing" /\ received' = FALSE /\ closing' \in {closing, "closing"}
         /\ heart' \in {heart, "stopped"}
      \/ /\ pc = "closing" /\ UNCHANGED <<record, received, forward, heart, host, reader, closing, guest>>
         /\ (pc' = "finalize" /\ received) \/ pc' = "fail"
      \/ /\ pc = "finalize" /\ UNCHANGED <<received, forward, heart, host, reader, closing, guest>>
         /\ pc' = "done"
         /\ record' = Exec!Judged \/ (record' = record /\ expired /\ kind = "agent")
      \/ /\ pc = "fail" /\ UNCHANGED <<received, forward, heart, host, reader, closing, guest>>
         /\ pc' = "done" /\ record' \in {"failed", "cancelled"}
  <2>1. CASE Exec!CreateExec \/ Exec!CreateTargetOperation
    BY <2>1 DEF Exec!CreateExec, Exec!CreateTargetOperation
  <2>2. CASE Exec!Open
    BY <2>2, Zenon DEF Exec!Open, Exec!handlerVars
  <2>3. CASE Exec!Run
    BY <2>3 DEF Exec!Run, Exec!CloseBegins
  <2>4. CASE Exec!ReceiveFails
    BY <2>4 DEF Exec!ReceiveFails, Exec!Leave, Exec!CloseBegins
  <2>5. CASE Exec!ExecClosed \/ Exec!OperationClosed
    BY <2>5, Zenon DEF Exec!ExecClosed, Exec!OperationClosed, Exec!handlerVars
  <2>6. CASE Exec!FinalizeExec \/ Exec!TransitionOperation
    BY <2>6 DEF Exec!FinalizeExec, Exec!TransitionOperation
  <2>7. CASE Exec!FinalizeFailure
    BY <2>7 DEF Exec!FinalizeFailure
  <2> QED
    BY <2>1, <2>2, <2>3, <2>4, <2>5, <2>6, <2>7, Zenon DEF Exec!HandlerNext
<1>3. Exec!Judged = "completed" => outcome.exit = "zero" /\ outcome.confirmed
  BY Zenon DEF Exec!Judged, Exec!Succeeded
<1>4. Exec!Judged \in Exec!Ended /\ {"failed", "cancelled"} \subseteq Exec!Ended
  BY DEF Exec!Judged, Exec!Ended
<1>5. ExecTypes'
  BY <1>1, <1>2, <1>4, Zenon DEF ExecInv, ExecTypes, Exec!TypeOK
<1>6. Terminals'
  <2>1. guest' = guest \/ (guest = "idle" /\ guest' = "start")
    BY <1>2 DEF ExecInv, Places
  <2> QED
    BY <1>1, <2>1, Zenon DEF ExecInv, Terminals
<1>7. Judgement'
  BY <1>1, <1>2, <1>3, Zenon DEF ExecInv, Judgement
<1>8. Places'
  BY <1>1, <1>2, <1>4, Zenon DEF ExecInv, Places, Exec!DoneIsRecorded
<1> QED
  BY <1>5, <1>6, <1>7, <1>8, Zenon DEF ExecInv

\* Every step of an exec keeps its invariant.
LEMMA ExecStepKeeps ==
    ASSUME ExecInv, [Exec!Next]_(Exec!execVars)
    PROVE  ExecInv'
<1>1. CASE UNCHANGED Exec!execVars
  <2>1. UNCHANGED <<kind, expired, pc, record, outcome, lifecycle, received, forward, heart, host, waited, pipe,
                    frames, reader, seen, closing, closeErr, guest, emitted>>
    BY <1>1 DEF Exec!execVars, Exec!handlerVars, Exec!streamVars, Exec!guestVars
  <2> QED
    BY <2>1 DEF ExecInv, ExecTypes, Exec!TypeOK, Terminals, Judgement, Places, Exec!DoneIsRecorded
<1> QED
  BY <1>1, GuestKeeps, TransportKeeps, ReadKeeps, HelpersKeep, ReceiveKeeps, ExecHandlerKeeps,
     Zenon DEF Exec!Next, Exec!Settled

\* The invariant implies the properties.
LEMMA ExecImplies == ExecInv => Exec!TypeOK /\ Exec!CompletedIsConfirmed /\ Exec!DoneIsRecorded
  BY TerminalTypes DEF ExecInv, ExecTypes, Terminals, Judgement, Places, Exec!CompletedIsConfirmed

(* However guest, relay, reader, heartbeat, forwarder and deadline          *)
(* interleave: an exec is recorded as completed only of a guest that said   *)
(* so with its cleanup confirmed, and a handler that is done has recorded   *)
(* an end, but for the two cases in which the request ended first.          *)
THEOREM ExecInvariant ==
    ASSUME GuestFrames \in Nat
    PROVE  Exec!Spec => [](Exec!TypeOK /\ Exec!CompletedIsConfirmed /\ Exec!DoneIsRecorded)
  BY ExecInit, ExecStepKeeps, ExecImplies, PTL DEF Exec!Spec

-----------------------------------------------------------------------------
(* The device gateway.                                                     *)

\* Where a goroutine serves its client, and where it may have registered a
\* connection to the host's server.
Relaying == {"transport", "selecting", "second", "send", "status", "relay", "release"}
Serving == {"request", "tracking", "dial", "dialled", "leave"} \cup Relaying

Allowed(m) ==
    \/ m.service.kind \in {"transport", "host_serial"} /\ m.service.device = "assigned"
    \/ m.service.kind = "device" /\ m.selected

\* What the place of a session says of its connections and of what it sends.
Placed(s) ==
    /\ s.at = "absent" => s.conn = "none"
    /\ s.at \in {"refused", "done"} => s.conn = "closed"
    /\ s.at \in {"absent", "backlog", "slot", "refused", "request", "tracking", "dial"} => s.up = "none"
    /\ s.at \in {"leave", "done"} => s.up \in {"none", "closed"}
    /\ s.at \in {"dialled"} \cup Relaying => s.up # "none"
    /\ s.at \in {"dial", "dialled", "transport"} /\ s.service.kind = "host_serial"
          => s.service.device = "assigned"
    /\ s.at \in {"second", "send"} => s.selected
    /\ s.at = "send" => s.service.kind = "device"
    /\ \A m \in s.sent : Allowed(m)

\* Only a session that will unregister it has a registered connection, and only
\* the accept loop has a session between its slot and its registration.
Registered(k) ==
    /\ Gateway!Client(k) \in connections => session[k].at \in Serving
    /\ Gateway!Upstream(k) \in connections => session[k].at \in Relaying
    /\ Gateway!Client(k) \in doomed => session[k].at \in Serving \cup {"done"}
    /\ Gateway!Upstream(k) \in doomed => session[k].at \in Relaying \cup {"leave", "done"}
    /\ session[k].at = "backlog" => Gateway!Listening
    /\ session[k].at = "slot" => acceptor.at = "slot" /\ acceptor.conn = {k}
    /\ acceptor.at = "slot" /\ acceptor.conn = {k} => session[k].at = "slot"

GatewayInv ==
    /\ Gateway!TypeOK
    /\ \A k \in Clients : Placed(session[k]) /\ Registered(k)
    /\ endpoint = "unopened" => acceptor.at = "stopped"
    /\ endpoint = "closed" => Gateway!Finished

Sessions ==
    [at : {"absent", "backlog", "slot", "refused", "request", "tracking", "dial", "dialled",
           "transport", "selecting", "second", "send", "status", "relay", "release", "leave", "done"},
     conn : {"none", "open", "gone", "closed"}, up : {"none", "open", "gone", "closed"},
     selected : BOOLEAN, service : Gateway!Services,
     sent : SUBSET [service : Gateway!Services, selected : BOOLEAN], copies : SUBSET {"up", "down"}]

-----------------------------------------------------------------------------
\* A gateway that was not opened has no sessions.
LEMMA GatewayInit == Gateway!Init => GatewayInv
<1> SUFFICES ASSUME Gateway!Init PROVE GatewayInv
  OBVIOUS
<1>1. Gateway!NoSession \in Sessions
  <2>1. [kind |-> "version", device |-> "assigned"] \in Gateway!Services
    BY DEF Gateway!Services, Gateway!ServiceKinds
  <2> QED
    BY <2>1, Zenon DEF Gateway!NoSession, Sessions
<1>2. Gateway!TypeOK
  BY <1>1 DEF Gateway!Init, Gateway!TypeOK, Sessions
<1>3. ASSUME NEW k \in Clients PROVE Placed(session[k]) /\ Registered(k)
  BY Zenon DEF Gateway!Init, Gateway!NoSession, Placed, Registered, Relaying, Gateway!Listening
<1> QED
  BY <1>2, <1>3 DEF GatewayInv, Gateway!Init

\* What a step of one session leaves alone.
LEMMA OthersKeep ==
    ASSUME GatewayInv, NEW k \in Clients,
           session' = [session EXCEPT ![k] = session'[k]], session'[k] \in Sessions,
           UNCHANGED <<endpoint, acceptor, doomed>>,
           connections' \in {connections, connections \ {Gateway!Client(k)}, connections \ {Gateway!Upstream(k)},
                             connections \cup {Gateway!Upstream(k)}},
           session[k].at \in Serving, session'[k].at \in Serving \cup {"done"},
           session[k].at \in Relaying \cup {"leave"} => session'[k].at \in Relaying \cup {"leave", "done"},
           Placed(session'[k]),
           Gateway!Client(k) \in connections' => session'[k].at # "done",
           Gateway!Upstream(k) \in connections' => session'[k].at \in Relaying
    PROVE  GatewayInv'
<1>1. Gateway!TypeOK'
  <2>1. session' \in [Clients -> Sessions]
    BY DEF GatewayInv, Gateway!TypeOK, Sessions
  <2>2. connections' \subseteq ({"client", "upstream"} \X Clients)
    BY DEF GatewayInv, Gateway!TypeOK, Gateway!Client, Gateway!Upstream
  <2> QED
    BY <2>1, <2>2, Zenon DEF GatewayInv, Gateway!TypeOK, Sessions
<1>2. ASSUME NEW j \in Clients, j # k PROVE Placed(session'[j]) /\ Registered(j)'
  <2>1. session'[j] = session[j]
    BY <1>2, Zenon DEF GatewayInv, Gateway!TypeOK
  <2>2. /\ Gateway!Client(j) # Gateway!Client(k) /\ Gateway!Client(j) # Gateway!Upstream(k)
        /\ Gateway!Upstream(j) # Gateway!Client(k) /\ Gateway!Upstream(j) # Gateway!Upstream(k)
    BY <1>2 DEF Gateway!Client, Gateway!Upstream
  <2>3. Gateway!Client(j) \in connections' <=> Gateway!Client(j) \in connections
    BY <2>2, Zenon
  <2>4. Gateway!Upstream(j) \in connections' <=> Gateway!Upstream(j) \in connections
    BY <2>2, Zenon
  <2> QED
    BY <2>1, <2>3, <2>4, Zenon DEF GatewayInv, Registered, Gateway!Listening, Gateway!Client,
       Gateway!Upstream
<1>3. Registered(k)'
  BY DEF GatewayInv, Registered, Serving, Relaying, Gateway!Client, Gateway!Upstream
<1>4. endpoint # "closed"
  BY Zenon DEF GatewayInv, Gateway!Finished, Gateway!Holders, Serving, Relaying
<1> QED
  BY <1>1, <1>2, <1>3, <1>4 DEF GatewayInv

\* One step of a session, as OthersKeep needs it.
Stepped(k) ==
    /\ session' = [session EXCEPT ![k] = session'[k]]
    /\ session'[k] \in Sessions
    /\ UNCHANGED <<endpoint, acceptor, doomed>>
    /\ connections' \in {connections, connections \ {Gateway!Client(k)}, connections \ {Gateway!Upstream(k)},
                         connections \cup {Gateway!Upstream(k)}}
    /\ session[k].at \in Serving
    /\ session'[k].at \in Serving \cup {"done"}
    /\ session[k].at \in Relaying \cup {"leave"} => session'[k].at \in Relaying \cup {"leave", "done"}
    /\ Placed(session'[k])
    /\ Gateway!Client(k) \in connections' => session'[k].at # "done"
    /\ Gateway!Upstream(k) \in connections' => session'[k].at \in Relaying

\* A step of a session before it relays.
LEMMA SessionSteps ==
    ASSUME GatewayInv, NEW k \in Clients, Gateway!Session(k)
    PROVE  Stepped(k)
<1>1. session \in [Clients -> Sessions] /\ session[k] \in Sessions
  BY DEF GatewayInv, Gateway!TypeOK, Sessions
<1>2. Placed(session[k]) /\ Registered(k)
  BY DEF GatewayInv
<1> USE DEF Stepped, Gateway!At, Gateway!Keep, Gateway!Move, Serving, Relaying
<1>3. CASE Gateway!EndTracking(k)
  BY <1>1, <1>2, <1>3 DEF Gateway!EndTracking, Sessions, Placed, Registered
<1>4. CASE Gateway!Dial(k)
  <2>1. session' = [session EXCEPT ![k] = session'[k]] /\ session'[k] \in Sessions
    BY <1>1, <1>4 DEF Gateway!Dial, Sessions
  <2>2. Placed(session'[k])
    BY <1>1, <1>2, <1>4 DEF Gateway!Dial, Sessions, Placed
  <2>3. /\ session[k].at \in Serving /\ session'[k].at \in Serving \cup {"done"}
        /\ session[k].at \in Relaying \cup {"leave"} => session'[k].at \in Relaying \cup {"leave", "done"}
    BY <1>1, <1>4 DEF Gateway!Dial, Sessions
  <2>4. /\ Gateway!Client(k) \in connections' => session'[k].at # "done"
        /\ Gateway!Upstream(k) \in connections' => session'[k].at \in Relaying
    BY <1>1, <1>2, <1>4 DEF Gateway!Dial, Sessions, Registered
  <2>5. /\ UNCHANGED <<endpoint, acceptor, doomed>>
        /\ connections' = connections
    BY <1>4, Zenon DEF Gateway!Dial
  <2> QED
    BY <2>1, <2>2, <2>3, <2>4, <2>5
<1>5. CASE Gateway!RegisterUpstream(k)
  <2>1. session' = [session EXCEPT ![k] = session'[k]] /\ session'[k] \in Sessions
    BY <1>1, <1>5 DEF Gateway!RegisterUpstream, Sessions
  <2>2. Placed(session'[k])
    BY <1>1, <1>2, <1>5 DEF Gateway!RegisterUpstream, Sessions, Placed
  <2>3. /\ session[k].at \in Serving /\ session'[k].at \in Serving \cup {"done"}
        /\ session[k].at \in Relaying \cup {"leave"} => session'[k].at \in Relaying \cup {"leave", "done"}
    BY <1>1, <1>5 DEF Gateway!RegisterUpstream, Sessions
  <2>4. /\ Gateway!Client(k) \in connections' => session'[k].at # "done"
        /\ Gateway!Upstream(k) \in connections' => session'[k].at \in Relaying
    BY <1>1, <1>2, <1>5 DEF Gateway!RegisterUpstream, Sessions, Registered
  <2>5. /\ UNCHANGED <<endpoint, acceptor, doomed>>
        /\ connections' = IF Gateway!Cancelled THEN connections ELSE connections \cup {Gateway!Upstream(k)}
    BY <1>5 DEF Gateway!RegisterUpstream
  <2> QED
    BY <2>1, <2>2, <2>3, <2>4, <2>5
<1>6. CASE Gateway!SelectTransport(k)
  <2>1. session' = [session EXCEPT ![k] = session'[k]] /\ session'[k] \in Sessions
    BY <1>1, <1>6 DEF Gateway!SelectTransport, Sessions, Gateway!Sent
  <2>2. Placed(session'[k])
    BY <1>1, <1>2, <1>6 DEF Gateway!SelectTransport, Sessions, Placed, Gateway!Sent
  <2>3. /\ session[k].at \in Serving /\ session'[k].at \in Serving \cup {"done"}
        /\ session[k].at \in Relaying \cup {"leave"} => session'[k].at \in Relaying \cup {"leave", "done"}
    BY <1>1, <1>6 DEF Gateway!SelectTransport, Sessions, Gateway!Sent
  <2>4. /\ Gateway!Client(k) \in connections' => session'[k].at # "done"
        /\ Gateway!Upstream(k) \in connections' => session'[k].at \in Relaying
    BY <1>1, <1>2, <1>6 DEF Gateway!SelectTransport, Sessions, Registered, Gateway!Sent
  <2>5. /\ UNCHANGED <<endpoint, acceptor, doomed>>
        /\ connections' = connections
    BY <1>6, Zenon DEF Gateway!SelectTransport, Gateway!Sent
  <2> QED
    BY <2>1, <2>2, <2>3, <2>4, <2>5
<1>7. CASE Gateway!SendService(k)
  <2>1. session' = [session EXCEPT ![k] = session'[k]] /\ session'[k] \in Sessions
    BY <1>1, <1>7 DEF Gateway!SendService, Sessions, Gateway!Sent
  <2>2. Placed(session'[k])
    BY <1>1, <1>2, <1>7 DEF Gateway!SendService, Sessions, Placed, Gateway!Sent
  <2>3. /\ session[k].at \in Serving /\ session'[k].at \in Serving \cup {"done"}
        /\ session[k].at \in Relaying \cup {"leave"} => session'[k].at \in Relaying \cup {"leave", "done"}
    BY <1>1, <1>7 DEF Gateway!SendService, Sessions, Gateway!Sent
  <2>4. /\ Gateway!Client(k) \in connections' => session'[k].at # "done"
        /\ Gateway!Upstream(k) \in connections' => session'[k].at \in Relaying
    BY <1>1, <1>2, <1>7 DEF Gateway!SendService, Sessions, Registered, Gateway!Sent
  <2>5. /\ UNCHANGED <<endpoint, acceptor, doomed>>
        /\ connections' = connections
    BY <1>7 DEF Gateway!SendService, Gateway!Sent
  <2> QED
    BY <2>1, <2>2, <2>3, <2>4, <2>5
<1>8. CASE Gateway!RelayEnds(k)
  BY <1>1, <1>2, <1>8 DEF Gateway!RelayEnds, Sessions, Placed, Registered
<1>9. CASE Gateway!SessionFails(k)
  <2>1. session' = [session EXCEPT ![k] = session'[k]] /\ session'[k] \in Sessions
    BY <1>1, <1>9 DEF Gateway!SessionFails, Sessions, Gateway!Leaving
  <2>2. Placed(session'[k])
    BY <1>1, <1>2, <1>9 DEF Gateway!SessionFails, Sessions, Placed, Gateway!Leaving
  <2>3. /\ session[k].at \in Serving /\ session'[k].at \in Serving \cup {"done"}
        /\ session[k].at \in Relaying \cup {"leave"} => session'[k].at \in Relaying \cup {"leave", "done"}
    BY <1>1, <1>9 DEF Gateway!SessionFails, Sessions, Gateway!Leaving
  <2>4. /\ Gateway!Client(k) \in connections' => session'[k].at # "done"
        /\ Gateway!Upstream(k) \in connections' => session'[k].at \in Relaying
    BY <1>1, <1>2, <1>9, Zenon DEF Gateway!SessionFails, Sessions, Registered, Placed,
       Gateway!Leaving
  <2>5. /\ UNCHANGED <<endpoint, acceptor, doomed>>
        /\ connections' = connections
    BY <1>9 DEF Gateway!SessionFails, Gateway!Leaving
  <2> QED
    BY <2>1, <2>2, <2>3, <2>4, <2>5
<1>10. CASE Gateway!ReleaseUpstream(k)
  <2>1. session' = [session EXCEPT ![k] = session'[k]] /\ session'[k] \in Sessions
    BY <1>1, <1>10, Zenon DEF Gateway!ReleaseUpstream, Sessions
  <2>2. Placed(session'[k])
    BY <1>1, <1>2, <1>10 DEF Gateway!ReleaseUpstream, Sessions, Placed
  <2>3. /\ session[k].at \in Serving /\ session'[k].at \in Serving \cup {"done"}
        /\ session[k].at \in Relaying \cup {"leave"} => session'[k].at \in Relaying \cup {"leave", "done"}
    BY <1>1, <1>10 DEF Gateway!ReleaseUpstream, Sessions
  <2>4. /\ Gateway!Client(k) \in connections' => session'[k].at # "done"
        /\ Gateway!Upstream(k) \in connections' => session'[k].at \in Relaying
    BY <1>1, <1>2, <1>10 DEF Gateway!ReleaseUpstream, Sessions, Registered
  <2>5. /\ UNCHANGED <<endpoint, acceptor, doomed>>
        /\ connections' = connections \ {Gateway!Upstream(k)}
    BY <1>10 DEF Gateway!ReleaseUpstream
  <2> QED
    BY <2>1, <2>2, <2>3, <2>4, <2>5
<1>11. CASE Gateway!Leave(k)
  <2>1. session' = [session EXCEPT ![k] = session'[k]] /\ session'[k] \in Sessions
    <3>1. Gateway!NoSession.service \in Gateway!Services
      BY DEF Gateway!NoSession, Gateway!Services, Gateway!ServiceKinds
    <3> QED
      BY <1>1, <1>11, <3>1, Zenon DEF Gateway!Leave, Sessions
  <2>2. Placed(session'[k])
    BY <1>1, <1>2, <1>11 DEF Gateway!Leave, Sessions, Placed
  <2>3. /\ session[k].at \in Serving /\ session'[k].at \in Serving \cup {"done"}
        /\ session[k].at \in Relaying \cup {"leave"} => session'[k].at \in Relaying \cup {"leave", "done"}
    BY <1>1, <1>11 DEF Gateway!Leave, Sessions
  <2>4. /\ Gateway!Client(k) \in connections' => session'[k].at # "done"
        /\ Gateway!Upstream(k) \in connections' => session'[k].at \in Relaying
    BY <1>1, <1>2, <1>11 DEF Gateway!Leave, Sessions, Registered
  <2>5. /\ UNCHANGED <<endpoint, acceptor, doomed>>
        /\ connections' = connections \ {Gateway!Client(k)}
    BY <1>11, Zenon DEF Gateway!Leave
  <2> QED
    BY <2>1, <2>2, <2>3, <2>4, <2>5
<1> QED
  BY <1>3, <1>4, <1>5, <1>6, <1>7, <1>8, <1>9, <1>10, <1>11, Zenon DEF Gateway!Session

\* A step of a session that waits for the host's server, or relays.
LEMMA AnswerSteps ==
    ASSUME GatewayInv, NEW k \in Clients, Gateway!Answered(k) \/ Gateway!Copy(k)
    PROVE  Stepped(k)
<1>1. session \in [Clients -> Sessions] /\ session[k] \in Sessions
  BY DEF GatewayInv, Gateway!TypeOK, Sessions
<1>2. Placed(session[k]) /\ Registered(k)
  BY Zenon DEF GatewayInv
<1> USE DEF Stepped, Gateway!At, Gateway!Keep, Gateway!Move, Serving, Relaying
<1>3. CASE Gateway!ReadRequest(k)
  <2>1. PICK s \in Gateway!Services, p \in {"leave", "tracking", "dial"} :
          /\ session' = [session EXCEPT ![k].service = s, ![k].at = p]
          /\ p = "dial" /\ s.kind = "host_serial" => s.device = "assigned"
    <3>1. CASE Gateway!Move(k, "leave")
      <4>1. session[k].service \in Gateway!Services
        BY <1>1 DEF Sessions
      <4>2. session' = [session EXCEPT ![k].service = session[k].service, ![k].at = "leave"]
        BY <1>1, <3>1, Zenon DEF Sessions
      <4> QED
        BY <4>1, <4>2, Zenon
    <3>2. CASE \E s \in Gateway!Services :
            session' = [session EXCEPT ![k].service = s,
                           ![k].at = CASE Gateway!Authorize(s) = "denied" -> "leave"
                                       [] Gateway!Authorize(s) = "synthesize" /\ s.kind = "track" -> "tracking"
                                       [] Gateway!Authorize(s) = "synthesize" -> "leave"
                                       [] OTHER -> "dial"]
      <4> PICK s \in Gateway!Services :
            session' = [session EXCEPT ![k].service = s,
                           ![k].at = CASE Gateway!Authorize(s) = "denied" -> "leave"
                                       [] Gateway!Authorize(s) = "synthesize" /\ s.kind = "track" -> "tracking"
                                       [] Gateway!Authorize(s) = "synthesize" -> "leave"
                                       [] OTHER -> "dial"]
        BY <3>2, Zenon
      <4> DEFINE p == CASE Gateway!Authorize(s) = "denied" -> "leave"
                        [] Gateway!Authorize(s) = "synthesize" /\ s.kind = "track" -> "tracking"
                        [] Gateway!Authorize(s) = "synthesize" -> "leave"
                        [] OTHER -> "dial"
      <4>1. p \in {"leave", "tracking", "dial"}
        OBVIOUS
      <4>2. p = "dial" /\ s.kind = "host_serial" => s.device = "assigned"
        BY DEF Gateway!Authorize, Gateway!AuthorizeService
      <4> QED
        BY <4>1, <4>2, Zenon
    <3> QED
      BY <1>3, <3>1, <3>2, Zenon DEF Gateway!ReadRequest
  <2>2. session' = [session EXCEPT ![k] = session'[k]] /\ session'[k] = [session[k] EXCEPT !.service = s, !.at = p]
    BY <1>1, <2>1, Zenon
  <2>3. session'[k] \in Sessions
    BY <1>1, <2>2, Zenon DEF Sessions
  <2>4. session[k].at = "request" /\ UNCHANGED <<endpoint, acceptor, doomed, connections>>
    BY <1>3 DEF Gateway!ReadRequest
  <2>5. Placed(session'[k])
    BY <1>1, <1>2, <2>1, <2>2, <2>4 DEF Sessions, Placed
  <2> QED
    BY <1>1, <1>2, <2>2, <2>3, <2>4, <2>5 DEF Sessions, Registered
<1>4. CASE Gateway!TransportAnswered(k)
  <2>1. session' = [session EXCEPT ![k] = session'[k]] /\ session'[k] \in Sessions
    BY <1>1, <1>4 DEF Gateway!TransportAnswered, Sessions
  <2>2. Placed(session'[k])
    BY <1>1, <1>2, <1>4 DEF Gateway!TransportAnswered, Sessions, Placed
  <2>3. /\ session[k].at \in Serving /\ session'[k].at \in Serving \cup {"done"}
        /\ session[k].at \in Relaying \cup {"leave"} => session'[k].at \in Relaying \cup {"leave", "done"}
    BY <1>1, <1>4 DEF Gateway!TransportAnswered, Sessions
  <2>4. /\ Gateway!Client(k) \in connections' => session'[k].at # "done"
        /\ Gateway!Upstream(k) \in connections' => session'[k].at \in Relaying
    BY <1>1, <1>2, <1>4 DEF Gateway!TransportAnswered, Sessions, Registered
  <2>5. /\ UNCHANGED <<endpoint, acceptor, doomed>>
        /\ connections' = connections
    BY <1>4 DEF Gateway!TransportAnswered
  <2> QED
    BY <2>1, <2>2, <2>3, <2>4, <2>5
<1>5. CASE Gateway!ReadSecond(k)
  <2>1. PICK s \in Gateway!Services, p \in {"send", "release"} :
          /\ session' = [session EXCEPT ![k].service = s, ![k].at = p]
          /\ p = "send" => s.kind = "device"
    <3>1. CASE Gateway!Move(k, "release")
      <4>1. session[k].service \in Gateway!Services
        BY <1>1 DEF Sessions
      <4>2. session' = [session EXCEPT ![k].service = session[k].service, ![k].at = "release"]
        BY <1>1, <3>1, Zenon DEF Sessions
      <4> QED
        BY <4>1, <4>2, Zenon
    <3>2. ASSUME NEW s \in Gateway!Services PROVE Gateway!Authorize(s) = "forward" /\ s.kind # "host_serial" => s.kind = "device"
      BY DEF Gateway!Authorize, Gateway!AuthorizeService, Gateway!Services, Gateway!ServiceKinds
    <3> QED
      BY <1>5, <3>1, <3>2, Zenon DEF Gateway!ReadSecond
  <2>2. session' = [session EXCEPT ![k] = session'[k]] /\ session'[k] = [session[k] EXCEPT !.service = s, !.at = p]
    BY <1>1, <2>1, Zenon
  <2>3. session'[k] \in Sessions
    BY <1>1, <2>2, Zenon DEF Sessions
  <2>4. session[k].at = "second" /\ UNCHANGED <<endpoint, acceptor, doomed, connections>>
    BY <1>5 DEF Gateway!ReadSecond
  <2>5. Placed(session'[k])
    BY <1>1, <1>2, <2>1, <2>2, <2>4 DEF Sessions, Placed
  <2> QED
    BY <1>1, <1>2, <2>2, <2>3, <2>4, <2>5 DEF Sessions, Registered
<1>6. CASE Gateway!StatusAnswered(k)
  <2>1. session' = [session EXCEPT ![k] = session'[k]] /\ session'[k] \in Sessions
    BY <1>1, <1>6 DEF Gateway!StatusAnswered, Sessions
  <2>2. Placed(session'[k])
    BY <1>1, <1>2, <1>6 DEF Gateway!StatusAnswered, Sessions, Placed
  <2>3. /\ session[k].at \in Serving /\ session'[k].at \in Serving \cup {"done"}
        /\ session[k].at \in Relaying \cup {"leave"} => session'[k].at \in Relaying \cup {"leave", "done"}
    BY <1>1, <1>6 DEF Gateway!StatusAnswered, Sessions
  <2>4. /\ Gateway!Client(k) \in connections' => session'[k].at # "done"
        /\ Gateway!Upstream(k) \in connections' => session'[k].at \in Relaying
    BY <1>1, <1>2, <1>6 DEF Gateway!StatusAnswered, Sessions, Registered
  <2>5. /\ UNCHANGED <<endpoint, acceptor, doomed>>
        /\ connections' = connections
    BY <1>6, Zenon DEF Gateway!StatusAnswered
  <2> QED
    BY <2>1, <2>2, <2>3, <2>4, <2>5
<1>7. CASE Gateway!Copy(k)
  BY <1>1, <1>2, <1>7 DEF Gateway!Copy, Gateway!CopyEnds, Sessions, Placed, Registered
<1> QED
  BY <1>3, <1>4, <1>5, <1>6, <1>7, Zenon DEF Gateway!Answered

\* A step of one session keeps the invariant of all of them.
LEMMA SessionKeeps ==
    ASSUME GatewayInv, NEW k \in Clients, Gateway!Session(k) \/ Gateway!Answered(k) \/ Gateway!Copy(k)
    PROVE  GatewayInv'
<1>1. Stepped(k)
  BY SessionSteps, AnswerSteps, Zenon
<1> QED
  BY <1>1, OthersKeep, Zenon DEF Stepped

\* A connection is made, accepted, registered or left by its far end.
LEMMA ConnectKeeps ==
    ASSUME GatewayInv, NEW k \in Clients,
           Gateway!Connect(k) \/ Gateway!Accept(k) \/ Gateway!Register(k) \/ Gateway!PeerLeaves(k)
    PROVE  GatewayInv'
<1>1. session \in [Clients -> Sessions] /\ session[k] \in Sessions
  BY DEF GatewayInv, Gateway!TypeOK, Sessions
<1>2. Placed(session[k]) /\ Registered(k)
  BY DEF GatewayInv
<1>3. /\ session' = [session EXCEPT ![k] = session'[k]]
      /\ session'[k] \in Sessions
      /\ Placed(session'[k])
      /\ session'[k].sent = session[k].sent
  <2>1. CASE Gateway!Connect(k)
    BY <1>1, <1>2, <2>1 DEF Gateway!Connect, Gateway!At, Sessions, Placed, Relaying
  <2>2. CASE Gateway!Accept(k)
    BY <1>1, <1>2, <2>2 DEF Gateway!Accept, Gateway!At, Sessions, Placed, Relaying
  <2>3. CASE Gateway!Register(k)
    BY <1>1, <1>2, <2>3 DEF Gateway!Register, Registered, Sessions, Placed, Relaying
  <2>4. CASE Gateway!PeerLeaves(k)
    BY <1>1, <1>2, <2>4 DEF Gateway!PeerLeaves, Gateway!Alive, Gateway!UpAlive, Sessions, Placed,
       Relaying
  <2> QED
    BY <2>1, <2>2, <2>3, <2>4, Zenon
<1>4. \A j \in Clients : j # k => session'[j] = session[j]
  BY <1>1, <1>3
<1>5. /\ UNCHANGED <<endpoint, doomed>>
      /\ connections' \in {connections, connections \cup {Gateway!Client(k)}}
      /\ acceptor' \in {acceptor, [at |-> "slot", conn |-> {k}], [at |-> "stopped", conn |-> {}],
                        [at |-> "accepting", conn |-> {}]}
  BY Zenon DEF Gateway!Connect, Gateway!Accept, Gateway!Register, Gateway!PeerLeaves, Gateway!Keep
<1>6. Gateway!TypeOK'
  <2>1. session' \in [Clients -> Sessions]
    BY <1>1, <1>3
  <2>2. connections' \subseteq ({"client", "upstream"} \X Clients)
    BY <1>5 DEF GatewayInv, Gateway!TypeOK, Gateway!Client
  <2>3. acceptor' \in [at : {"stopped", "accepting", "slot"}, conn : SUBSET Clients]
    BY <1>5 DEF GatewayInv, Gateway!TypeOK
  <2> QED
    BY <1>5, <2>1, <2>2, <2>3, Zenon DEF GatewayInv, Gateway!TypeOK, Sessions
<1>7. ASSUME NEW j \in Clients PROVE Registered(j)'
  <2>1. Registered(j) /\ (j # k => session'[j] = session[j])
    BY <1>4 DEF GatewayInv
  <2>2. /\ Gateway!Client(j) = Gateway!Client(k) => j = k
        /\ Gateway!Upstream(j) # Gateway!Client(k)
    BY DEF Gateway!Client, Gateway!Upstream
  <2>3. CASE Gateway!Connect(k)
    <3>1. session[k].at = "absent" /\ session'[k].at = "backlog" /\ Gateway!Listening
      BY <1>1, <2>3, Zenon DEF Gateway!Connect, Gateway!At, Sessions, Gateway!Listening
    <3> QED
      BY <2>1, <2>3, <3>1, Zenon DEF Gateway!Connect, Registered, Serving, Relaying,
         Gateway!Listening, Gateway!Client, Gateway!Upstream
  <2>4. CASE Gateway!Accept(k)
    <3>1. session[k].at = "backlog" /\ session'[k].at \in {"slot", "refused"} /\ acceptor.at = "accepting"
      BY <1>1, <2>4 DEF Gateway!Accept, Gateway!At, Sessions
    <3>2. \/ session'[k].at = "slot" /\ acceptor'.at = "slot" /\ acceptor'.conn = {k}
          \/ session'[k].at = "refused" /\ UNCHANGED acceptor
      BY <1>1, <2>4 DEF Gateway!Accept, Gateway!At, Sessions
    <3>3. UNCHANGED <<endpoint, connections, doomed>>
      BY <2>4, Zenon DEF Gateway!Accept
    <3> QED
      BY <2>1, <3>1, <3>2, <3>3 DEF Registered, Serving, Relaying, Gateway!Listening,
         Gateway!Client, Gateway!Upstream
  <2>5. CASE Gateway!Register(k)
    <3>1. session[k].at = "slot" /\ acceptor.at = "slot" /\ acceptor.conn = {k} /\ acceptor'.at # "slot"
      BY <1>2, <2>5 DEF Gateway!Register, Registered
    <3>2. \/ session'[k].at = "request" /\ connections' = connections \cup {Gateway!Client(k)}
          \/ session'[k].at = "refused" /\ connections' = connections
      BY <1>1, <2>5 DEF Gateway!Register, Sessions
    <3>3. j # k => session[j].at # "slot"
      BY <2>1, <3>1, Zenon DEF Registered
    <3>4. UNCHANGED <<endpoint, doomed>>
      BY <2>5 DEF Gateway!Register
    <3>5. /\ Gateway!Client(j) \in connections' => j = k \/ Gateway!Client(j) \in connections
          /\ Gateway!Upstream(j) \in connections' => Gateway!Upstream(j) \in connections
      BY <2>2, <3>2
    <3> QED
      BY <1>2, <2>1, <3>1, <3>2, <3>3, <3>4, <3>5, Zenon
         DEF Registered, Serving, Relaying, Gateway!Listening, Gateway!Client, Gateway!Upstream
  <2>6. CASE Gateway!PeerLeaves(k)
    <3>1. session'[k].at = session[k].at
      BY <1>1, <2>6 DEF Gateway!PeerLeaves, Sessions
    <3> QED
      BY <2>1, <2>6, <3>1, Zenon DEF Gateway!PeerLeaves, Gateway!Keep, Registered,
         Gateway!Listening, Gateway!Client, Gateway!Upstream
  <2> QED
    BY <2>3, <2>4, <2>5, <2>6, Zenon
<1>8. endpoint' = "closed" => Gateway!Finished'
  <2>1. CASE Gateway!Connect(k) \/ Gateway!Accept(k)
    BY <2>1 DEF Gateway!Connect, Gateway!Accept, Gateway!Listening
  <2>2. CASE Gateway!Register(k)
    BY <2>2 DEF Gateway!Register, GatewayInv, Gateway!Finished
  <2>3. CASE Gateway!PeerLeaves(k)
    <3>1. session'[k].at = session[k].at
      BY <1>1, <2>3 DEF Gateway!PeerLeaves, Sessions
    <3>2. Gateway!Holders' = Gateway!Holders
      BY <1>4, <3>1 DEF Gateway!Holders
    <3> QED
      BY <2>3, <3>2 DEF Gateway!PeerLeaves, Gateway!Keep, GatewayInv, Gateway!Finished
  <2> QED
    BY <2>1, <2>2, <2>3
<1>9. \A j \in Clients : Placed(session'[j])
  BY <1>3, <1>4 DEF GatewayInv
<1>10. endpoint' = "unopened" => acceptor'.at = "stopped"
  BY Zenon DEF GatewayInv, Gateway!Connect, Gateway!Accept, Gateway!Register, Gateway!PeerLeaves,
     Gateway!Keep
<1> QED
  BY <1>6, <1>7, <1>8, <1>9, <1>10, Zenon DEF GatewayInv

\* The endpoint opens, and closes step by step.
LEMMA EndpointKeeps ==
    ASSUME GatewayInv, Gateway!Open \/ Gateway!Close \/ Gateway!AcceptFails
    PROVE  GatewayInv'
<1>1. session \in [Clients -> Sessions]
  BY DEF GatewayInv, Gateway!TypeOK, Sessions
<1>2. CASE Gateway!Open
  <2>1. Gateway!TypeOK'
    BY <1>2, Zenon DEF Gateway!Open, GatewayInv, Gateway!TypeOK
  <2>2. acceptor.at # "slot"
    BY <1>2, Zenon DEF Gateway!Open, GatewayInv
  <2> QED
    BY <1>2, <2>1, <2>2 DEF Gateway!Open, GatewayInv, Registered, Gateway!Listening, Gateway!Client,
       Gateway!Upstream
<1>3. CASE Gateway!AcceptFails
  <2>1. Gateway!TypeOK'
    BY <1>3, Zenon DEF Gateway!AcceptFails, GatewayInv, Gateway!TypeOK
  <2> QED
    BY <1>3, <2>1, Zenon DEF Gateway!AcceptFails, GatewayInv, Registered, Gateway!Listening,
       Gateway!Client, Gateway!Upstream, Gateway!Finished, Gateway!Holders
<1>4. CASE Gateway!Cancel
  BY <1>4, Zenon DEF Gateway!Cancel, GatewayInv, Gateway!TypeOK, Registered, Gateway!Listening,
     Gateway!Client, Gateway!Upstream
<1>5. CASE Gateway!CloseListener
  <2>1. /\ endpoint = "cancelled" /\ endpoint' = "unlistened"
        /\ UNCHANGED <<acceptor, connections, doomed>>
    BY <1>5, Zenon DEF Gateway!CloseListener
  <2>2. session' = [k \in Clients |-> session'[k]]
    BY <1>5, Zenon DEF Gateway!CloseListener
  <2>3. ASSUME NEW k \in Clients
        PROVE  /\ session'[k] \in Sessions /\ Placed(session'[k])
               /\ session'[k].at = IF session[k].at = "backlog" THEN "refused" ELSE session[k].at
    <3>1. session[k] \in Sessions /\ Placed(session[k])
      BY <1>1 DEF GatewayInv
    <3>2. CASE session[k].at = "backlog"
      <4>1. session'[k] = [session[k] EXCEPT !.at = "refused", !.conn = "closed"]
        BY <1>5, <3>2, Zenon DEF Gateway!CloseListener, Gateway!At
      <4> QED
        BY <3>1, <3>2, <4>1, Zenon DEF Sessions, Placed, Relaying
    <3>3. CASE session[k].at # "backlog"
      <4>1. session'[k] = session[k]
        BY <1>5, <3>3, Zenon DEF Gateway!CloseListener, Gateway!At
      <4> QED
        BY <3>1, <3>3, <4>1
    <3> QED
      BY <3>2, <3>3
  <2>4. session' \in [Clients -> Sessions]
    BY <2>2, <2>3, Zenon
  <2>5. Gateway!TypeOK'
    BY <2>1, <2>4, Zenon DEF GatewayInv, Gateway!TypeOK, Sessions
  <2>6. ASSUME NEW k \in Clients PROVE Registered(k)'
    BY <2>1, <2>3, Zenon DEF GatewayInv, Registered, Gateway!Listening, Serving, Relaying,
       Gateway!Client, Gateway!Upstream
  <2> QED
    BY <2>1, <2>3, <2>5, <2>6, Zenon DEF GatewayInv
<1>6. CASE Gateway!Collect
  BY <1>6, Zenon DEF Gateway!Collect, GatewayInv, Gateway!TypeOK, Registered, Gateway!Listening,
     Gateway!Client, Gateway!Upstream
<1>7. CASE Gateway!CloseConnections
  <2>1. /\ endpoint = "closing" /\ endpoint' = "waiting"
        /\ UNCHANGED <<acceptor, connections, doomed>>
    BY <1>7, Zenon DEF Gateway!CloseConnections
  <2>2. session' = [k \in Clients |-> session'[k]]
    BY <1>7, Zenon DEF Gateway!CloseConnections
  <2>3. ASSUME NEW k \in Clients
        PROVE  /\ session'[k] \in Sessions /\ Placed(session'[k])
               /\ session'[k].at = session[k].at
    <3>1. session[k] \in Sessions /\ Placed(session[k])
      BY <1>1 DEF GatewayInv
    <3>2. session'[k] = [session[k] EXCEPT !.conn = IF Gateway!Client(k) \in doomed THEN "closed" ELSE @,
                                          !.up = IF Gateway!Upstream(k) \in doomed THEN "closed" ELSE @]
      BY <1>7, Zenon DEF Gateway!CloseConnections
    <3> DEFINE c == IF Gateway!Client(k) \in doomed THEN "closed" ELSE session[k].conn
               u == IF Gateway!Upstream(k) \in doomed THEN "closed" ELSE session[k].up
    <3>3. session'[k] = [session[k] EXCEPT !.conn = c, !.up = u]
      BY <3>2, Zenon
    <3>4. c \in {session[k].conn, "closed"} /\ u \in {session[k].up, "closed"}
      BY Zenon
    <3>5. /\ c # session[k].conn => session[k].at \in Serving \cup {"done"}
          /\ u # session[k].up => session[k].at \in Relaying \cup {"leave", "done"}
      BY DEF GatewayInv, Registered
    <3> HIDE DEF c, u
    <3>6. session'[k] \in Sessions /\ session'[k].conn = c /\ session'[k].up = u
      BY <3>1, <3>3, <3>4, Zenon DEF Sessions
    <3>7. /\ session'[k].at = session[k].at /\ session'[k].selected = session[k].selected
          /\ session'[k].service = session[k].service /\ session'[k].sent = session[k].sent
      BY <3>1, <3>3, Zenon DEF Sessions
    <3>8. Placed(session'[k])
      BY <3>1, <3>4, <3>5, <3>6, <3>7, Zenon DEF Placed, Relaying, Serving
    <3> QED
      BY <3>6, <3>7, <3>8, Zenon
  <2>4. session' \in [Clients -> Sessions]
    BY <2>2, <2>3, Zenon
  <2>5. Gateway!TypeOK'
    BY <2>1, <2>4, Zenon DEF GatewayInv, Gateway!TypeOK, Sessions
  <2>6. ASSUME NEW k \in Clients PROVE Registered(k)'
    BY <2>1, <2>3, Zenon DEF GatewayInv, Registered, Gateway!Listening, Gateway!Client,
       Gateway!Upstream
  <2> QED
    BY <2>1, <2>3, <2>5, <2>6 DEF GatewayInv
<1>8. CASE Gateway!Wait
  BY <1>8, Zenon DEF Gateway!Wait, Gateway!Finished, Gateway!Holders, GatewayInv, Gateway!TypeOK,
     Registered, Gateway!Listening, Gateway!Client, Gateway!Upstream
<1> QED
  BY <1>2, <1>3, <1>4, <1>5, <1>6, <1>7, <1>8 DEF Gateway!Close

\* Every step of the gateway keeps its invariant.
LEMMA GatewayStepKeeps ==
    ASSUME GatewayInv, [Gateway!Next]_(Gateway!gatewayVars)
    PROVE  GatewayInv'
<1>1. CASE UNCHANGED Gateway!gatewayVars
  <2>1. Gateway!TypeOK' /\ (\A k \in Clients : Placed(session'[k]))
    BY <1>1, Zenon DEF Gateway!gatewayVars, GatewayInv, Gateway!TypeOK
  <2>2. \A k \in Clients : Registered(k)'
    BY <1>1 DEF Gateway!gatewayVars, GatewayInv, Registered, Gateway!Listening, Gateway!Client,
       Gateway!Upstream
  <2>3. Gateway!Finished' <=> Gateway!Finished
    BY <1>1, Zenon DEF Gateway!gatewayVars, Gateway!Finished, Gateway!Holders
  <2> QED
    BY <1>1, <2>1, <2>2, <2>3 DEF Gateway!gatewayVars, GatewayInv
<1> QED
  BY <1>1, SessionKeeps, ConnectKeeps, EndpointKeeps DEF Gateway!Next

\* The invariant implies the properties.
LEMMA GatewayImplies == GatewayInv => Gateway!DeviceServiceIsSelected /\ Gateway!ClosedIsQuiet
<1> SUFFICES ASSUME GatewayInv PROVE Gateway!DeviceServiceIsSelected /\ Gateway!ClosedIsQuiet
  BY Zenon
<1>1. Gateway!DeviceServiceIsSelected
  BY Zenon DEF GatewayInv, Placed, Allowed, Gateway!DeviceServiceIsSelected
<1>2. ASSUME endpoint = "closed"
      PROVE  connections = {} /\ \A k \in Clients : session[k].conn # "open" /\ session[k].up # "open"
  <2>1. ASSUME NEW k \in Clients PROVE session[k].at \in {"absent", "refused", "done"}
    BY <1>2 DEF GatewayInv, Gateway!Finished, Gateway!Holders, Registered, Gateway!Listening
  <2>2. ASSUME NEW k \in Clients PROVE Gateway!Client(k) \notin connections /\ Gateway!Upstream(k) \notin connections
    BY <2>1 DEF GatewayInv, Registered, Serving, Relaying
  <2>3. connections = {}
    <3> SUFFICES ASSUME NEW x \in connections PROVE FALSE
      OBVIOUS
    <3>1. PICK side \in {"client", "upstream"}, k \in Clients : x = <<side, k>>
      BY DEF GatewayInv, Gateway!TypeOK
    <3> QED
      BY <2>2, <3>1, Zenon DEF Gateway!Client, Gateway!Upstream
  <2>4. ASSUME NEW k \in Clients PROVE session[k].conn # "open" /\ session[k].up # "open"
    BY <2>1 DEF GatewayInv, Placed
  <2> QED
    BY <2>3, <2>4, Zenon
<1> QED
  BY <1>1, <1>2, Zenon DEF Gateway!ClosedIsQuiet

(* Once Close has returned, no connection of the gateway is registered or  *)
(* open, however the accept loop and the dials raced it; and no service of *)
(* a device reaches the host's server before that selected the device.     *)
THEOREM GatewayInvariant ==
    Gateway!Spec => [](Gateway!TypeOK /\ Gateway!DeviceServiceIsSelected /\ Gateway!ClosedIsQuiet)
<1>1. GatewayInv => Gateway!TypeOK
  BY DEF GatewayInv
<1> QED
  BY <1>1, GatewayInit, GatewayStepKeeps, GatewayImplies, PTL DEF Gateway!Spec
===============================================================================
