------------------------------ MODULE Exchanges ------------------------------
(***************************************************************************)
(* What the daemon exchanges with clients, guests and devices, beside the  *)
(* idempotent store: the handlers of execs, the transports of the target   *)
(* drivers, in-process streams, the device gateway, the agent runner, the  *)
(* policy registry and the host.  The components share no state of the     *)
(* program, so one specification has them side by side: focus, chosen      *)
(* once, is the one that takes the steps.  Their instances come from the   *)
(* modules that prove each of them correct.                                *)
(***************************************************************************)
EXTENDS IdempotentStore, SessionProofs, WorkProofs, DaemonProofs

VARIABLE focus

ASSUME BoundsAssumption ==
    /\ {GuestFrames, StreamFrames, RunnerCrashes, HostCrashes} \subseteq Nat
    /\ Capacity \in Nat

\* A deployment names at least one policy, and a host is started with one of the
\* configurations there are.
ASSUME DeploymentAssumption ==
    /\ References \in Seq(Registry!Names) /\ References # <<>>
    /\ Registry!NoPublication \notin Registry!Publications
    /\ Host!Free \notin Hosts /\ Configurations # {} /\ Deployments # {}

ownExec == <<kind, expired, pc, record, outcome, lifecycle, received, forward,
             heart, host, waited, pipe, frames, reader, seen, closing,
             closeErr, guest, emitted>>
ownTransport == <<work, overdue, transfer, operation, published, fact,
                  transportClosed, drained, transportClosing, transportErr,
                  active, held, background, transportCloser>>
ownPipe == <<shape, cancelled, toServer, sendClosed, serverOpen, toClient,
             clientOpen, serverDone, serverErr, handler, sender, sent, closer,
             closed, served, heard, got, last, panicked>>
ownGateway == <<endpoint, acceptor, session, connections, doomed>>
ownRunner == <<execution, confirmed, answered, agent, daemonUp, restarts,
               attempt, holds, result, process, late, overlapped, reconciled>>
ownRegistry == <<policies, references, digests, deployed, fingerprint,
                 position, step, returned>>
ownHost == <<stage, config, deployment, open, locks, recovered, ticker,
             stopping, call, crashes>>
sumVars == <<focus, vars, ownExec, ownTransport, ownPipe, ownGateway,
             ownRunner, ownRegistry, ownHost>>

\* What the variables of a component hold while another one runs; the store's
\* keep their initial values then.
Unused == "unused"
RestExec ==
    /\ kind = Unused /\ expired = Unused /\ pc = Unused /\ record = Unused
    /\ outcome = Unused /\ lifecycle = Unused /\ received = Unused
    /\ forward = Unused /\ heart = Unused /\ host = Unused /\ waited = Unused
    /\ pipe = Unused /\ frames = Unused /\ reader = Unused /\ seen = Unused
    /\ closing = Unused /\ closeErr = Unused /\ guest = Unused
    /\ emitted = Unused
RestTransport ==
    /\ work = Unused /\ overdue = Unused /\ transfer = Unused
    /\ operation = Unused /\ published = Unused /\ fact = Unused
    /\ transportClosed = Unused /\ drained = Unused
    /\ transportClosing = Unused /\ transportErr = Unused /\ active = Unused
    /\ held = Unused /\ background = Unused /\ transportCloser = Unused
RestPipe ==
    /\ shape = Unused /\ cancelled = Unused /\ toServer = Unused
    /\ sendClosed = Unused /\ serverOpen = Unused /\ toClient = Unused
    /\ clientOpen = Unused /\ serverDone = Unused /\ serverErr = Unused
    /\ handler = Unused /\ sender = Unused /\ sent = Unused /\ closer = Unused
    /\ closed = Unused /\ served = Unused /\ heard = Unused /\ got = Unused
    /\ last = Unused /\ panicked = Unused
RestGateway ==
    /\ endpoint = Unused /\ acceptor = Unused /\ session = Unused
    /\ connections = Unused /\ doomed = Unused
RestRunner ==
    /\ execution = Unused /\ confirmed = Unused /\ answered = Unused
    /\ agent = Unused /\ daemonUp = Unused /\ restarts = Unused
    /\ attempt = Unused /\ holds = Unused /\ result = Unused
    /\ process = Unused /\ late = Unused /\ overlapped = Unused
    /\ reconciled = Unused
RestRegistry ==
    /\ policies = Unused /\ references = Unused /\ digests = Unused
    /\ deployed = Unused /\ fingerprint = Unused /\ position = Unused
    /\ step = Unused /\ returned = Unused
RestHost ==
    /\ stage = Unused /\ config = Unused /\ deployment = Unused
    /\ open = Unused /\ locks = Unused /\ recovered = Unused
    /\ ticker = Unused /\ stopping = Unused /\ call = Unused
    /\ crashes = Unused

InitStore ==
    /\ focus = "store" /\ Init /\ RestExec /\ RestTransport /\ RestPipe
    /\ RestGateway /\ RestRunner /\ RestRegistry /\ RestHost
InitExec ==
    /\ focus = "exec" /\ Exec!Init /\ Init /\ RestTransport /\ RestPipe
    /\ RestGateway /\ RestRunner /\ RestRegistry /\ RestHost
InitTransport ==
    /\ focus = "transport" /\ Transport!Init /\ Init /\ RestExec /\ RestPipe
    /\ RestGateway /\ RestRunner /\ RestRegistry /\ RestHost
InitPipe ==
    /\ focus = "pipe" /\ Pipe!Init /\ Init /\ RestExec /\ RestTransport
    /\ RestGateway /\ RestRunner /\ RestRegistry /\ RestHost
InitGateway ==
    /\ focus = "gateway" /\ Gateway!Init /\ Init /\ RestExec /\ RestTransport
    /\ RestPipe /\ RestRunner /\ RestRegistry /\ RestHost
InitRunner ==
    /\ focus = "runner" /\ Runner!Init /\ Init /\ RestExec /\ RestTransport
    /\ RestPipe /\ RestGateway /\ RestRegistry /\ RestHost
InitRegistry ==
    /\ focus = "registry" /\ Registry!Init /\ Init /\ RestExec
    /\ RestTransport /\ RestPipe /\ RestGateway /\ RestRunner /\ RestHost
InitHost ==
    /\ focus = "host" /\ Host!Init /\ Init /\ RestExec /\ RestTransport
    /\ RestPipe /\ RestGateway /\ RestRunner /\ RestRegistry
SumInit ==
    \/ InitStore \/ InitExec \/ InitTransport \/ InitPipe \/ InitGateway \/ InitRunner
    \/ InitRegistry \/ InitHost

OnlyStore(A) ==
    /\ focus = "store" /\ A
    /\ UNCHANGED <<focus, ownExec, ownTransport, ownPipe, ownGateway,
                   ownRunner, ownRegistry, ownHost>>
OnlyExec(A) ==
    /\ focus = "exec" /\ A
    /\ UNCHANGED <<focus, vars, ownTransport, ownPipe, ownGateway, ownRunner,
                   ownRegistry, ownHost>>
OnlyTransport(A) ==
    /\ focus = "transport" /\ A
    /\ UNCHANGED <<focus, vars, ownExec, ownPipe, ownGateway, ownRunner,
                   ownRegistry, ownHost>>
OnlyPipe(A) ==
    /\ focus = "pipe" /\ A
    /\ UNCHANGED <<focus, vars, ownExec, ownTransport, ownGateway, ownRunner,
                   ownRegistry, ownHost>>
OnlyGateway(A) ==
    /\ focus = "gateway" /\ A
    /\ UNCHANGED <<focus, vars, ownExec, ownTransport, ownPipe, ownRunner,
                   ownRegistry, ownHost>>
OnlyRunner(A) ==
    /\ focus = "runner" /\ A
    /\ UNCHANGED <<focus, vars, ownExec, ownTransport, ownPipe, ownGateway,
                   ownRegistry, ownHost>>
OnlyRegistry(A) ==
    /\ focus = "registry" /\ A
    /\ UNCHANGED <<focus, vars, ownExec, ownTransport, ownPipe, ownGateway,
                   ownRunner, ownHost>>
OnlyHost(A) ==
    /\ focus = "host" /\ A
    /\ UNCHANGED <<focus, vars, ownExec, ownTransport, ownPipe, ownGateway,
                   ownRunner, ownRegistry>>

\* These may have nothing left to do; the others say for themselves when they
\* are settled.
Stopped == focus \in {"store", "gateway", "registry"} /\ UNCHANGED sumVars

StoreStep == OnlyStore(Next)
ExecStep == OnlyExec(Exec!Next)
TransportStep == OnlyTransport(Transport!Next)
PipeStep == OnlyPipe(Pipe!Next)
GatewayStep == OnlyGateway(Gateway!Next)
RunnerStep == OnlyRunner(Runner!Next)
RegistryStep == OnlyRegistry(Registry!Next)
HostStep == OnlyHost(Host!Next)

SumNext == \/ StoreStep \/ ExecStep \/ TransportStep \/ PipeStep \/ GatewayStep
           \/ RunnerStep \/ RegistryStep \/ HostStep \/ Stopped

ExchangesSpec == SumInit /\ [][SumNext]_sumVars

-----------------------------------------------------------------------------
(* Properties, besides those of IdempotentStore                            *)

\* Every variable of the store and of the component that runs keeps its type.
TypesHold ==
    /\ TypeOK
    /\ CASE focus = "store"     -> TRUE
         [] focus = "exec"      -> Exec!TypeOK
         [] focus = "transport" -> Transport!TypeOK
         [] focus = "pipe"      -> Pipe!TypeOK
         [] focus = "gateway"   -> Gateway!TypeOK
         [] focus = "runner"    -> Runner!TypeOK
         [] focus = "registry"  -> Registry!TypeOK
         [] focus = "host"      -> Host!TypeOK

\* What is said at the end is true. An exec recorded completed was confirmed by
\* its guest, whose last frame was read (exec.go); a drained transport is quiet
\* and a completed transfer has its effect and its fact (target_io.go); frames
\* arrive in order and whole at the end of a stream (manager_stream.go); a
\* closed gateway leaves no connection, and a device service only ever follows
\* the selection of the assigned device (gateway.go). A retried agent run
\* starts nothing, returns what is recorded and confirms only what is gone
\* (environment.go); a reported publication resolves from both of its indexes
\* (registry.go); and a host serves recovered state that it owns, with a driver
\* for every plan, and leaves nothing behind (host.go).
OutcomeIsEarned ==
    CASE focus = "exec"      -> Exec!CompletedIsConfirmed /\ Exec!DoneIsRecorded
      [] focus = "transport" -> /\ Transport!DrainedIsQuiet /\ Transport!CompletedHasFact
                                /\ Transport!DoneIsRecorded
      [] focus = "pipe"      -> /\ Pipe!FramesInOrder /\ Pipe!HeardInOrder
                                /\ Pipe!PanicIsOfClosing
      [] focus = "gateway"   -> Gateway!DeviceServiceIsSelected /\ Gateway!ClosedIsQuiet
      [] focus = "runner"    -> /\ Runner!RetryStartsNothing /\ Runner!ReturnedIsRecorded
                                /\ Runner!ConfirmedIsGone
      [] focus = "registry"  -> /\ Registry!ReturnedResolves /\ Registry!IndexesAgree
                                /\ Registry!UpIsPublished
      [] focus = "host"      -> /\ Host!OpenIsOwned /\ Host!ClosedHoldsNothing
                                /\ Host!NothingBeforeRecovery /\ Host!TickIsBacked
                                /\ Host!PlansHaveDrivers
      [] OTHER               -> TRUE

\* A file is put in place only while the transport is not drained, also when it
\* was revoked between the last check and the rename (transport.go).
NothingAfterDrain == [][(focus = "transport") => Transport!PublishesUndrained]_sumVars
===============================================================================
