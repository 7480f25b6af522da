--------------------------- MODULE ExchangesProofs ---------------------------
(***************************************************************************)
(* Proofs about Exchanges: the store keeps its invariant whichever         *)
(* component runs beside it, and the component that runs keeps the         *)
(* invariant that SessionProofs, WorkProofs and DaemonProofs prove of it.  *)
(* A step of the sum is a step of the store, a step of the component in    *)
(* focus, or changes nothing.                                              *)
(***************************************************************************)
EXTENDS Exchanges, StoreProofs

-----------------------------------------------------------------------------

\* What the assumptions say to the components.
LEMMA Assumed ==
    /\ GuestFrames \in Nat /\ StreamFrames \in Nat /\ RunnerCrashes \in Nat
    /\ Capacity \in Nat /\ Hosted /\ Published
  BY BoundsAssumption, DeploymentAssumption, Zenon DEF Hosted, Published

\* The inductive invariant: the store's, and that of the component in focus.
SumInv ==
    /\ StoreInv
    /\ focus \in {"store", "exec", "transport", "pipe", "gateway", "runner", "registry", "host"}
    /\ focus = "exec" => ExecInv
    /\ focus = "transport" => TransportInv
    /\ focus = "pipe" => PipeInv
    /\ focus = "gateway" => GatewayInv
    /\ focus = "runner" => RunnerInv
    /\ focus = "registry" => RegistryInv
    /\ focus = "host" => HostInv

\* One component runs, chosen for good.
LEMMA FocusStays == [SumNext]_sumVars => focus' = focus
  BY Zenon DEF SumNext, sumVars, Stopped, StoreStep, ExecStep, TransportStep, PipeStep, GatewayStep,
     RunnerStep, RegistryStep, HostStep, OnlyStore, OnlyExec, OnlyTransport, OnlyPipe,
     OnlyGateway, OnlyRunner, OnlyRegistry, OnlyHost

\* The store takes its own steps or none.
LEMMA StoreTurn == [SumNext]_sumVars => [Next]_vars
  BY Zenon DEF SumNext, sumVars, Stopped, StoreStep, ExecStep, TransportStep, PipeStep, GatewayStep,
     RunnerStep, RegistryStep, HostStep, OnlyStore, OnlyExec, OnlyTransport, OnlyPipe,
     OnlyGateway, OnlyRunner, OnlyRegistry, OnlyHost

\* The handler of an exec, its streams and its guest take their own steps.
LEMMA ExecTurn ==
    ASSUME [SumNext]_sumVars, focus = "exec"
    PROVE  [Exec!Next]_(Exec!execVars)
<1>1. ExecStep \/ UNCHANGED sumVars
  BY Zenon DEF SumNext, Stopped, StoreStep, ExecStep, TransportStep, PipeStep, GatewayStep,
     RunnerStep, RegistryStep, HostStep, OnlyStore, OnlyExec, OnlyTransport, OnlyPipe,
     OnlyGateway, OnlyRunner, OnlyRegistry, OnlyHost
<1>2. UNCHANGED ownExec => UNCHANGED Exec!execVars
  BY Zenon DEF ownExec, Exec!execVars, Exec!handlerVars, Exec!streamVars, Exec!guestVars
<1> QED
  BY <1>1, <1>2, Zenon DEF ExecStep, OnlyExec, sumVars

\* So do a transport and the transfer that uses it.
LEMMA TransportTurn ==
    ASSUME [SumNext]_sumVars, focus = "transport"
    PROVE  [Transport!Next]_(Transport!transportVars)
<1>1. TransportStep \/ UNCHANGED sumVars
  BY Zenon DEF SumNext, Stopped, StoreStep, ExecStep, TransportStep, PipeStep, GatewayStep,
     RunnerStep, RegistryStep, HostStep, OnlyStore, OnlyExec, OnlyTransport, OnlyPipe,
     OnlyGateway, OnlyRunner, OnlyRegistry, OnlyHost
<1>2. UNCHANGED ownTransport => UNCHANGED Transport!transportVars
  BY Zenon DEF ownTransport, Transport!transportVars, Transport!handlerVars, Transport!closeVars
<1> QED
  BY <1>1, <1>2, Zenon DEF TransportStep, OnlyTransport, sumVars

\* So do the two ends of an in-process stream.
LEMMA PipeTurn ==
    ASSUME [SumNext]_sumVars, focus = "pipe"
    PROVE  [Pipe!Next]_(Pipe!pipeVars)
<1>1. PipeStep \/ UNCHANGED sumVars
  BY Zenon DEF SumNext, Stopped, StoreStep, ExecStep, TransportStep, PipeStep, GatewayStep,
     RunnerStep, RegistryStep, HostStep, OnlyStore, OnlyExec, OnlyTransport, OnlyPipe,
     OnlyGateway, OnlyRunner, OnlyRegistry, OnlyHost
<1>2. UNCHANGED ownPipe => UNCHANGED Pipe!pipeVars
  BY Zenon DEF ownPipe, Pipe!pipeVars, Pipe!clientVars
<1> QED
  BY <1>1, <1>2, Zenon DEF PipeStep, OnlyPipe, sumVars

\* So do the device gateway and its connections.
LEMMA GatewayTurn ==
    ASSUME [SumNext]_sumVars, focus = "gateway"
    PROVE  [Gateway!Next]_(Gateway!gatewayVars)
<1>1. GatewayStep \/ UNCHANGED sumVars
  BY Zenon DEF SumNext, Stopped, StoreStep, ExecStep, TransportStep, PipeStep, GatewayStep,
     RunnerStep, RegistryStep, HostStep, OnlyStore, OnlyExec, OnlyTransport, OnlyPipe,
     OnlyGateway, OnlyRunner, OnlyRegistry, OnlyHost
<1>2. UNCHANGED ownGateway => UNCHANGED Gateway!gatewayVars
  BY Zenon DEF ownGateway, Gateway!gatewayVars
<1> QED
  BY <1>1, <1>2, Zenon DEF GatewayStep, OnlyGateway, sumVars

\* So do the attempts of an agent run.
LEMMA RunnerTurn ==
    ASSUME [SumNext]_sumVars, focus = "runner"
    PROVE  [Runner!Next]_(Runner!runnerVars)
<1>1. RunnerStep \/ UNCHANGED sumVars
  BY Zenon DEF SumNext, Stopped, StoreStep, ExecStep, TransportStep, PipeStep, GatewayStep,
     RunnerStep, RegistryStep, HostStep, OnlyStore, OnlyExec, OnlyTransport, OnlyPipe,
     OnlyGateway, OnlyRunner, OnlyRegistry, OnlyHost
<1>2. UNCHANGED ownRunner => UNCHANGED Runner!runnerVars
  BY Zenon DEF ownRunner, Runner!runnerVars
<1> QED
  BY <1>1, <1>2, Zenon DEF RunnerStep, OnlyRunner, sumVars

\* So does the policy registry.
LEMMA RegistryTurn ==
    ASSUME [SumNext]_sumVars, focus = "registry"
    PROVE  [Registry!Next]_(Registry!registryVars)
<1>1. RegistryStep \/ UNCHANGED sumVars
  BY Zenon DEF SumNext, Stopped, StoreStep, ExecStep, TransportStep, PipeStep, GatewayStep,
     RunnerStep, RegistryStep, HostStep, OnlyStore, OnlyExec, OnlyTransport, OnlyPipe,
     OnlyGateway, OnlyRunner, OnlyRegistry, OnlyHost
<1>2. UNCHANGED ownRegistry => UNCHANGED Registry!registryVars
  BY Zenon DEF ownRegistry, Registry!registryVars
<1> QED
  BY <1>1, <1>2, Zenon DEF RegistryStep, OnlyRegistry, sumVars

\* So do the hosts.
LEMMA HostTurn ==
    ASSUME [SumNext]_sumVars, focus = "host"
    PROVE  [Host!Next]_(Host!hostVars)
<1>1. HostStep \/ UNCHANGED sumVars
  BY Zenon DEF SumNext, Stopped, StoreStep, ExecStep, TransportStep, PipeStep, GatewayStep,
     RunnerStep, RegistryStep, HostStep, OnlyStore, OnlyExec, OnlyTransport, OnlyPipe,
     OnlyGateway, OnlyRunner, OnlyRegistry, OnlyHost
<1>2. UNCHANGED ownHost => UNCHANGED Host!hostVars
  BY Zenon DEF ownHost, Host!hostVars
<1> QED
  BY <1>1, <1>2, Zenon DEF HostStep, OnlyHost, sumVars

\* The components start in their invariants.
LEMMA SumInvInit == SumInit => SumInv
<1> SUFFICES ASSUME SumInit PROVE SumInv
  BY Zenon
<1>0. StoreInv
  BY StoreInvInit, Zenon DEF SumInit, InitStore, InitExec, InitTransport, InitPipe, InitGateway,
     InitRunner, InitRegistry, InitHost
<1>1. focus = "exec" => ExecInv
  BY ExecInit, Assumed, Zenon DEF SumInit, InitStore, InitExec, InitTransport, InitPipe,
     InitGateway,
     InitRunner, InitRegistry, InitHost
<1>2. focus = "transport" => TransportInv
  BY TransportInit, Assumed, Zenon DEF SumInit, InitStore, InitExec, InitTransport, InitPipe,
     InitGateway,
     InitRunner, InitRegistry, InitHost
<1>3. focus = "pipe" => PipeInv
  BY PipeInit, Assumed, Zenon DEF SumInit, InitStore, InitExec, InitTransport, InitPipe,
     InitGateway,
     InitRunner, InitRegistry, InitHost
<1>4. focus = "gateway" => GatewayInv
  BY GatewayInit, Assumed, Zenon DEF SumInit, InitStore, InitExec, InitTransport, InitPipe,
     InitGateway,
     InitRunner, InitRegistry, InitHost
<1>5. focus = "runner" => RunnerInv
  BY RunnerInit, Assumed, Zenon DEF SumInit, InitStore, InitExec, InitTransport, InitPipe,
     InitGateway,
     InitRunner, InitRegistry, InitHost
<1>6. focus = "registry" => RegistryInv
  BY RegistryInit, Assumed, Zenon DEF SumInit, InitStore, InitExec, InitTransport, InitPipe,
     InitGateway,
     InitRunner, InitRegistry, InitHost
<1>7. focus = "host" => HostInv
  BY HostInit, Assumed, Zenon DEF SumInit, InitStore, InitExec, InitTransport, InitPipe,
     InitGateway,
     InitRunner, InitRegistry, InitHost
<1>8. focus \in {"store", "exec", "transport", "pipe", "gateway", "runner", "registry", "host"}
  BY Zenon DEF SumInit, InitStore, InitExec, InitTransport, InitPipe, InitGateway, InitRunner,
     InitRegistry, InitHost
<1> QED
  BY <1>0, <1>1, <1>2, <1>3, <1>4, <1>5, <1>6, <1>7, <1>8, Zenon DEF SumInv

\* Every step keeps the invariant of the store and that of the component in
\* focus; the others say nothing.
LEMMA SumInvNext == SumInv /\ [SumNext]_sumVars => SumInv'
<1> SUFFICES ASSUME SumInv, [SumNext]_sumVars PROVE SumInv'
  BY Zenon
<1>0. StoreInv'
  BY StoreTurn, StoreInvNext, Zenon DEF SumInv
<1>1. focus = "exec" => ExecInv'
  BY ExecTurn, ExecStepKeeps, Zenon DEF SumInv
<1>2. focus = "transport" => TransportInv'
  BY TransportTurn, TransportStepKeeps, Zenon DEF SumInv
<1>3. focus = "pipe" => PipeInv'
  BY PipeTurn, PipeStepKeeps, Zenon DEF SumInv
<1>4. focus = "gateway" => GatewayInv'
  BY GatewayTurn, GatewayStepKeeps, Zenon DEF SumInv
<1>5. focus = "runner" => RunnerInv'
  BY RunnerTurn, RunnerStepKeeps, Zenon DEF SumInv
<1>6. focus = "registry" => RegistryInv'
  BY RegistryTurn, RegistryStepKeeps, Zenon DEF SumInv
<1>7. focus = "host" => HostInv'
  BY HostTurn, HostStepKeeps, Zenon DEF SumInv
<1> QED
  BY <1>0, <1>1, <1>2, <1>3, <1>4, <1>5, <1>6, <1>7, FocusStays, Zenon DEF SumInv

\* The invariant of the sum, for any number of callers, clients, attempts,
\* hosts, frames and crashes.
THEOREM SumInvariant == ExchangesSpec => []SumInv
  BY SumInvInit, SumInvNext, PTL DEF ExchangesSpec

\* The types of the store and of the component in focus.
LEMMA SumTypes == SumInv => TypesHold
<1> SUFFICES ASSUME SumInv PROVE TypesHold
  BY Zenon
<1>0. TypeOK
  BY Zenon DEF SumInv, StoreInv
<1>1. CASE focus = "exec"
  <2>1. Exec!TypeOK
    BY <1>1, ExecImplies, Zenon DEF SumInv
  <2> QED
    BY <1>0, <1>1, <2>1, Zenon DEF TypesHold
<1>2. CASE focus = "transport"
  <2>1. Transport!TypeOK
    BY <1>2, Zenon DEF SumInv, TransportInv
  <2> QED
    BY <1>0, <1>2, <2>1, Zenon DEF TypesHold
<1>3. CASE focus = "pipe"
  <2>1. Pipe!TypeOK
    BY <1>3, PipeImplies, Zenon DEF SumInv
  <2> QED
    BY <1>0, <1>3, <2>1, Zenon DEF TypesHold
<1>4. CASE focus = "gateway"
  <2>1. Gateway!TypeOK
    BY <1>4, Zenon DEF SumInv, GatewayInv
  <2> QED
    BY <1>0, <1>4, <2>1, Zenon DEF TypesHold
<1>5. CASE focus = "runner"
  <2>1. Runner!TypeOK
    BY <1>5, RunnerImplies, Zenon DEF SumInv
  <2> QED
    BY <1>0, <1>5, <2>1, Zenon DEF TypesHold
<1>6. CASE focus = "registry"
  <2>1. Registry!TypeOK
    BY <1>6, RegistryImplies, Zenon DEF SumInv
  <2> QED
    BY <1>0, <1>6, <2>1, Zenon DEF TypesHold
<1>7. CASE focus = "host"
  <2>1. Host!TypeOK
    BY <1>7, HostImplies, Zenon DEF SumInv
  <2> QED
    BY <1>0, <1>7, <2>1, Zenon DEF TypesHold
<1>8. CASE focus = "store"
  BY <1>0, <1>8, Zenon DEF TypesHold
<1> QED
  BY <1>1, <1>2, <1>3, <1>4, <1>5, <1>6, <1>7, <1>8, Zenon DEF SumInv

\* What the component in focus says at its end is true.
LEMMA SumEarned == SumInv => OutcomeIsEarned
<1> SUFFICES ASSUME SumInv PROVE OutcomeIsEarned
  BY Zenon
<1>1. CASE focus = "exec"
  <2>1. Exec!CompletedIsConfirmed /\ Exec!DoneIsRecorded
    BY <1>1, ExecImplies, Zenon DEF SumInv
  <2> QED
    BY <1>1, <2>1, Zenon DEF OutcomeIsEarned
<1>2. CASE focus = "transport"
  <2>1. Transport!DrainedIsQuiet /\ Transport!CompletedHasFact /\ Transport!DoneIsRecorded
    BY <1>2, Zenon DEF SumInv, TransportInv
  <2> QED
    BY <1>2, <2>1, Zenon DEF OutcomeIsEarned
<1>3. CASE focus = "pipe"
  <2>1. Pipe!FramesInOrder /\ Pipe!HeardInOrder /\ Pipe!PanicIsOfClosing
    BY <1>3, PipeImplies, Zenon DEF SumInv
  <2> QED
    BY <1>3, <2>1, Zenon DEF OutcomeIsEarned
<1>4. CASE focus = "gateway"
  <2>1. Gateway!DeviceServiceIsSelected /\ Gateway!ClosedIsQuiet
    BY <1>4, GatewayImplies, Zenon DEF SumInv
  <2> QED
    BY <1>4, <2>1, Zenon DEF OutcomeIsEarned
<1>5. CASE focus = "runner"
  <2>1. Runner!RetryStartsNothing /\ Runner!ReturnedIsRecorded /\ Runner!ConfirmedIsGone
    BY <1>5, RunnerImplies, Zenon DEF SumInv
  <2> QED
    BY <1>5, <2>1, Zenon DEF OutcomeIsEarned
<1>6. CASE focus = "registry"
  <2>1. Registry!ReturnedResolves /\ Registry!IndexesAgree /\ Registry!UpIsPublished
    BY <1>6, RegistryImplies, Zenon DEF SumInv
  <2> QED
    BY <1>6, <2>1, Zenon DEF OutcomeIsEarned
<1>7. CASE focus = "host"
  <2>1. /\ Host!OpenIsOwned /\ Host!ClosedHoldsNothing /\ Host!NothingBeforeRecovery
        /\ Host!TickIsBacked /\ Host!PlansHaveDrivers
    BY <1>7, HostImplies, Zenon DEF SumInv
  <2> QED
    BY <1>7, <2>1, Zenon DEF OutcomeIsEarned
<1>8. CASE focus = "store"
  BY <1>8, Zenon DEF OutcomeIsEarned
<1> QED
  BY <1>1, <1>2, <1>3, <1>4, <1>5, <1>6, <1>7, <1>8, Zenon DEF SumInv

-----------------------------------------------------------------------------
(* The theorems.                                                           *)

\* Every variable of the store, of exec handlers, transports, streams, the
\* gateway, the runner, the registry and the host keeps its type.
THEOREM TypesAlwaysHold == ExchangesSpec => []TypesHold
  BY SumInvariant, SumTypes, PTL

\* However guests, clients, deadlines, revocations, crashes and retries
\* interleave, what a component reports at its end is true: a completed exec
\* was confirmed, a completed transfer has its effect and its fact, a drained
\* transport is quiet, frames arrive in order, a closed gateway has no
\* connection, a retried agent run starts nothing, a publication resolves, and
\* a host serves recovered state that it owns.
THEOREM OutcomesAreEarned == ExchangesSpec => []OutcomeIsEarned
  BY SumInvariant, SumEarned, PTL

\* A pushed file is put in place only while its transport is not drained.
THEOREM NothingIsPublishedAfterDrain == ExchangesSpec => NothingAfterDrain
<1>1. SumInv /\ [SumNext]_sumVars => ((focus = "transport") => Transport!PublishesUndrained)
  BY TransportTurn, PublishingIsInside, Zenon DEF SumInv
<1> QED
  BY <1>1, SumInvariant, PTL DEF ExchangesSpec, NothingAfterDrain

\* Whichever component runs beside it, the store behaves as IdempotentStore
\* says, so that every theorem of StoreProofs holds of the whole.
THEOREM StoreBehavesAlone == ExchangesSpec => Spec
<1>1. SumInit => Init
  BY Zenon DEF SumInit, InitStore, InitExec, InitTransport, InitPipe, InitGateway, InitRunner,
     InitRegistry, InitHost
<1> QED
  BY <1>1, StoreTurn, PTL DEF ExchangesSpec, Spec

==============================================================================
