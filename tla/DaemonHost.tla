------------------------------ MODULE DaemonHost ------------------------------
(***************************************************************************)
(* The life of the embedded daemon (world/open.go, world/manager.go and    *)
(* internal/orchestration/daemon): hosts that contend for control state    *)
(* and for an Android target root, the stages of opening one, how a failed *)
(* opening is unwound, the lease ticker, the calls of the embedding and    *)
(* how Close takes the host down.                                          *)
(*                                                                         *)
(* A host holds up to four resources, always acquired in the order         *)
(*   "state"      the process lock of the control state,                   *)
(*   "store"      the open control store,                                  *)
(*   "ledger"     the open observation ledger,                             *)
(*   "allocator"  the Android driver, which owns a lock of its own.        *)
(* Both locks are taken without waiting.  A manager that is opened again   *)
(* in the same process is another host of the model.                       *)
(***************************************************************************)
EXTENDS Naturals

CONSTANTS
    Hosts,
    Configurations,     \* records: the drivers, state root and Android root asked for
    Deployments,        \* records: what a deployment profile has plans for
    MaxCrashes          \* bound on the number of process crashes

VARIABLES
    stage,              \* per host: how far it is opened or closed
    config, deployment, \* per host: what it was opened with
    open,               \* per host: the resources it holds
    locks,              \* per lock: the host that holds it
    recovered,          \* per host: both startup reconciliations succeeded
    ticker, cancelled,  \* per host: the lease ticker and its context
    call,               \* per host: a call of the embedding
    crashes

hostVars == <<stage, config, deployment, open, locks, recovered, ticker, cancelled,
              call, crashes>>

Free == "free"
Roots == {c.state : c \in Configurations} \cup {c.androidRoot : c \in Configurations}

Opening == {"store", "ledger", "profile", "drivers", "android", "policies", "production",
            "physical", "leases"}

\* What a closed host holds in place of a configuration and a deployment.
NoConfiguration == CHOOSE c \in Configurations : TRUE
NoDeployment == CHOOSE d \in Deployments : TRUE

Init ==
    /\ stage = [h \in Hosts |-> "closed"]
    /\ config = [h \in Hosts |-> NoConfiguration]
    /\ deployment = [h \in Hosts |-> NoDeployment]
    /\ open = [h \in Hosts |-> {}]
    /\ locks = [r \in Roots |-> Free]
    /\ recovered = [h \in Hosts |-> FALSE]
    /\ ticker = [h \in Hosts |-> "none"]
    /\ cancelled = [h \in Hosts |-> FALSE]
    /\ call = [h \in Hosts |-> "none"]
    /\ crashes = 0

(***************************************************************************)
(* Configuration.  A field is "none" or names the driver in use.           *)
(***************************************************************************)
Uses(value) == value # "none"

\* validatePathsAndDrivers
ValidDrivers(c) ==
    /\ Uses(c.agent) <=> Uses(c.workspace)
    /\ Uses(c.linux) => Uses(c.agent)
    /\ Uses(c.android) => Uses(c.agent)
    /\ ~Uses(c.agent) => ~Uses(c.capture) /\ ~c.profile /\ ~Uses(c.observer)

\* validatePhysicalComposition
ValidPhysical(c) == Uses(c.agent) => c.profile

\* Faulty variant: a profile may hold plans whose driver is disabled.
ConsistentLoosely(c, d) ==
    /\ Uses(c.linux) => d.linux
    /\ Uses(c.android) => d.android
    /\ d.observers <=> Uses(c.observer)

\* configureHostDriversWithFactories: the profile has plans for exactly the
\* drivers in use.
Consistent(c, d) ==
    /\ Uses(c.linux) <=> d.linux
    /\ Uses(c.android) <=> d.android
    /\ d.observers <=> Uses(c.observer)
    /\ (~d.linux /\ ~d.android) => ~d.runs

(***************************************************************************)
(* Opening.  Every stage can fail, and a failed one is unwound.            *)
(***************************************************************************)
Goes(h, s) == stage' = [stage EXCEPT ![h] = s]
Holds(h, r) == open' = [open EXCEPT ![h] = @ \cup {r}]
Takes(h, root) == locks[root] = Free /\ locks' = [locks EXCEPT ![root] = h]

Acquire(h) ==
    /\ stage[h] = "closed" /\ call[h] = "none"
    /\ \E c \in Configurations, d \in Deployments :
        /\ ValidDrivers(c) /\ ValidPhysical(c)
        /\ Takes(h, c.state)
        /\ config' = [config EXCEPT ![h] = c]
        /\ deployment' = [deployment EXCEPT ![h] = d]
    /\ Holds(h, "state")
    /\ Goes(h, "store")
    /\ recovered' = [recovered EXCEPT ![h] = FALSE]
    /\ ticker' = [ticker EXCEPT ![h] = "none"]
    /\ cancelled' = [cancelled EXCEPT ![h] = FALSE]
    /\ UNCHANGED <<call, crashes>>

OpenStore(h) ==
    /\ stage[h] = "store" /\ Holds(h, "store") /\ Goes(h, "ledger")
    /\ UNCHANGED locks

OpenLedger(h) ==
    /\ stage[h] = "ledger" /\ Holds(h, "ledger")
    /\ Goes(h, IF Uses(config[h].agent) THEN "profile" ELSE "production")
    /\ UNCHANGED locks

LoadProfile(h) ==
    /\ stage[h] = "profile" /\ Consistent(config[h], deployment[h]) /\ Goes(h, "drivers")
    /\ UNCHANGED <<open, locks>>

\* The other drivers hold nothing that must be closed; they are probed.
ProbeDrivers(h) ==
    /\ stage[h] = "drivers"
    /\ Goes(h, IF Uses(config[h].android) THEN "android" ELSE "policies")
    /\ UNCHANGED <<open, locks>>

\* The allocator takes the lock of the Android root.
OpenAndroid(h) ==
    /\ stage[h] = "android" /\ Takes(h, config[h].androidRoot)
    /\ Holds(h, "allocator") /\ Goes(h, "policies")

PublishPolicies(h) ==
    /\ stage[h] = "policies" /\ Goes(h, "production")
    /\ UNCHANGED <<open, locks>>

NewProduction(h) ==
    /\ stage[h] = "production" /\ Goes(h, "physical")
    /\ UNCHANGED <<open, locks>>

ReconcilePhysical(h) ==
    /\ stage[h] = "physical" /\ Goes(h, "leases")
    /\ UNCHANGED <<open, locks>>

\* Any stage fails, or its deadline passes.
Fail(h) ==
    /\ stage[h] \in Opening /\ Goes(h, "unwind")
    /\ UNCHANGED <<open, locks>>

OpenStep(h) ==
    /\ \/ OpenStore(h) \/ OpenLedger(h) \/ LoadProfile(h) \/ ProbeDrivers(h) \/ OpenAndroid(h)
       \/ PublishPolicies(h) \/ NewProduction(h) \/ ReconcilePhysical(h) \/ Fail(h)
    /\ UNCHANGED <<config, deployment, recovered, ticker, cancelled, call, crashes>>

\* Faulty variant: the host is returned before the leases are reconciled.
ServeEarly(h) ==
    /\ stage[h] \in {"physical", "leases"} /\ Goes(h, "up")
    /\ recovered' = [recovered EXCEPT ![h] = stage[h] = "leases"]
    /\ ticker' = [ticker EXCEPT ![h] = "idle"]
    /\ UNCHANGED <<config, deployment, open, locks, cancelled, call, crashes>>

\* reconcileStartupStateWithin ends; the ticker starts and the host is returned.
Serve(h) ==
    /\ stage[h] = "leases" /\ Goes(h, "up")
    /\ recovered' = [recovered EXCEPT ![h] = TRUE]
    /\ ticker' = [ticker EXCEPT ![h] = "idle"]
    /\ UNCHANGED <<config, deployment, open, locks, cancelled, call, crashes>>

(***************************************************************************)
(* The ticker.  Its select may still take a tick when its context has just *)
(* ended, which is the same as a tick that began just before.              *)
(***************************************************************************)
Tick(h) ==
    /\ ticker[h] = "idle" /\ ~cancelled[h]
    /\ ticker' = [ticker EXCEPT ![h] = "ticking"]

TickEnds(h) ==
    /\ ticker[h] = "ticking"
    /\ ticker' = [ticker EXCEPT ![h] = "idle"]

TickerStops(h) ==
    /\ ticker[h] = "idle" /\ cancelled[h]
    /\ ticker' = [ticker EXCEPT ![h] = "done"]

Ticker(h) ==
    /\ Tick(h) \/ TickEnds(h) \/ TickerStops(h)
    /\ UNCHANGED <<stage, config, deployment, open, locks, recovered, cancelled, call, crashes>>

(***************************************************************************)
(* Calls.  requireOpen reads the closed flag, then the call reads the      *)
(* facade, which Close has cleared once the host is down: such a call      *)
(* panics.  Close waits for no call, so a call may outlive the host; its   *)
(* commits then fail, for the store is closed.                             *)
(***************************************************************************)
RequireOpen(h) ==
    /\ stage[h] = "up" /\ call[h] = "none"
    /\ call' = [call EXCEPT ![h] = "entered"]

Dispatch(h) ==
    /\ call[h] = "entered"
    /\ call' = [call EXCEPT ![h] = IF stage[h] = "closed" THEN "panicked" ELSE "serving"]

Commit(h) ==
    /\ call[h] = "serving" /\ "store" \in open[h]
    /\ call' = [call EXCEPT ![h] = "committed"]

Return(h) ==
    /\ call[h] \in {"serving", "committed", "panicked"}
    /\ call' = [call EXCEPT ![h] = "none"]

Call(h) ==
    /\ RequireOpen(h) \/ Dispatch(h) \/ Commit(h) \/ Return(h)
    /\ UNCHANGED <<stage, config, deployment, open, locks, recovered, ticker, cancelled, crashes>>

(***************************************************************************)
(* Closing: one caller wins the closed flag and cancels the ticker, waits  *)
(* for it, gives the observers a bounded time and then takes the same way  *)
(* back as a failed opening.  An error on the way stops nothing.           *)
(***************************************************************************)
Close(h) ==
    /\ stage[h] = "up" /\ Goes(h, "waiting")
    /\ cancelled' = [cancelled EXCEPT ![h] = TRUE]
    /\ UNCHANGED <<config, deployment, open, locks, recovered, ticker, call, crashes>>

\* Faulty variant: Close does not wait for the ticker.
AwaitTickerNever(h) ==
    /\ stage[h] = "waiting" /\ Goes(h, "observers")
    /\ UNCHANGED <<config, deployment, open, locks, recovered, ticker, cancelled, call, crashes>>

AwaitTicker(h) ==
    /\ stage[h] = "waiting" /\ ticker[h] = "done" /\ Goes(h, "observers")
    /\ UNCHANGED <<config, deployment, open, locks, recovered, ticker, cancelled, call, crashes>>

CloseObservers(h) ==
    /\ stage[h] = "observers" /\ Goes(h, "unwind")
    /\ UNCHANGED <<config, deployment, open, locks, recovered, ticker, cancelled, call, crashes>>

\* Faulty variants: the lock goes first, or the Android driver is forgotten.
NextReleasedLockFirst(held) ==
    IF "state" \in held THEN "state" ELSE CHOOSE r \in held : TRUE
NextReleasedForgetful(held) ==
    IF "ledger" \in held THEN "ledger" ELSE IF "store" \in held THEN "store" ELSE "state"

\* The deferred closers and Close release in the reverse order of acquisition.
NextReleased(held) ==
    IF "allocator" \in held THEN "allocator"
    ELSE IF "ledger" \in held THEN "ledger"
    ELSE IF "store" \in held THEN "store" ELSE "state"

\* The root whose lock goes with a resource.
Released(h, r) ==
    CASE r = "state"     -> [locks EXCEPT ![config[h].state] = Free]
      [] r = "allocator" -> [locks EXCEPT ![config[h].androidRoot] = Free]
      [] OTHER           -> locks

\* The host object goes with what it was opened with.
Forgotten(h) ==
    /\ config' = [config EXCEPT ![h] = NoConfiguration]
    /\ deployment' = [deployment EXCEPT ![h] = NoDeployment]

Unwind(h) ==
    /\ stage[h] = "unwind"
    /\ LET r == NextReleased(open[h]) IN
        /\ open' = [open EXCEPT ![h] = @ \ {r}]
        /\ locks' = Released(h, r)
        /\ IF r = "state" THEN Goes(h, "closed") /\ Forgotten(h)
           ELSE Goes(h, "unwind") /\ UNCHANGED <<config, deployment>>
    /\ UNCHANGED <<recovered, ticker, cancelled, call, crashes>>

Down(h) == Close(h) \/ AwaitTicker(h) \/ CloseObservers(h) \/ Unwind(h)

\* The process dies; the operating system drops its locks.
Crash(h) ==
    /\ crashes < MaxCrashes /\ stage[h] # "closed"
    /\ crashes' = crashes + 1
    /\ Goes(h, "closed") /\ Forgotten(h)
    /\ open' = [open EXCEPT ![h] = {}]
    /\ locks' = [r \in Roots |-> IF locks[r] = h THEN Free ELSE locks[r]]
    /\ recovered' = [recovered EXCEPT ![h] = FALSE]
    /\ ticker' = [ticker EXCEPT ![h] = "none"]
    /\ cancelled' = [cancelled EXCEPT ![h] = FALSE]
    /\ call' = [call EXCEPT ![h] = "none"]

Next ==
    \E h \in Hosts :
        \/ Acquire(h)
        \/ OpenStep(h)
        \/ Serve(h)
        \/ Ticker(h)
        \/ Call(h)
        \/ Down(h)
        \/ Crash(h)

Spec == Init /\ [][Next]_hostVars

\* What the process does by itself: every stage and every tick has a deadline.
Settles(h) ==
    \/ OpenStep(h)
    \/ Serve(h)
    \/ Down(h) /\ stage[h] # "up"
    \/ Ticker(h) /\ (ticker[h] = "ticking" \/ cancelled[h])

(***************************************************************************)
(* Properties                                                              *)
(***************************************************************************)
TypeOK ==
    /\ stage \in [Hosts -> Opening \cup {"closed", "up", "waiting", "observers", "unwind"}]
    /\ config \in [Hosts -> Configurations] /\ deployment \in [Hosts -> Deployments]
    /\ open \in [Hosts -> SUBSET {"state", "store", "ledger", "allocator"}]
    /\ locks \in [Roots -> Hosts \cup {Free}]
    /\ recovered \in [Hosts -> BOOLEAN] /\ cancelled \in [Hosts -> BOOLEAN]
    /\ ticker \in [Hosts -> {"none", "idle", "ticking", "done"}]
    /\ call \in [Hosts -> {"none", "entered", "serving", "committed", "panicked"}]
    /\ crashes \in 0..MaxCrashes

(* A host that has the store or the ledger open holds the lock of its      *)
(* control state, and one with the Android driver the lock of its root,    *)
(* through failed openings and closings alike (OpenHost, Host.Close).      *)
OpenIsOwned ==
    \A h \in Hosts :
        /\ open[h] \cap {"store", "ledger"} # {} => locks[config[h].state] = h
        /\ "allocator" \in open[h] => locks[config[h].androidRoot] = h

(* A host that is closed, or whose opening failed, holds nothing that      *)
(* keeps another one from opening (the deferred closers of openHostOwned). *)
ClosedHoldsNothing ==
    \A h \in Hosts :
        stage[h] = "closed" => open[h] = {} /\ \A r \in Roots : locks[r] # h

(* Neither a tick nor a call runs before both startup reconciliations have *)
(* succeeded (reconcileStartupStateWithin).                                *)
NothingBeforeRecovery ==
    \A h \in Hosts : (call[h] # "none" \/ ticker[h] # "none") => recovered[h]

(* A tick has the store and the ledger under it: Close waits for the       *)
(* ticker before it closes them.                                           *)
TickIsBacked ==
    \A h \in Hosts : ticker[h] = "ticking" => {"store", "ledger"} \subseteq open[h]

(* A host that serves has a driver for exactly the target plans of its     *)
(* profile, and an agent driver when it has any                            *)
(* (configureHostDriversWithFactories).                                    *)
PlansHaveDrivers ==
    \A h \in Hosts :
        (stage[h] = "up" /\ Uses(config[h].agent)) =>
            /\ deployment[h].linux <=> Uses(config[h].linux)
            /\ deployment[h].android <=> "allocator" \in open[h]
            /\ deployment[h].runs => Uses(config[h].linux) \/ Uses(config[h].android)

(* Opening and closing a host come to an end.                              *)
Settled(h) == stage[h] \in {"closed", "up"}

===============================================================================
