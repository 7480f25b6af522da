---------------------------- MODULE DaemonProofs ------------------------------
(***************************************************************************)
(* Proofs about in-process streams (StreamPipe), the policy registry       *)
(* (PolicyRegistry) and the host that opens and closes the daemon          *)
(* (DaemonHost), for any capacity and number of frames, any deployment, any *)
(* number of hosts and any number of crashes.                              *)
(***************************************************************************)
EXTENDS Naturals, Sequences, TLAPS

CONSTANTS
    Shapes, Capacity, StreamFrames,                 \* StreamPipe
    References, Documents, Fingerprints, Supported, \* PolicyRegistry
    Hosts, Configurations, Deployments, HostCrashes \* DaemonHost

VARIABLES shape, cancelled, toServer, sendClosed, serverOpen, toClient, clientOpen,
          serverDone, serverErr, handler, sender, sent, closer, closed, served, heard,
          got, last, panicked,
          policies, references, digests, deployed, fingerprint, position, step,
          returned,
          stage, config, deployment, open, locks, recovered, ticker, stopping, call,
          crashes

Pipe == INSTANCE StreamPipe WITH MaxFrames <- StreamFrames
Registry == INSTANCE PolicyRegistry WITH deployment <- deployed
Host == INSTANCE DaemonHost WITH MaxCrashes <- HostCrashes, cancelled <- stopping

-----------------------------------------------------------------------------
(* The host.                                                               *)

\* What a start is given.
Hosted == Host!Free \notin Hosts /\ Configurations # {} /\ Deployments # {} /\ HostCrashes \in Nat

Base == {"state", "store", "ledger"}
Ready == {"policies", "production", "physical", "leases", "up"}

\* The resources of a stage.
Stages(h) ==
    /\ stage[h] = "closed" => open[h] = {}
    /\ stage[h] = "store" => open[h] = {"state"}
    /\ stage[h] = "ledger" => open[h] = {"state", "store"}
    /\ stage[h] \in {"profile", "drivers", "android"} => open[h] = Base
    /\ stage[h] \in Ready \cup {"waiting", "observers"} => Base \subseteq open[h]
    /\ stage[h] = "unwind" => "state" \in open[h]

\* The locks of a host are those of its resources, one each.
Owns(h) ==
    /\ "state" \in open[h] => locks[config[h].state] = h
    /\ "allocator" \in open[h] =>
          "state" \in open[h] /\ locks[config[h].androidRoot] = h
          /\ config[h].androidRoot # config[h].state
    /\ \A r \in Host!Roots : locks[r] = h =>
          \/ r = config[h].state /\ "state" \in open[h]
          \/ r = config[h].androidRoot /\ "allocator" \in open[h]

\* The ticker lives between Serve and AwaitTicker; recovery comes before both
\* it and the calls.
Runs(h) ==
    /\ ticker[h] \in {"idle", "ticking"} => stage[h] \in {"up", "waiting"}
    /\ (ticker[h] # "none" \/ call[h] # "none" \/ stage[h] \in {"up", "waiting"}) => recovered[h]

\* From the profile on, drivers and plans agree.
Planned(h) ==
    /\ stage[h] \in {"drivers", "android"} => Host!Consistent(config[h], deployment[h])
    /\ stage[h] = "android" => Host!Uses(config[h].android)
    /\ (stage[h] \in Ready /\ Host!Uses(config[h].agent)) =>
          Host!Consistent(config[h], deployment[h]) /\ ("allocator" \in open[h] <=> Host!Uses(config[h].android))

HostOK(h) == Stages(h) /\ Owns(h) /\ Runs(h) /\ Planned(h)

HostInv == Hosted /\ Host!TypeOK /\ \A h \in Hosts : HostOK(h)

\* Hosts start closed, with every lock free.
LEMMA HostInit == Hosted /\ Host!Init => HostInv
  BY DEF Hosted, Host!Init, HostInv, Host!TypeOK, HostOK, Stages, Owns, Runs, Planned,
     Host!NoConfiguration,
         Host!NoDeployment, Ready, Host!Roots

\* What a step of another host leaves of host k.
Elsewhere(k) ==
    /\ stage'[k] = stage[k] /\ config'[k] = config[k] /\ deployment'[k] = deployment[k]
    /\ open'[k] = open[k] /\ recovered'[k] = recovered[k] /\ ticker'[k] = ticker[k]
    /\ call'[k] = call[k]
    /\ \A r \in Host!Roots : locks'[r] = k <=> locks[r] = k

\* A configuration names roots there are locks for.
LEMMA RootsOf ==
    ASSUME Host!TypeOK, NEW h \in Hosts
    PROVE  config[h].state \in Host!Roots /\ config[h].androidRoot \in Host!Roots
  BY DEF Host!TypeOK, Host!Roots

\* A host that a step leaves alone keeps its part of the invariant.
LEMMA HostOthers ==
    ASSUME HostInv, NEW k \in Hosts, Elsewhere(k)
    PROVE  HostOK(k)'
<1>1. HostOK(k) /\ config[k].state \in Host!Roots /\ config[k].androidRoot \in Host!Roots
  BY RootsOf DEF HostInv
<1>2. Stages(k)' /\ Runs(k)' /\ Planned(k)'
  BY <1>1 DEF HostOK, Stages, Runs, Planned, Elsewhere
<1>3. Owns(k)'
  BY <1>1 DEF HostOK, Owns, Elsewhere, Host!Roots
<1> QED
  BY <1>2, <1>3 DEF HostOK

\* Opening, but for the locks it takes.
LEMMA OpeningKeeps ==
    ASSUME HostInv, NEW h \in Hosts, Host!OpenStep(h), ~Host!OpenAndroid(h)
    PROVE  HostInv'
<1> USE DEF Host!Goes, Host!Holds
<1>1. /\ UNCHANGED <<config, deployment, recovered, ticker, stopping, call, crashes, locks>>
      /\ stage' = [stage EXCEPT ![h] = stage'[h]] /\ open' = [open EXCEPT ![h] = open'[h]]
      /\ open[h] \subseteq open'[h] /\ open'[h] \subseteq open[h] \cup {"store", "ledger"}
      /\ \/ stage[h] = "store" /\ open'[h] = open[h] \cup {"store"} /\ stage'[h] = "ledger"
         \/ /\ stage[h] = "ledger" /\ open'[h] = open[h] \cup {"ledger"}
            /\ \/ Host!Uses(config[h].agent) /\ stage'[h] = "profile"
               \/ ~Host!Uses(config[h].agent) /\ stage'[h] = "production"
         \/ /\ open'[h] = open[h]
            /\ \/ stage[h] = "profile" /\ Host!Consistent(config[h], deployment[h]) /\ stage'[h] = "drivers"
               \/ stage[h] = "drivers" /\ Host!Uses(config[h].android) /\ stage'[h] = "android"
               \/ stage[h] = "drivers" /\ ~Host!Uses(config[h].android) /\ stage'[h] = "policies"
               \/ stage[h] = "policies" /\ stage'[h] = "production"
               \/ stage[h] = "production" /\ stage'[h] = "physical"
               \/ stage[h] = "physical" /\ stage'[h] = "leases"
               \/ stage[h] \in Host!Opening /\ stage'[h] = "unwind"
  BY DEF Host!OpenStep, Host!OpenStore, Host!OpenLedger, Host!LoadProfile, Host!ProbeDrivers,
     Host!PublishPolicies, Host!NewProduction,
         Host!ReconcilePhysical, Host!Fail, HostInv, Host!TypeOK
<1> HIDE DEF Host!Goes, Host!Holds
<1>2. Host!TypeOK'
  BY <1>1 DEF HostInv, Host!TypeOK, Host!Opening
<1>3. \A k \in Hosts : k # h => Elsewhere(k)
  BY <1>1 DEF HostInv, Host!TypeOK, Elsewhere
<1>4. Stages(h)'
  BY <1>1 DEF HostInv, HostOK, Stages, Base, Ready, Host!Opening
<1>5. Owns(h)'
  BY <1>1 DEF HostInv, HostOK, Owns
<1>6. Runs(h)'
  BY <1>1 DEF HostInv, HostOK, Runs, Host!Opening
<1>7. Planned(h)'
  <2>1. "allocator" \in open'[h] <=> "allocator" \in open[h]
    BY <1>1
  <2>2. stage[h] \in {"ledger", "drivers"} => "allocator" \notin open[h]
    BY DEF HostInv, HostOK, Stages, Base
  <2> QED
    BY <1>1, <2>1, <2>2 DEF HostInv, HostOK, Planned, Ready
<1> QED
  BY <1>2, <1>3, <1>4, <1>5, <1>6, <1>7, HostOthers DEF HostInv, HostOK, Hosted

\* A lock is taken only when it is free.
LEMMA TakesKeeps ==
    ASSUME HostInv, NEW h \in Hosts, NEW root \in Host!Roots, Host!Takes(h, root)
    PROVE  /\ locks' \in [Host!Roots -> Hosts \cup {Host!Free}] /\ locks'[root] = h /\ locks[root] = Host!Free
           /\ \A r \in Host!Roots : r # root => locks'[r] = locks[r]
           /\ \A k \in Hosts : k # h => \A r \in Host!Roots : locks'[r] = k <=> locks[r] = k
  BY DEF HostInv, Hosted, Host!TypeOK, Host!Takes

\* The allocator is opened under a lock of its own.
LEMMA AndroidKeeps ==
    ASSUME HostInv, NEW h \in Hosts, Host!OpenStep(h), Host!OpenAndroid(h)
    PROVE  HostInv'
<1>1. /\ UNCHANGED <<config, deployment, recovered, ticker, stopping, call, crashes>>
      /\ stage' = [stage EXCEPT ![h] = "policies"] /\ open' = [open EXCEPT ![h] = @ \cup {"allocator"}]
      /\ stage[h] = "android" /\ Host!Takes(h, config[h].androidRoot)
  BY DEF Host!OpenStep, Host!OpenAndroid, Host!Goes, Host!Holds
<1>2. config[h].state \in Host!Roots /\ config[h].androidRoot \in Host!Roots
  BY RootsOf DEF HostInv
<1>3. /\ locks' \in [Host!Roots -> Hosts \cup {Host!Free}] /\ locks'[config[h].androidRoot] = h
      /\ locks[config[h].androidRoot] = Host!Free
      /\ \A r \in Host!Roots : r # config[h].androidRoot => locks'[r] = locks[r]
      /\ \A k \in Hosts : k # h => \A r \in Host!Roots : locks'[r] = k <=> locks[r] = k
  BY <1>1, <1>2, TakesKeeps
<1>4. Host!TypeOK'
  BY <1>1, <1>3, Zenon DEF HostInv, Host!TypeOK, Host!Opening
<1>5. \A k \in Hosts : k # h => Elsewhere(k)
  BY <1>1, <1>3 DEF HostInv, Host!TypeOK, Elsewhere
<1>6. open[h] = Base /\ Host!Consistent(config[h], deployment[h]) /\ Host!Uses(config[h].android)
      /\ stage'[h] = "policies" /\ open'[h] = Base \cup {"allocator"}
  BY <1>1 DEF HostInv, HostOK, Stages, Planned, Host!TypeOK
<1>7. Stages(h)' /\ Planned(h)'
  BY <1>1, <1>6, Zenon DEF Stages, Planned, Base, Ready
<1>8. locks[config[h].state] = h /\ config[h].androidRoot # config[h].state
  BY <1>3, <1>6 DEF HostInv, HostOK, Owns, Base, Hosted
<1>9. Owns(h)'
  BY <1>1, <1>2, <1>3, <1>6, <1>8 DEF HostInv, HostOK, Owns, Base
<1>10. Runs(h)'
  BY <1>1, <1>6, Zenon DEF HostInv, HostOK, Runs
<1> QED
  BY <1>4, <1>5, <1>7, <1>9, <1>10, HostOthers DEF HostInv, HostOK, Hosted

\* Acquiring the state root takes a free lock.
LEMMA AcquireKeeps ==
    ASSUME HostInv, NEW h \in Hosts, Host!Acquire(h)
    PROVE  HostInv'
<1>1. PICK c \in Configurations, d \in Deployments :
        /\ Host!Takes(h, c.state)
        /\ config' = [config EXCEPT ![h] = c] /\ deployment' = [deployment EXCEPT ![h] = d]
  BY Zenon DEF Host!Acquire
<1>2. /\ stage[h] = "closed" /\ call[h] = "none" /\ c.state \in Host!Roots
      /\ stage' = [stage EXCEPT ![h] = "store"] /\ open' = [open EXCEPT ![h] = @ \cup {"state"}]
      /\ recovered' = [recovered EXCEPT ![h] = FALSE] /\ ticker' = [ticker EXCEPT ![h] = "none"]
      /\ stopping' = [stopping EXCEPT ![h] = FALSE] /\ UNCHANGED <<call, crashes>>
  BY DEF Host!Acquire, Host!Goes, Host!Holds, Host!Roots
<1>3. /\ locks' \in [Host!Roots -> Hosts \cup {Host!Free}] /\ locks'[c.state] = h
      /\ \A r \in Host!Roots : r # c.state => locks'[r] = locks[r]
      /\ \A k \in Hosts : k # h => \A r \in Host!Roots : locks'[r] = k <=> locks[r] = k
  BY <1>1, <1>2, TakesKeeps
<1>4. Host!TypeOK'
  BY <1>1, <1>2, <1>3 DEF HostInv, Host!TypeOK, Host!Opening
<1>5. \A k \in Hosts : k # h => Elsewhere(k)
  BY <1>1, <1>2, <1>3 DEF HostInv, Host!TypeOK, Elsewhere
<1>6. /\ stage'[h] = "store" /\ open'[h] = {"state"} /\ config'[h] = c /\ call'[h] = "none"
      /\ ticker'[h] = "none" /\ open[h] = {}
  BY <1>1, <1>2, Zenon DEF HostInv, HostOK, Stages, Host!TypeOK
<1>7. Stages(h)' /\ Planned(h)' /\ Runs(h)'
  BY <1>6 DEF Stages, Planned, Runs, Ready
<1>8. Owns(h)'
  BY <1>3, <1>6 DEF HostInv, HostOK, Owns
<1> QED
  BY <1>4, <1>5, <1>7, <1>8, HostOthers, Zenon DEF HostInv, HostOK, Hosted

\* The steps that take and release nothing.
LEMMA HostRunningKeeps ==
    ASSUME HostInv, NEW h \in Hosts,
           Host!Serve(h) \/ Host!Ticker(h) \/ Host!Call(h) \/ Host!Close(h) \/ Host!AwaitTicker(h) \/ Host!CloseObservers(h)
    PROVE  HostInv'
<1> USE DEF Host!Goes
<1>1. /\ UNCHANGED <<config, deployment, open, locks, crashes>>
      /\ stage' = [stage EXCEPT ![h] = stage'[h]] /\ recovered' = [recovered EXCEPT ![h] = recovered'[h]]
      /\ ticker' = [ticker EXCEPT ![h] = ticker'[h]] /\ call' = [call EXCEPT ![h] = call'[h]]
      /\ stopping' = [stopping EXCEPT ![h] = stopping'[h]] /\ stopping'[h] \in BOOLEAN
  BY Zenon DEF Host!Serve, Host!Ticker, Host!Tick, Host!TickEnds, Host!TickerStops, Host!Call,
     Host!RequireOpen, Host!Dispatch, Host!Commit, Host!Return, Host!Close,
         Host!AwaitTicker, Host!CloseObservers, HostInv, Host!TypeOK
<1>2. \/ /\ stage[h] = "leases" /\ stage'[h] = "up" /\ recovered'[h] = TRUE /\ ticker'[h] = "idle"
         /\ call'[h] = call[h]
      \/ /\ stage'[h] = stage[h] /\ recovered'[h] = recovered[h] /\ call'[h] = call[h]
         /\ ticker[h] \in {"idle", "ticking"} /\ ticker'[h] \in {"idle", "ticking", "done"}
      \/ /\ stage'[h] = stage[h] /\ recovered'[h] = recovered[h] /\ ticker'[h] = ticker[h]
         /\ call'[h] \in {"none", "entered", "serving", "committed", "panicked"}
         /\ stage[h] = "up" \/ call[h] # "none"
      \/ /\ recovered'[h] = recovered[h] /\ call'[h] = call[h] /\ ticker'[h] = ticker[h]
         /\ \/ stage[h] = "up" /\ stage'[h] = "waiting"
            \/ stage[h] = "waiting" /\ ticker[h] = "done" /\ stage'[h] = "observers"
            \/ stage[h] = "observers" /\ stage'[h] = "unwind"
  <2>1. CASE Host!Serve(h)
    BY <2>1 DEF Host!Serve, HostInv, Host!TypeOK
  <2>2. CASE Host!Ticker(h)
    BY <2>2 DEF Host!Ticker, Host!Tick, Host!TickEnds, Host!TickerStops, HostInv, Host!TypeOK
  <2>3. CASE Host!Call(h)
    BY <2>3 DEF Host!Call, Host!RequireOpen, Host!Dispatch, Host!Commit, Host!Return, HostInv,
       Host!TypeOK
  <2>4. CASE Host!Close(h) \/ Host!AwaitTicker(h) \/ Host!CloseObservers(h)
    BY <2>4 DEF Host!Close, Host!AwaitTicker, Host!CloseObservers, HostInv, Host!TypeOK
  <2> QED
    BY <2>1, <2>2, <2>3, <2>4, Zenon
<1> HIDE DEF Host!Goes
<1>3. Host!TypeOK'
  <2>1. stage' \in [Hosts -> Host!Opening \cup {"closed", "up", "waiting", "observers", "unwind"}]
    BY <1>1, <1>2 DEF HostInv, Host!TypeOK
  <2>2. ticker' \in [Hosts -> {"none", "idle", "ticking", "done"}]
    BY <1>1, <1>2 DEF HostInv, Host!TypeOK
  <2>3. call' \in [Hosts -> {"none", "entered", "serving", "committed", "panicked"}]
    BY <1>1, <1>2 DEF HostInv, Host!TypeOK
  <2>4. recovered'[h] \in BOOLEAN
    BY <1>2, Zenon DEF HostInv, Host!TypeOK
  <2> QED
    BY <1>1, <2>1, <2>2, <2>3, <2>4 DEF HostInv, Host!TypeOK
<1>4. \A k \in Hosts : k # h => Elsewhere(k)
  BY <1>1 DEF HostInv, Host!TypeOK, Elsewhere
<1>5. Stages(h)'
  BY <1>1, <1>2 DEF HostInv, HostOK, Stages, Ready, Base
<1>6. Owns(h)'
  BY <1>1, Zenon DEF HostInv, HostOK, Owns
<1>7. Runs(h)'
  BY <1>2, Zenon DEF HostInv, HostOK, Runs
<1>8. Planned(h)'
  BY <1>1, <1>2, Zenon DEF HostInv, HostOK, Planned, Ready
<1> QED
  BY <1>3, <1>4, <1>5, <1>6, <1>7, <1>8, HostOthers DEF HostInv, HostOK, Hosted

\* Unwinding closes one resource and releases its lock with it.
LEMMA UnwindKeeps ==
    ASSUME HostInv, NEW h \in Hosts, Host!Unwind(h)
    PROVE  HostInv'
<1> DEFINE r == Host!NextReleased(open[h])
<1>1. /\ stage[h] = "unwind" /\ open' = [open EXCEPT ![h] = @ \ {r}] /\ locks' = Host!Released(h, r)
      /\ IF r = "state" THEN Host!Goes(h, "closed") /\ Host!Forgotten(h)
                        ELSE Host!Goes(h, "unwind") /\ UNCHANGED <<config, deployment>>
      /\ UNCHANGED <<recovered, ticker, stopping, call, crashes>>
  BY DEF Host!Unwind
<1>2. \/ r = "allocator" /\ "allocator" \in open[h]
      \/ r \in {"ledger", "store"} /\ "allocator" \notin open[h]
      \/ r = "state" /\ open[h] \subseteq {"state"}
  <2>1. open[h] \subseteq {"state", "store", "ledger", "allocator"}
    BY DEF HostInv, Host!TypeOK
  <2>2. CASE "allocator" \in open[h]
    BY <2>2 DEF Host!NextReleased
  <2>3. CASE "allocator" \notin open[h] /\ "ledger" \in open[h]
    BY <2>3 DEF Host!NextReleased
  <2>4. CASE "allocator" \notin open[h] /\ "ledger" \notin open[h] /\ "store" \in open[h]
    BY <2>4 DEF Host!NextReleased
  <2>5. CASE "allocator" \notin open[h] /\ "ledger" \notin open[h] /\ "store" \notin open[h]
    <3>1. open[h] \subseteq {"state"}
      BY <2>1, <2>5, Zenon
    <3> QED
      BY <2>5, <3>1, Zenon DEF Host!NextReleased
  <2> QED
    BY <2>2, <2>3, <2>4, <2>5
<1> HIDE DEF r
<1>3. /\ HostOK(h) /\ "state" \in open[h] /\ ticker[h] \notin {"idle", "ticking"}
      /\ config[h].state \in Host!Roots /\ config[h].androidRoot \in Host!Roots /\ h # Host!Free
  BY <1>1, RootsOf, Zenon DEF HostInv, HostOK, Stages, Runs, Hosted
<1>4. /\ locks[config[h].state] = h
      /\ "allocator" \in open[h] => locks[config[h].androidRoot] = h /\ config[h].androidRoot # config[h].state
  BY <1>3, Zenon DEF HostOK, Owns
<1>5. /\ locks' \in [Host!Roots -> Hosts \cup {Host!Free}]
      /\ \A k \in Hosts : k # h => \A q \in Host!Roots : locks'[q] = k <=> locks[q] = k
  <2>1. CASE r = "allocator"
    BY <1>1, <1>2, <1>3, <1>4, <2>1 DEF Host!Released, HostInv, Host!TypeOK, Hosted
  <2>2. CASE r = "state"
    BY <1>1, <1>3, <1>4, <2>2, Zenon DEF Host!Released, HostInv, Host!TypeOK, Hosted
  <2>3. CASE r \in {"ledger", "store"}
    BY <1>1, <2>3, Zenon DEF Host!Released, HostInv, Host!TypeOK
  <2> QED
    BY <1>2, <2>1, <2>2, <2>3
<1>6. /\ config' \in [Hosts -> Configurations] /\ deployment' \in [Hosts -> Deployments]
      /\ stage' = [stage EXCEPT ![h] = IF r = "state" THEN "closed" ELSE "unwind"]
      /\ \A k \in Hosts : k # h => config'[k] = config[k] /\ deployment'[k] = deployment[k]
      /\ r # "state" => config' = config
  BY <1>1 DEF Host!Goes, Host!Forgotten, HostInv, Host!TypeOK, Hosted, Host!NoConfiguration,
     Host!NoDeployment
<1>7. Host!TypeOK'
  BY <1>1, <1>5, <1>6 DEF HostInv, Host!TypeOK, Host!Opening
<1>8. \A k \in Hosts : k # h => Elsewhere(k)
  BY <1>1, <1>5, <1>6 DEF HostInv, Host!TypeOK, Elsewhere
<1>9. /\ open'[h] = open[h] \ {r}
      /\ \/ r = "state" /\ stage'[h] = "closed" /\ open'[h] = {}
         \/ r # "state" /\ stage'[h] = "unwind" /\ "state" \in open'[h]
  BY <1>1, <1>2, <1>3, <1>6, Zenon DEF HostInv, Host!TypeOK
<1>10. Stages(h)' /\ Planned(h)'
  BY <1>9 DEF Stages, Planned, Ready
<1>11. Runs(h)'
  BY <1>1, <1>3, <1>9, Zenon DEF HostOK, Runs
<1>12. Owns(h)'
  <2>1. CASE r = "state"
    <3>1. \A q \in Host!Roots : locks'[q] # h
      BY <1>1, <1>2, <1>3, <2>1 DEF Host!Released, HostOK, Owns, HostInv, Host!TypeOK
    <3> QED
      BY <1>9, <2>1, <3>1, Zenon DEF Owns, Host!Roots
  <2>2. CASE r = "allocator"
    <3>1. /\ locks'[config[h].androidRoot] = Host!Free
          /\ \A q \in Host!Roots : q # config[h].androidRoot => locks'[q] = locks[q]
      BY <1>1, <1>3, <2>2, Zenon DEF Host!Released, HostInv, Host!TypeOK
    <3>2. config'[h] = config[h] /\ "allocator" \notin open'[h]
      BY <1>6, <1>9, <2>2
    <3> QED
      BY <1>2, <1>3, <1>4, <1>9, <2>2, <3>1, <3>2, Zenon DEF HostOK, Owns, Host!Roots
  <2>3. CASE r \in {"ledger", "store"}
    BY <1>1, <1>2, <1>3, <1>6, <1>9, <2>3, Zenon DEF Host!Released, HostOK, Owns, Host!Roots
  <2> QED
    BY <1>2, <2>1, <2>2, <2>3, Zenon
<1> QED
  BY <1>7, <1>8, <1>10, <1>11, <1>12, HostOthers, Zenon DEF HostInv, HostOK, Hosted

\* A crash releases the locks of the process with everything it had open.
LEMMA HostCrashKeeps ==
    ASSUME HostInv, NEW h \in Hosts, Host!Crash(h)
    PROVE  HostInv'
<1>1. /\ stage' = [stage EXCEPT ![h] = "closed"] /\ open' = [open EXCEPT ![h] = {}]
      /\ config' = [config EXCEPT ![h] = Host!NoConfiguration]
      /\ deployment' = [deployment EXCEPT ![h] = Host!NoDeployment]
      /\ locks' = [r \in Host!Roots |-> IF locks[r] = h THEN Host!Free ELSE locks[r]]
      /\ recovered' = [recovered EXCEPT ![h] = FALSE] /\ ticker' = [ticker EXCEPT ![h] = "none"]
      /\ stopping' = [stopping EXCEPT ![h] = FALSE] /\ call' = [call EXCEPT ![h] = "none"]
      /\ crashes' = crashes + 1 /\ crashes < HostCrashes
  BY DEF Host!Crash, Host!Goes, Host!Forgotten
<1>2. Host!TypeOK'
  BY <1>1 DEF HostInv, Host!TypeOK, Hosted, Host!NoConfiguration, Host!NoDeployment, Host!Opening
<1>3. \A k \in Hosts : k # h => Elsewhere(k)
  BY <1>1 DEF HostInv, Host!TypeOK, Elsewhere, Hosted
<1>4. /\ stage'[h] = "closed" /\ open'[h] = {} /\ ticker'[h] = "none" /\ call'[h] = "none"
      /\ \A r \in Host!Roots : locks'[r] # h
  BY <1>1, Zenon DEF HostInv, Host!TypeOK, Hosted
<1>5. HostOK(h)'
  BY <1>4 DEF HostOK, Stages, Owns, Runs, Planned, Ready, Host!Roots
<1> QED
  BY <1>2, <1>3, <1>5, HostOthers, Zenon DEF HostInv, Hosted

\* Every step of a host keeps the invariant of all of them.
LEMMA HostStepKeeps ==
    ASSUME HostInv, [Host!Next]_(Host!hostVars)
    PROVE  HostInv'
<1>1. CASE Host!Next
  BY <1>1, OpeningKeeps, AndroidKeeps, AcquireKeeps, HostRunningKeeps, UnwindKeeps, HostCrashKeeps,
     Zenon DEF Host!Next, Host!Down
<1>2. CASE UNCHANGED Host!hostVars
  BY <1>2 DEF Host!hostVars, HostInv, Hosted, Host!TypeOK, HostOK, Stages, Owns, Runs, Planned
<1> QED
  BY <1>1, <1>2

\* The invariant implies the properties.
LEMMA HostImplies ==
    HostInv => /\ Host!TypeOK /\ Host!OpenIsOwned /\ Host!ClosedHoldsNothing /\ Host!NothingBeforeRecovery
               /\ Host!TickIsBacked /\ Host!PlansHaveDrivers
<1> SUFFICES ASSUME HostInv PROVE /\ Host!OpenIsOwned /\ Host!ClosedHoldsNothing /\ Host!NothingBeforeRecovery
                                  /\ Host!TickIsBacked /\ Host!PlansHaveDrivers
  BY Zenon DEF HostInv
<1>1. Host!OpenIsOwned
  BY Zenon DEF Host!OpenIsOwned, HostInv, HostOK, Owns, Stages, Host!TypeOK, Host!Opening, Ready,
     Base
<1>2. Host!ClosedHoldsNothing
  BY Zenon DEF Host!ClosedHoldsNothing, HostInv, HostOK, Owns, Stages
<1>3. Host!NothingBeforeRecovery
  BY Zenon DEF Host!NothingBeforeRecovery, HostInv, HostOK, Runs
<1>4. Host!TickIsBacked
  BY Zenon DEF Host!TickIsBacked, HostInv, HostOK, Runs, Stages, Ready, Base
<1>5. Host!PlansHaveDrivers
  BY DEF Host!PlansHaveDrivers, HostInv, HostOK, Planned, Host!Consistent, Ready
<1> QED
  BY <1>1, <1>2, <1>3, <1>4, <1>5, Zenon

(* Whatever hosts contend, whatever stage fails and wherever the process   *)
(* dies: what is open is locked by its host, a closed host holds nothing,  *)
(* nothing runs before both recoveries, a tick has its stores under it and *)
(* a host that serves has the drivers of its profile.                      *)
THEOREM HostInvariant ==
    ASSUME Hosted
    PROVE  Host!Spec => [](/\ Host!TypeOK /\ Host!OpenIsOwned /\ Host!ClosedHoldsNothing /\ Host!NothingBeforeRecovery
                           /\ Host!TickIsBacked /\ Host!PlansHaveDrivers)
  BY HostInit, HostStepKeeps, HostImplies, PTL DEF Host!Spec

-----------------------------------------------------------------------------
(* The policy registry.                                                    *)

\* What the deployment gives: at least one reference, none of them absent.
Published ==
    /\ References \in Seq(Registry!Names) /\ References # <<>>
    /\ Registry!NoPublication \notin Registry!Publications

\* The publication of the i-th reference by this start.
Nth(i) == [reference |-> References[i], document |-> deployed[References[i]],
           fingerprint |-> fingerprint]

\* An index entry is of its key, and the writes come in their order: content,
\* reference, digest.
StoreOrder ==
    /\ \A r \in Registry!Names : references[r] # Registry!NoPublication =>
          references[r].reference = r /\ Registry!PolicyDigest(references[r]) \in policies
    /\ \A d \in Registry!Bindings : digests[d] # Registry!NoPublication =>
          Registry!DigestBinding(digests[d]) = d /\ references[digests[d].reference] = digests[d]
    /\ \A p \in returned : digests[Registry!DigestBinding(p)] = p /\ references[p.reference] = p

\* How far this start has come.
Progress ==
    /\ step \in {"reference", "digest"} => Registry!PolicyDigest(Registry!Current) \in policies
    /\ step = "digest" => references[Registry!Current.reference] = Registry!Current
    /\ step \in {"policy", "reference", "digest"} => \A i \in 1..(position - 1) : Nth(i) \in returned
    /\ step = "up" => \A i \in 1..Len(References) : Nth(i) \in returned

RegistryInv == Published /\ Registry!TypeOK /\ StoreOrder /\ Progress

\* The names of a deployment are those it lists.
LEMMA NamesAreListed ==
    ASSUME Published
    PROVE  /\ \A i \in 1..Len(References) : References[i] \in Registry!Names
           /\ \A r \in Registry!Names : \E i \in 1..Len(References) : References[i] = r
           /\ Len(References) \in Nat \ {0}
  BY DEF Published, Registry!Names

\* The publication a start has come to.
LEMMA CurrentPublication ==
    ASSUME RegistryInv
    PROVE  /\ Registry!Current \in Registry!Publications /\ Registry!Current # Registry!NoPublication
           /\ Registry!Current.reference \in Registry!Names /\ Registry!Current = Nth(position)
           /\ Registry!DigestBinding(Registry!Current) \in Registry!Bindings
<1>1. References[position] \in Registry!Names
  BY NamesAreListed DEF RegistryInv, Registry!TypeOK
<1>2. Registry!Current \in Registry!Publications /\ Registry!Current.reference \in Registry!Names
  BY <1>1, Zenon DEF Registry!Current, Registry!Publications, RegistryInv, Registry!TypeOK
<1>3. Registry!Current = Nth(position)
  BY DEF Registry!Current, Nth
<1> QED
  BY <1>2, <1>3 DEF RegistryInv, Published, Registry!Bindings

\* An empty registry satisfies the invariant.
LEMMA RegistryInit ==
    ASSUME Published, Registry!Init
    PROVE  RegistryInv
  BY NamesAreListed DEF Registry!Init, RegistryInv, Registry!TypeOK, StoreOrder, Progress

\* Every step of a start, and a start over another deployment, keep the invariant.
LEMMA RegistryStepKeeps ==
    ASSUME RegistryInv, [Registry!Next]_(Registry!registryVars)
    PROVE  RegistryInv'
<1> DEFINE c == Registry!Current
<1>0. /\ c \in Registry!Publications /\ c # Registry!NoPublication /\ c.reference \in Registry!Names /\ c = Nth(position)
      /\ Registry!DigestBinding(c) \in Registry!Bindings
  BY CurrentPublication
<1>1. CASE Registry!Compile
  <2>1. Registry!TypeOK'
    BY <1>1, NamesAreListed DEF RegistryInv, Registry!TypeOK, Registry!Compile, Registry!storeVars
  <2>2. StoreOrder'
    BY <1>1, Zenon DEF RegistryInv, StoreOrder, Registry!Compile, Registry!storeVars
  <2>3. Progress'
    BY <1>1 DEF Progress, Registry!Compile
  <2> QED
    BY <2>1, <2>2, <2>3, Zenon DEF RegistryInv, Published
<1>2. CASE Registry!PutPolicy
  <2>1. Registry!TypeOK'
    BY <1>0, <1>2 DEF RegistryInv, Registry!TypeOK, Registry!PutPolicy
  <2>2. StoreOrder'
    BY <1>2, Zenon DEF RegistryInv, StoreOrder, Registry!PutPolicy
  <2>3. Progress'
    BY <1>2 DEF RegistryInv, Progress, Registry!PutPolicy, Nth, Registry!Current
  <2> QED
    BY <2>1, <2>2, <2>3 DEF RegistryInv, Published
<1>3. CASE Registry!PutReference
  <2> HIDE DEF c
  <2>1. /\ references' = [references EXCEPT ![c.reference] = c]
        /\ references[c.reference] \in {Registry!NoPublication, c}
        /\ step = "reference" /\ step' = "digest"
        /\ UNCHANGED <<policies, digests, deployed, fingerprint, position, returned>>
    BY <1>3, Zenon DEF Registry!PutReference, Registry!Puttable, c
  <2>2. Registry!Current' = c
    BY <2>1 DEF Registry!Current, c
  <2>3. Registry!TypeOK'
    BY <1>0, <2>1, Zenon DEF RegistryInv, Registry!TypeOK
  <2>4. /\ references'[c.reference] = c
        /\ \A r \in Registry!Names : r # c.reference => references'[r] = references[r]
    BY <1>0, <2>1 DEF RegistryInv, Registry!TypeOK
  <2>5. Registry!PolicyDigest(c) \in policies
    BY <2>1 DEF RegistryInv, Progress, c
  <2>6. \A r \in Registry!Names : references'[r] # Registry!NoPublication =>
          references'[r].reference = r /\ Registry!PolicyDigest(references'[r]) \in policies'
    BY <2>1, <2>4, <2>5 DEF RegistryInv, StoreOrder
  <2>7. \A d \in Registry!Bindings : digests[d] # Registry!NoPublication => digests[d].reference \in Registry!Names
    BY Zenon DEF RegistryInv, Registry!TypeOK, Registry!Publications
  <2>8. \A d \in Registry!Bindings : digests'[d] # Registry!NoPublication =>
          Registry!DigestBinding(digests'[d]) = d /\ references'[digests'[d].reference] = digests'[d]
    BY <2>1, <2>4, <2>7 DEF RegistryInv, StoreOrder
  <2>9. \A p \in returned : p.reference \in Registry!Names /\ p # Registry!NoPublication
    BY Zenon DEF RegistryInv, Registry!TypeOK, Registry!Publications, Published
  <2>10. \A p \in returned' : digests'[Registry!DigestBinding(p)] = p /\ references'[p.reference] = p
    BY <2>1, <2>4, <2>9 DEF RegistryInv, StoreOrder
  <2>11. StoreOrder'
    BY <2>6, <2>8, <2>10, Zenon DEF StoreOrder
  <2>12. Progress'
    BY <1>0, <2>1, <2>2, <2>4, <2>5, Zenon DEF RegistryInv, Progress, Nth
  <2> QED
    BY <2>3, <2>11, <2>12 DEF RegistryInv, Published
<1>4. CASE Registry!PutDigest
  <2> HIDE DEF c
  <2>1. /\ digests' = [digests EXCEPT ![Registry!DigestBinding(c)] = c]
        /\ digests[Registry!DigestBinding(c)] \in {Registry!NoPublication, c}
        /\ returned' = returned \cup {c} /\ step = "digest"
        /\ UNCHANGED <<policies, references, deployed, fingerprint>>
        /\ \/ position < Len(References) /\ position' = position + 1 /\ step' = "policy"
           \/ position >= Len(References) /\ step' = "up" /\ position' = position
    BY <1>4, NamesAreListed DEF Registry!PutDigest, Registry!Puttable, c, RegistryInv,
       Registry!TypeOK
  <2>2. references[c.reference] = c
    BY <2>1, Zenon DEF RegistryInv, Progress, c
  <2>3. Registry!TypeOK'
    BY <1>0, <2>1, NamesAreListed DEF RegistryInv, Registry!TypeOK
  <2>4. /\ digests'[Registry!DigestBinding(c)] = c
        /\ \A d \in Registry!Bindings : d # Registry!DigestBinding(c) => digests'[d] = digests[d]
    BY <1>0, <2>1, Zenon DEF RegistryInv, Registry!TypeOK
  <2>5. \A d \in Registry!Bindings : digests'[d] # Registry!NoPublication =>
          Registry!DigestBinding(digests'[d]) = d /\ references'[digests'[d].reference] = digests'[d]
    BY <2>1, <2>2, <2>4, Zenon DEF RegistryInv, StoreOrder
  <2>6. \A p \in returned : Registry!DigestBinding(p) \in Registry!Bindings /\ p # Registry!NoPublication
    BY Zenon DEF RegistryInv, Registry!TypeOK, Registry!Bindings, Published
  <2>7. \A p \in returned' : digests'[Registry!DigestBinding(p)] = p /\ references'[p.reference] = p
    BY <2>1, <2>2, <2>4, <2>6 DEF RegistryInv, StoreOrder
  <2>8. StoreOrder'
    BY <2>1, <2>5, <2>7 DEF RegistryInv, StoreOrder
  <2>9. \A i \in 1..position : Nth(i)' \in returned'
    BY <1>0, <2>1 DEF RegistryInv, Progress, Nth, Registry!TypeOK
  <2>10. Progress'
    BY <2>1, <2>9, NamesAreListed DEF Progress, RegistryInv, Registry!TypeOK
  <2> QED
    BY <2>3, <2>8, <2>10 DEF RegistryInv, Published
<1>5. CASE Registry!Stop \/ UNCHANGED Registry!registryVars
  BY <1>5 DEF Registry!Stop, Registry!registryVars, Registry!storeVars, RegistryInv, Published,
     Registry!TypeOK, StoreOrder, Progress, Nth, Registry!Current
<1> QED
  BY <1>1, <1>2, <1>3, <1>4, <1>5 DEF Registry!Next

\* The invariant implies the properties.
LEMMA RegistryImplies ==
    RegistryInv => /\ Registry!TypeOK /\ Registry!ReturnedResolves
                   /\ Registry!IndexesAgree /\ Registry!UpIsPublished
<1> SUFFICES ASSUME RegistryInv PROVE Registry!ReturnedResolves /\ Registry!IndexesAgree /\ Registry!UpIsPublished
  BY DEF RegistryInv
<1>1. ASSUME NEW p \in returned
      PROVE  Registry!Resolve(p.reference) = p /\ Registry!ResolveDigest(Registry!DigestBinding(p)) = p
  <2>1. p \in Registry!Publications /\ p # Registry!NoPublication /\ p.reference \in Registry!Names
    BY DEF RegistryInv, Registry!TypeOK, Published, Registry!Publications
  <2>2. digests[Registry!DigestBinding(p)] = p /\ references[p.reference] = p /\ Registry!PolicyDigest(p) \in policies
    BY <2>1 DEF RegistryInv, StoreOrder
  <2> QED
    BY <2>1, <2>2, Zenon DEF Registry!Resolve, Registry!ResolveDigest, Registry!ResolvePublication
<1>2. Registry!IndexesAgree
  <2>1. ASSUME NEW r \in Registry!Names, Registry!Resolve(r) # Registry!NoPublication
        PROVE  Registry!ResolveDigest(Registry!DigestBinding(Registry!Resolve(r))) = Registry!Resolve(r)
    <3>1. references[r].reference = r /\ Registry!Resolve(r) = references[r]
          /\ digests[Registry!DigestBinding(references[r])] = references[r]
      BY <2>1, Zenon DEF Registry!Resolve, Registry!ResolvePublication, RegistryInv, StoreOrder
    <3> QED
      BY <2>1, <3>1, Zenon DEF Registry!Resolve, Registry!ResolveDigest, Registry!ResolvePublication
  <2>2. ASSUME NEW d \in Registry!Bindings, Registry!ResolveDigest(d) # Registry!NoPublication
        PROVE  Registry!Resolve(Registry!ResolveDigest(d).reference) = Registry!ResolveDigest(d)
    <3>1. /\ Registry!DigestBinding(digests[d]) = d /\ Registry!ResolveDigest(d) = digests[d]
          /\ references[digests[d].reference] = digests[d]
      BY <2>2, Zenon DEF Registry!ResolveDigest, Registry!ResolvePublication, RegistryInv,
         StoreOrder
    <3> QED
      BY <2>2, <3>1, Zenon DEF Registry!Resolve, Registry!ResolveDigest, Registry!ResolvePublication
  <2> QED
    BY <2>1, <2>2, Zenon DEF Registry!IndexesAgree
<1>3. ASSUME step = "up", NEW r \in Registry!Names
      PROVE  Registry!Resolve(r) = [reference |-> r, document |-> deployed[r], fingerprint |-> fingerprint]
  <2>1. PICK i \in 1..Len(References) : References[i] = r
    BY NamesAreListed DEF RegistryInv
  <2>2. Nth(i) \in returned
    BY <1>3 DEF RegistryInv, Progress
  <2> QED
    BY <1>1, <2>1, <2>2 DEF Nth
<1> QED
  BY <1>1, <1>2, <1>3, Zenon DEF Registry!ReturnedResolves, Registry!UpIsPublished

(* Whatever starts were cut short and with whatever documents and          *)
(* fingerprints they came, a publication that was reported resolves by its *)
(* reference and by its digests at every later start, the two indexes      *)
(* agree, and a daemon that is up has published its whole deployment.      *)
THEOREM RegistryInvariant ==
    ASSUME Published
    PROVE  Registry!Spec => [](/\ Registry!TypeOK /\ Registry!ReturnedResolves
                               /\ Registry!IndexesAgree /\ Registry!UpIsPublished)
  BY RegistryInit, RegistryStepKeeps, RegistryImplies, PTL DEF Registry!Spec

-----------------------------------------------------------------------------
(* In-process streams.                                                     *)

\* The frames from n + 1 on.
Follows(s, n) == \A i \in 1..Len(s) : s[i] = n + i

PipeTypes ==
    /\ Pipe!TypeOK
    /\ Capacity \in Nat /\ StreamFrames \in Nat
    /\ got \in Seq(Nat) /\ heard \in Nat
    /\ cancelled \in BOOLEAN /\ sendClosed \in BOOLEAN /\ serverOpen \in BOOLEAN
    /\ clientOpen \in BOOLEAN /\ serverDone \in BOOLEAN /\ closed \in BOOLEAN
    /\ panicked \in BOOLEAN

\* What the client has and what waits for it are the handler's frames, one
\* after the other; likewise in the other direction.
ToClient == Follows(got, 0) /\ Follows(toClient, Len(got)) /\ Len(got) + Len(toClient) = served
ToServer == Follows(toServer, heard) /\ heard + Len(toServer) = sent

\* The end that the client is told comes after the handler's last frame, and
\* the client's direction is only closed by a closing flag.
Over == {"closeClient", "closeDone", "cancel", "finished"}
Flags ==
    /\ ~clientOpen => handler \in Over \ {"closeClient"}
    /\ serverErr # "nil" => handler \in Over
    /\ last \in {"eof", "error"} => toClient = <<>> /\ handler \in Over
    /\ ~serverOpen => sendClosed /\ Pipe!Bidi
    /\ sender = "sending" => sent < StreamFrames
    /\ Pipe!PanicIsOfClosing

PipeInv == PipeTypes /\ ToClient /\ ToServer /\ Flags

\* Frames received and frames under way are the frames sent.
LEMMA Counted ==
    ASSUME NEW n \in Nat, NEW s \in Seq(Nat), Follows(s, n)
    PROVE  [i \in 1..n |-> i] \o s = [i \in 1..(n + Len(s)) |-> i]
<1> DEFINE f == [i \in 1..n |-> i]
           g == [i \in 1..(n + Len(s)) |-> i]
<1>1. f \in Seq(Nat) /\ Len(f) = n
  OBVIOUS
<1>2. g \in Seq(Nat) /\ Len(g) = n + Len(s)
  OBVIOUS
<1>3. f \o s \in Seq(Nat) /\ Len(f \o s) = n + Len(s)
  BY <1>1
<1>4. ASSUME NEW i \in 1..(n + Len(s)) PROVE (f \o s)[i] = g[i]
  BY <1>1 DEF Follows
<1> QED
  BY <1>2, <1>3, <1>4

\* A frame is added at the end, or taken from the front.
LEMMA Appended ==
    ASSUME NEW n \in Nat, NEW s \in Seq(Nat), Follows(s, n)
    PROVE  Follows(Append(s, n + Len(s) + 1), n) /\ Len(Append(s, n + Len(s) + 1)) = Len(s) + 1
  BY DEF Follows

\* The next frame received is the next one sent.
LEMMA Taken ==
    ASSUME NEW n \in Nat, NEW s \in Seq(Nat), Follows(s, n), s # <<>>
    PROVE  /\ Head(s) = n + 1 /\ Len(Tail(s)) = Len(s) - 1
           /\ Follows(Tail(s), n + 1)
  BY DEF Follows

\* A stream starts with both directions open and nothing under way.
LEMMA PipeInit ==
    ASSUME Capacity \in Nat, StreamFrames \in Nat, Pipe!Init
    PROVE  PipeInv
<1>1. PipeTypes
  <2>1. <<>> \in Seq(1..StreamFrames) /\ Len(<<>>) = 0 /\ <<>> \in Seq(Nat) /\ 0 \in 0..StreamFrames
    OBVIOUS
  <2>2. Pipe!TypeOK
    BY <2>1 DEF Pipe!Init, Pipe!TypeOK
  <2> QED
    BY <2>1, <2>2, Zenon DEF Pipe!Init, PipeTypes
<1>2. ToClient /\ ToServer /\ Flags
  BY DEF Pipe!Init, ToClient, ToServer, Flags, Follows, Pipe!PanicIsOfClosing
<1> QED
  BY <1>1, <1>2 DEF PipeInv

\* A client sends into the channel to the server.
LEMMA SendKeeps ==
    ASSUME PipeInv, ~panicked, Pipe!SendNext
    PROVE  PipeInv'
<1>1. /\ UNCHANGED <<shape, cancelled, sendClosed, serverOpen, toClient, clientOpen, serverDone,
                    serverErr, handler, served, heard, closer, closed, got, last>>
      /\ sender' \in {"idle", "sending"}
  BY Zenon DEF Pipe!SendNext, Pipe!SendBegins, Pipe!SendEnds
<1>2. CASE UNCHANGED <<sent, toServer>>
  <2>1. panicked' => sendClosed
    BY <1>2, Zenon DEF Pipe!SendNext, Pipe!SendBegins, Pipe!SendEnds, PipeInv, Flags
  <2>2. panicked' \in BOOLEAN
    BY Zenon DEF Pipe!SendNext, Pipe!SendBegins, Pipe!SendEnds, PipeInv, PipeTypes
  <2>3. sender' = "sending" => sent < StreamFrames
    BY DEF Pipe!SendNext, Pipe!SendBegins, Pipe!SendEnds
  <2>4. PipeTypes'
    BY <1>1, <1>2, <2>2 DEF PipeInv, PipeTypes, Pipe!TypeOK
  <2>5. Flags'
    BY <1>1, <1>2, <2>1, <2>3, Zenon DEF PipeInv, Flags, Pipe!PanicIsOfClosing, Pipe!Bidi
  <2> QED
    BY <1>1, <1>2, <2>4, <2>5, Zenon DEF PipeInv, ToClient, ToServer, Follows
<1>3. CASE /\ serverOpen /\ Len(toServer) < Capacity
           /\ sent' = sent + 1 /\ toServer' = Append(toServer, sent + 1)
           /\ UNCHANGED panicked
  <2>1. sent < StreamFrames
    BY <1>3, Zenon DEF Pipe!SendNext, Pipe!SendBegins, Pipe!SendEnds, PipeInv, PipeTypes,
       Pipe!TypeOK, Flags
  <2>2. PipeTypes'
    BY <1>1, <1>3, <2>1 DEF PipeInv, PipeTypes, Pipe!TypeOK
  <2>3. ToServer'
    <3>1. toServer \in Seq(Nat) /\ heard \in Nat /\ sent = heard + Len(toServer) /\ Follows(toServer, heard)
      BY DEF PipeInv, PipeTypes, Pipe!TypeOK, ToServer
    <3>2. Follows(toServer', heard) /\ Len(toServer') = Len(toServer) + 1
      BY <1>3, <3>1, Appended
    <3> QED
      BY <1>1, <1>3, <3>1, <3>2 DEF ToServer, Follows
  <2>4. sender' = "idle"
    BY <1>3 DEF Pipe!SendNext, Pipe!SendBegins, Pipe!SendEnds, PipeInv, PipeTypes, Pipe!TypeOK
  <2>5. Flags'
    BY <1>1, <1>3, <2>4, Zenon DEF PipeInv, Flags, Pipe!PanicIsOfClosing, Pipe!Bidi
  <2> QED
    BY <1>1, <2>2, <2>3, <2>5, Zenon DEF PipeInv, ToClient, Follows
<1> QED
  BY <1>2, <1>3 DEF Pipe!SendNext, Pipe!SendBegins, Pipe!SendEnds

\* A client receives from the channel from the server, or the end of it.
LEMMA RecvKeeps ==
    ASSUME PipeInv, Pipe!RecvNext
    PROVE  PipeInv'
<1>1. UNCHANGED <<shape, cancelled, toServer, sendClosed, serverOpen, clientOpen, serverDone,
                  serverErr, handler, served, heard, panicked, sender, sent, closer, closed>>
  BY Zenon DEF Pipe!RecvNext
<1>2. CASE toClient # <<>> /\ Pipe!Delivered
  <2>1. PipeTypes'
    BY <1>1, <1>2 DEF PipeInv, PipeTypes, Pipe!TypeOK, Pipe!Delivered
  <2>2. ToClient'
    <3>1. /\ toClient \in Seq(Nat) /\ got \in Seq(Nat) /\ served = Len(got) + Len(toClient)
          /\ Follows(got, 0) /\ Follows(toClient, Len(got))
      BY DEF PipeInv, PipeTypes, Pipe!TypeOK, ToClient
    <3>2. /\ Head(toClient) = Len(got) + 1 /\ Len(toClient') = Len(toClient) - 1
          /\ Follows(toClient', Len(got) + 1)
      BY <1>2, <3>1, Taken DEF Pipe!Delivered
    <3>3. Follows(got', 0) /\ Len(got') = Len(got) + 1
      BY <1>2, <3>1, <3>2, Appended DEF Pipe!Delivered
    <3> QED
      BY <1>1, <3>1, <3>2, <3>3 DEF ToClient
  <2> QED
    BY <1>1, <1>2, <2>1, <2>2 DEF PipeInv, ToServer, Flags, Follows, Pipe!PanicIsOfClosing,
       Pipe!Bidi, Pipe!Delivered
<1>3. CASE toClient = <<>> /\ UNCHANGED <<got, toClient>>
  <2>1. last' \in {"nothing", "eof", "error", "cancelled"}
    BY <1>3, Zenon DEF Pipe!RecvNext, Pipe!RecvCancelled, Pipe!RecvFrame, Pipe!Delivered,
       Pipe!Answered
  <2>2. last' \in {"eof", "error"} => serverErr # "nil" \/ ~clientOpen
    BY <1>3 DEF Pipe!RecvNext, Pipe!RecvCancelled, Pipe!RecvFrame, Pipe!Delivered, Pipe!Answered
  <2>3. PipeTypes'
    BY <1>1, <1>3, <2>1 DEF PipeInv, PipeTypes, Pipe!TypeOK
  <2>4. Flags'
    BY <1>1, <1>3, <2>2 DEF PipeInv, Flags, Pipe!PanicIsOfClosing, Pipe!Bidi
  <2> QED
    BY <1>1, <1>3, <2>3, <2>4, Zenon DEF PipeInv, ToClient, ToServer, Follows
<1> QED
  BY <1>2, <1>3 DEF Pipe!RecvNext, Pipe!RecvCancelled, Pipe!RecvFrame, Pipe!Answered

\* A client closes its direction, or its context is cancelled.
LEMMA CloseKeeps ==
    ASSUME PipeInv, ~panicked, Pipe!CloseNext \/ Pipe!Cancel
    PROVE  PipeInv'
<1>1. UNCHANGED <<shape, toServer, toClient, clientOpen, serverDone, serverErr, handler,
                  served, heard, panicked, sender, sent, got, last>>
  BY Zenon DEF Pipe!CloseNext, Pipe!Cancel, Pipe!clientVars
<1>2. PipeTypes'
  <2>1. closer' \in {"idle", "cancelling", "waiting", "returned"}
    BY Zenon DEF PipeInv, PipeTypes, Pipe!TypeOK, Pipe!CloseNext, Pipe!CloseSend, Pipe!CloseBegins,
       Pipe!CloseCancels,
           Pipe!CloseReturns, Pipe!Cancel, Pipe!clientVars
  <2>2. /\ cancelled' \in BOOLEAN /\ sendClosed' \in BOOLEAN /\ serverOpen' \in BOOLEAN
        /\ closed' \in BOOLEAN
    BY Zenon DEF PipeInv, PipeTypes, Pipe!CloseNext, Pipe!CloseSend, Pipe!CloseBegins,
       Pipe!CloseCancels,
           Pipe!CloseReturns, Pipe!Cancel, Pipe!clientVars, Pipe!Bidi
  <2> QED
    BY <1>1, <2>1, <2>2, Zenon DEF PipeInv, PipeTypes, Pipe!TypeOK
<1>3. Flags'
  BY <1>1, Zenon DEF PipeInv, PipeTypes, Flags, Pipe!PanicIsOfClosing, Pipe!CloseNext,
     Pipe!CloseSend, Pipe!CloseBegins, Pipe!CloseCancels,
              Pipe!CloseReturns, Pipe!Cancel, Pipe!clientVars, Pipe!Bidi
<1> QED
  BY <1>1, <1>2, <1>3, Zenon DEF PipeInv, ToClient, ToServer, Follows

\* The handler receives and sends.
LEMMA ServerKeeps ==
    ASSUME PipeInv, Pipe!ServerNext
    PROVE  PipeInv'
<1>1. UNCHANGED <<shape, sendClosed, serverOpen, panicked, sender, sent, closer, closed, got, last,
                  clientOpen, serverDone, serverErr, cancelled>>
  BY DEF Pipe!ServerNext, Pipe!ServerRecv, Pipe!ServerSend, Pipe!Apart, Pipe!clientVars
<1>2. CASE Pipe!ServerRecv
  <2>1. CASE toServer # <<>> /\ Pipe!Handle("running") /\ toServer' = Tail(toServer) /\ heard' = Head(toServer)
    <3>1. UNCHANGED <<toClient, served>> /\ handler' = "running" /\ handler \in {"running", "receiving"}
      BY <1>2, <2>1, Zenon DEF Pipe!ServerRecv, Pipe!Handle
    <3>2. PipeTypes'
      BY <1>1, <2>1, <3>1 DEF PipeInv, PipeTypes, Pipe!TypeOK
    <3>3. ToServer'
      <4>1. toServer \in Seq(Nat) /\ heard \in Nat /\ sent = heard + Len(toServer) /\ Follows(toServer, heard)
        BY DEF PipeInv, PipeTypes, Pipe!TypeOK, ToServer
      <4>2. heard' = heard + 1 /\ Follows(toServer', heard + 1) /\ Len(toServer') = Len(toServer) - 1
        BY <2>1, <4>1, Taken, Zenon
      <4> QED
        BY <1>1, <4>1, <4>2 DEF ToServer
    <3> QED
      BY <1>1, <2>1, <3>1, <3>2, <3>3 DEF PipeInv, ToClient, Flags, Over, Follows,
         Pipe!PanicIsOfClosing, Pipe!Bidi
  <2>2. CASE UNCHANGED <<toServer, heard>>
    <3>1. UNCHANGED <<toClient, served>> /\ handler' \in {"running", "receiving"}
          /\ handler \in {"running", "receiving"}
      BY <1>2, <2>2 DEF Pipe!ServerRecv, Pipe!Handle
    <3>2. PipeTypes'
      BY <1>1, <2>2, <3>1 DEF PipeInv, PipeTypes, Pipe!TypeOK
    <3> QED
      BY <1>1, <2>2, <3>1, <3>2, Zenon DEF PipeInv, ToClient, ToServer, Flags, Over, Follows,
         Pipe!PanicIsOfClosing, Pipe!Bidi
  <2> QED
    BY <1>2, <2>1, <2>2, Zenon DEF Pipe!ServerRecv
<1>3. CASE Pipe!ServerSend
  <2>1. CASE /\ Len(toClient) < Capacity
             /\ served' = served + 1 /\ toClient' = Append(toClient, served + 1)
             /\ Pipe!Handle("running")
    <3>1. UNCHANGED <<toServer, heard>> /\ handler = "running" /\ handler' = "running" /\ served < StreamFrames
      BY <1>3, <2>1 DEF Pipe!ServerSend, Pipe!Handle
    <3>2. PipeTypes'
      BY <1>1, <2>1, <3>1 DEF PipeInv, PipeTypes, Pipe!TypeOK
    <3>3. ToClient'
      <4>1. /\ toClient \in Seq(Nat) /\ Len(got) \in Nat /\ served = Len(got) + Len(toClient)
            /\ Follows(toClient, Len(got))
        BY DEF PipeInv, PipeTypes, Pipe!TypeOK, ToClient
      <4>2. Follows(toClient', Len(got)) /\ Len(toClient') = Len(toClient) + 1
        BY <2>1, <4>1, Appended, Zenon
      <4> QED
        BY <1>1, <2>1, <4>1, <4>2 DEF PipeInv, ToClient, Follows
    <3> QED
      BY <1>1, <2>1, <3>1, <3>2, <3>3, Zenon DEF PipeInv, ToServer, Flags, Over, Follows,
         Pipe!PanicIsOfClosing, Pipe!Bidi
  <2>2. CASE cancelled /\ Pipe!Handle("ending") /\ UNCHANGED <<served, toClient>>
    <3>1. UNCHANGED <<toServer, heard>> /\ handler = "running" /\ handler' = "ending"
      BY <1>3, <2>2, Zenon DEF Pipe!ServerSend, Pipe!Handle
    <3>2. PipeTypes'
      BY <1>1, <2>2, <3>1 DEF PipeInv, PipeTypes, Pipe!TypeOK
    <3> QED
      BY <1>1, <2>2, <3>1, <3>2 DEF PipeInv, ToClient, ToServer, Flags, Over, Follows,
         Pipe!PanicIsOfClosing, Pipe!Bidi
  <2> QED
    BY <1>3, <2>1, <2>2 DEF Pipe!ServerSend
<1> QED
  BY <1>2, <1>3, Zenon DEF Pipe!ServerNext

\* The handler returns and its direction is closed.
LEMMA PipeFinishKeeps ==
    ASSUME PipeInv, Pipe!ReturnNext \/ Pipe!FinishNext
    PROVE  PipeInv'
<1>1. UNCHANGED <<shape, sendClosed, serverOpen, panicked, sender, sent, closer, closed, got, last,
                  toServer, heard, toClient, served>>
  BY DEF Pipe!ReturnNext, Pipe!Return, Pipe!FinishNext, Pipe!Finish, Pipe!Apart, Pipe!clientVars
<1>2. PipeTypes'
  <2>1. handler' \in Over
    BY Zenon DEF Pipe!ReturnNext, Pipe!Return, Pipe!FinishNext, Pipe!Finish, Pipe!Handle, Over
  <2>2. cancelled' \in BOOLEAN /\ clientOpen' \in BOOLEAN /\ serverDone' \in BOOLEAN
    BY Zenon DEF PipeInv, PipeTypes, Pipe!ReturnNext, Pipe!Return, Pipe!FinishNext, Pipe!Finish
  <2> QED
    BY <1>1, <2>1, <2>2 DEF PipeInv, PipeTypes, Pipe!TypeOK, Over
<1>3. Flags'
  BY <1>1, Zenon DEF PipeInv, PipeTypes, Pipe!TypeOK, Flags, Over, Pipe!PanicIsOfClosing, Pipe!Bidi,
              Pipe!ReturnNext, Pipe!Return, Pipe!FinishNext, Pipe!Finish, Pipe!Handle
<1> QED
  BY <1>1, <1>2, <1>3, Zenon DEF PipeInv, ToClient, ToServer, Follows

\* Every step of a stream keeps its invariant.
LEMMA PipeStepKeeps ==
    ASSUME PipeInv, [Pipe!Next]_(Pipe!pipeVars)
    PROVE  PipeInv'
<1>1. CASE UNCHANGED Pipe!pipeVars
  BY <1>1 DEF Pipe!pipeVars, Pipe!clientVars, PipeInv, PipeTypes, Pipe!TypeOK, ToClient, ToServer,
     Flags, Follows,
     Pipe!PanicIsOfClosing, Pipe!Bidi
<1> QED
  BY <1>1, SendKeeps, RecvKeeps, CloseKeeps, ServerKeeps, PipeFinishKeeps, Zenon DEF Pipe!Next,
     Pipe!Settled

\* The invariant implies the properties.
LEMMA PipeImplies ==
    PipeInv => Pipe!TypeOK /\ Pipe!FramesInOrder /\ Pipe!HeardInOrder /\ Pipe!PanicIsOfClosing
<1> SUFFICES ASSUME PipeInv PROVE Pipe!FramesInOrder /\ Pipe!HeardInOrder
  BY DEF PipeInv, PipeTypes, Flags
<1>1. Pipe!HeardInOrder
  <2>1. toServer \in Seq(Nat)
    BY DEF PipeInv, PipeTypes, Pipe!TypeOK
  <2> QED
    BY <2>1, Counted, Zenon DEF PipeInv, PipeTypes, ToServer, Pipe!HeardInOrder
<1>2. got \o toClient = [i \in 1..served |-> i]
  <2>1. toClient \in Seq(Nat) /\ Len(got) \in Nat
    BY DEF PipeInv, PipeTypes, Pipe!TypeOK
  <2>2. got = [i \in 1..Len(got) |-> i]
    BY DEF PipeInv, PipeTypes, ToClient, Follows
  <2>3. [i \in 1..Len(got) |-> i] \o toClient = [i \in 1..(Len(got) + Len(toClient)) |-> i]
    BY <2>1, Counted, Zenon DEF PipeInv, ToClient
  <2> QED
    BY <2>2, <2>3, Zenon DEF PipeInv, ToClient
<1>3. last \in {"eof", "error"} => Len(got) = served
  BY DEF PipeInv, PipeTypes, ToClient, Flags
<1> QED
  BY <1>1, <1>2, <1>3 DEF Pipe!FramesInOrder

(* In both directions the frames of a session arrive in order and without  *)
(* a gap, for any capacity of the channels; a client that is told the end  *)
(* of the stream, once the handler closed its direction, has all of them;  *)
(* and a send panics only beside a close of the same session.              *)
THEOREM PipeInvariant ==
    ASSUME Capacity \in Nat, StreamFrames \in Nat
    PROVE  Pipe!Spec => [](Pipe!TypeOK /\ Pipe!FramesInOrder /\ Pipe!HeardInOrder /\ Pipe!PanicIsOfClosing)
  BY PipeInit, PipeStepKeeps, PipeImplies, PTL DEF Pipe!Spec
===============================================================================
