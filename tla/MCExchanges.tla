----------------------------- MODULE MCExchanges -----------------------------
(***************************************************************************)
(* Model-checking instance of Exchanges, with the fairness of the          *)
(* components and the property that rests on it.                           *)
(***************************************************************************)
EXTENDS Exchanges, TLC

CONSTANTS c1, c2, c3, c4, k1, k2, a, b

\* Two callers send the same request with one key, a third reuses that key for
\* another request, and a fourth competes for the revision the first expects.
MCPlan == c1 :> [key |-> k1, request |-> [touches |-> <<a, b>>, expected |-> 0]]
       @@ c2 :> [key |-> k1, request |-> [touches |-> <<a, b>>, expected |-> 0]]
       @@ c3 :> [key |-> k1, request |-> [touches |-> <<b>>, expected |-> 0]]
       @@ c4 :> [key |-> k2, request |-> [touches |-> <<a, a>>, expected |-> 0]]

\* What a driver's transport may be asked for.
MCWorks == ({"linux"} \X {"push", "pull", "exec"}) \cup ({"android"} \X {"push", "pull", "adb"})
MCReferences == <<"r1", "r2">>
\* Which documents compile for which capability fingerprint.
MCSupported == {<<"x", "f1">>, <<"x", "f2">>, <<"y", "f1">>}
\* Without drivers, with both kinds of targets, with Android alone under another
\* state root, and one that is refused.
MCConfiguration(agents, workspaces, containers, emulators, root) ==
    [agent |-> agents, workspace |-> workspaces, linux |-> containers,
     android |-> emulators, capture |-> "none", observer |-> "none",
     profile |-> agents # "none", state |-> root, androidRoot |-> "avd"]
MCConfigurations ==
    {MCConfiguration("none", "none", "none", "none", "s1"),
     MCConfiguration("docker", "directory", "docker", "android-emulator", "s1"),
     MCConfiguration("docker", "directory", "none", "android-emulator", "s2"),
     MCConfiguration("docker", "none", "docker", "none", "s2")}
MCDeployments == {[linux |-> l, android |-> TRUE, observers |-> FALSE, runs |-> TRUE] :
                     l \in BOOLEAN}

\* The fairness of the components, a condition of each beside one of every
\* other: only one of them runs.
Handling ==
    \/ OnlyStore(Restart)
    \/ OnlyExec(Exec!HandlerNext)
    \/ OnlyTransport(Transport!HandlerNext)
    \/ OnlyPipe(~panicked /\ Pipe!FinishNext)
    \/ OnlyGateway(Gateway!Loop)
    \/ OnlyRunner(Runner!Attempt("e1"))
    \/ OnlyHost(Host!Settles("h1"))
Expiring ==
    \/ OnlyStore(Lookup(c1) \/ Handler(c1))
    \/ OnlyExec(Exec!Expire)
    \/ OnlyTransport(Transport!BackgroundNext)
    \/ OnlyPipe(~panicked /\ Pipe!ReturnNext /\ cancelled)
    \/ OnlyGateway(Gateway!CloseListener \/ Gateway!Collect \/ Gateway!CloseConnections \/ Gateway!Wait)
    \/ OnlyRunner(Runner!Attempt("e2"))
    \/ OnlyHost(Host!Settles("h2"))
Reading ==
    \/ OnlyStore(Lookup(c2) \/ Handler(c2))
    \/ OnlyExec(Exec!ReadNext)
    \/ OnlyTransport(Transport!CloserNext("driver"))
    \/ OnlyPipe(~panicked /\ Pipe!ServerNext /\ handler = "receiving")
    \/ OnlyGateway(Gateway!Session("k1"))
Dying ==
    \/ OnlyStore(Lookup(c3) \/ Handler(c3))
    \/ OnlyExec(Exec!HostNext)
    \/ OnlyTransport(Transport!CloserNext("handler"))
    \/ OnlyGateway(Gateway!Session("k2"))
Closing ==
    \/ OnlyStore(Lookup(c4) \/ Handler(c4))
    \/ OnlyExec(Exec!CloseNext)
    \/ OnlyPipe(~panicked /\ Pipe!CloseNext /\ closer # "idle")
    \/ OnlyGateway(Gateway!CopyFails("k1"))
Waiting ==
    \/ OnlyStore(Commit(c1) \/ Finish(c1))
    \/ OnlyExec(Exec!WaitNext)
    \/ OnlyGateway(Gateway!CopyFails("k2"))
Sending ==
    \/ OnlyStore(Commit(c2) \/ Finish(c2))
    \/ OnlyExec(Exec!ForwardNext /\ forward = "sending" /\ ~Exec!Sendable)
Beating ==
    \/ OnlyStore(Commit(c3) \/ Finish(c3))
    \/ OnlyExec(Exec!HeartbeatFails)
Entering ==
    \/ OnlyStore(Enter(c1))
    \/ OnlyExec(Exec!HandlerNext /\ pc' = "closing")
    \/ OnlyTransport(Transport!TimeoutNext("driver"))
TimingOut ==
    \/ OnlyStore(Enter(c2))
    \/ OnlyTransport(Transport!TimeoutNext("handler"))

SumSpec ==
    /\ ExchangesSpec
    /\ WF_sumVars(Handling) /\ WF_sumVars(Expiring) /\ WF_sumVars(Reading) /\ WF_sumVars(Dying)
    /\ WF_sumVars(Closing) /\ WF_sumVars(Waiting) /\ WF_sumVars(Sending) /\ WF_sumVars(Beating)
    /\ WF_sumVars(OnlyStore(Commit(c4) \/ Finish(c4)))
    /\ SF_sumVars(Entering) /\ SF_sumVars(TimingOut)
    /\ SF_sumVars(OnlyStore(Enter(c3))) /\ SF_sumVars(OnlyStore(Enter(c4)))

-----------------------------------------------------------------------------
\* What was begun ends: the handler of an exec or of a transfer, whatever the
\* guest and the client do, an agent run's attempts, the close of a transport, of
\* a stream and of the gateway, and the opening and closing of a host.
HandlersEnded ==
    CASE focus = "exec"      -> pc \in {"create", "open", "run", "done"}
      [] focus = "transport" -> transfer \in {"create", "done"}
      [] focus = "runner"    -> Runner!AttemptEnded("e1")
      [] focus = "host"      -> Host!Settled("h1")
      [] OTHER               -> TRUE
ClosesEnded ==
    CASE focus = "transport" -> transportCloser["driver"] \in {"idle", "ok", "err"}
      [] focus = "pipe"      -> closer # "waiting" \/ panicked
      [] focus = "gateway"   -> endpoint \in {"unopened", "open", "closed"}
      [] focus = "runner"    -> Runner!AttemptEnded("e2")
      [] focus = "host"      -> Host!Settled("h2")
      [] OTHER               -> TRUE
CallsEnd == []<>HandlersEnded /\ []<>ClosesEnded
===============================================================================
