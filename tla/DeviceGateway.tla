----------------------------- MODULE DeviceGateway -----------------------------
(***************************************************************************)
(* The run-scoped ADB gateway (internal/drivers/deviceproxy): one endpoint *)
(* opened for one run's device.  The accept loop gives each client a slot  *)
(* of a bounded number and a goroutine that reads one service, has it      *)
(* authorized against the endpoint's scope, and answers it itself or       *)
(* relays it over a connection to the host's ADB server.  Close revokes    *)
(* the endpoint: it cancels, closes the listener, closes every registered  *)
(* connection and waits for the goroutines.                                *)
(*                                                                         *)
(* A connection is "open", "gone" once its far end left or its deadline    *)
(* passed, and "closed" once this side closed it; reads and writes of one  *)
(* that is not open fail.  A service is its kind and the device it names.  *)
(***************************************************************************)
EXTENDS Naturals, FiniteSets

CONSTANTS Clients,              \* the connections clients make
          MaximumConnections    \* as configured; 0 takes the default

VARIABLES endpoint,     \* how far Open and Close have come
          acceptor,     \* the accept loop and the connection in its hands
          session,      \* per client: its goroutine and its two connections
          connections,  \* the registered connections
          doomed        \* the connections Close found registered

gatewayVars == <<endpoint, acceptor, session, connections, doomed>>

-------------------------------------------------------------------------------
ServiceKinds == {"version", "track", "transport", "tport", "host_serial", "device", "host"}
Services == [kind : ServiceKinds, device : {"assigned"}]
            \cup [kind : {"transport", "tport", "host_serial"}, device : {"other"}]

\* NewGateway takes a limit of 1..1024 connections, 8 unless configured.
Limit == IF MaximumConnections = 0 THEN 8 ELSE MaximumConnections
ConfigAccepted == Limit \in 1..1024

\* authorizeService: host queries are answered here, a selector or a
\* host-serial service must name the assigned device, no other host service is
\* allowed and everything else is a service of the selected device.
AuthorizeService(s) ==
    CASE s.kind \in {"version", "track"} -> "synthesize"
      [] s.kind \in {"transport", "tport"} -> IF s.device = "assigned" THEN "select" ELSE "denied"
      [] s.kind = "host_serial" -> IF s.device = "assigned" THEN "forward" ELSE "denied"
      [] s.kind = "host" -> "denied"
      [] OTHER -> "forward"

\* Authorize refuses everything once the endpoint is cancelled.
Cancelled == endpoint \notin {"unopened", "open"}
Authorize(s) == IF Cancelled THEN "denied" ELSE AuthorizeService(s)

NoSession == [at |-> "absent", conn |-> "none", up |-> "none", selected |-> FALSE,
              service |-> [kind |-> "version", device |-> "assigned"], sent |-> {}, copies |-> {}]

At(k, p) == session[k].at = p
Alive(k) == session[k].conn = "open"
UpAlive(k) == session[k].up = "open"
Client(k) == <<"client", k>>
Upstream(k) == <<"upstream", k>>
Holders == {k \in Clients : session[k].at \notin {"absent", "backlog", "refused", "done"}}

-------------------------------------------------------------------------------
Init ==
    /\ endpoint = "unopened"
    /\ acceptor = [at |-> "stopped", conn |-> {}]
    /\ session = [k \in Clients |-> NoSession]
    /\ connections = {}
    /\ doomed = {}

\* Open needs a complete scope and a listener, then starts the accept loop.
Open ==
    /\ endpoint = "unopened"
    /\ ConfigAccepted
    /\ endpoint' = "open"
    /\ acceptor' = [acceptor EXCEPT !.at = "accepting"]
    /\ UNCHANGED <<session, connections, doomed>>

\* A client connects to the listening socket.
Connect(k) ==
    /\ endpoint \in {"open", "cancelled"}
    /\ At(k, "absent")
    /\ session' = [session EXCEPT ![k].at = "backlog", ![k].conn = "open"]
    /\ UNCHANGED <<endpoint, acceptor, connections, doomed>>

Listening == endpoint \in {"open", "cancelled"}

\* accept, up to the slot: a connection over the limit is closed at once.
Accept(k) ==
    /\ acceptor.at = "accepting" /\ Listening
    /\ At(k, "backlog")
    /\ IF Cardinality(Holders) < Limit
       THEN /\ session' = [session EXCEPT ![k].at = "slot"]
            /\ acceptor' = [at |-> "slot", conn |-> {k}]
       ELSE /\ session' = [session EXCEPT ![k].at = "refused", ![k].conn = "closed"]
            /\ UNCHANGED acceptor
    /\ UNCHANGED <<endpoint, connections, doomed>>

\* accept under the lock: register, or give the slot back once cancelled.
Register(k) ==
    /\ acceptor.at = "slot" /\ acceptor.conn = {k}
    /\ IF Cancelled
       THEN /\ session' = [session EXCEPT ![k].at = "refused", ![k].conn = "closed"]
            /\ acceptor' = [at |-> "stopped", conn |-> {}]
            /\ UNCHANGED connections
       ELSE /\ session' = [session EXCEPT ![k].at = "request"]
            /\ acceptor' = [at |-> "accepting", conn |-> {}]
            /\ connections' = connections \cup {Client(k)}
    /\ UNCHANGED <<endpoint, doomed>>

\* The listener's close ends the loop.
AcceptFails ==
    /\ acceptor.at = "accepting" /\ ~Listening
    /\ acceptor' = [at |-> "stopped", conn |-> {}]
    /\ UNCHANGED <<endpoint, session, connections, doomed>>

-------------------------------------------------------------------------------
Keep == UNCHANGED <<endpoint, acceptor, connections, doomed>>
Move(k, p) == session' = [session EXCEPT ![k].at = p]

\* Where a goroutine goes that ends: through the release of the upstream
\* connection when it holds one.
Leaving(k) == IF session[k].up = "none" THEN "leave" ELSE "release"

\* serve reads the first service.  A frame whose length is no bounded
\* hexadecimal number is an error.
ReadRequest(k) ==
    /\ At(k, "request") /\ Alive(k)
    /\ \/ \E s \in Services :
            session' = [session EXCEPT ![k].service = s,
                           ![k].at = CASE Authorize(s) = "denied" -> "leave"
                                       [] Authorize(s) = "synthesize" ->
                                              IF s.kind = "track" THEN "tracking" ELSE "leave"
                                       [] OTHER -> "dial"]
       \/ Move(k, "leave")
    /\ Keep

\* synthesize: a tracking client keeps its slot until the endpoint closes, it
\* disconnects or its time is up.
EndTracking(k) ==
    /\ At(k, "tracking")
    /\ Cancelled \/ ~Alive(k)
    /\ Move(k, "leave")
    /\ Keep

\* dialUpstream: the dial itself, bounded by its own timeout.
Dial(k) ==
    /\ At(k, "dial")
    /\ \/ /\ ~Cancelled
          /\ session' = [session EXCEPT ![k].at = "dialled", ![k].up = "open"]
       \/ Move(k, "leave")
    /\ Keep

\* Faulty variant: the dialled connection is registered without a look at the
\* endpoint.
RegisterUpstreamLate(k) ==
    /\ At(k, "dialled")
    /\ session' = [session EXCEPT ![k].at = "transport"]
    /\ connections' = connections \cup {Upstream(k)}
    /\ UNCHANGED <<endpoint, acceptor, doomed>>

\* dialUpstream under the lock.
RegisterUpstream(k) ==
    /\ At(k, "dialled")
    /\ IF Cancelled
       THEN /\ session' = [session EXCEPT ![k].at = "leave", ![k].up = "closed"]
            /\ UNCHANGED connections
       ELSE /\ session' = [session EXCEPT ![k].at = "transport"]
            /\ connections' = connections \cup {Upstream(k)}
    /\ UNCHANGED <<endpoint, acceptor, doomed>>

Sent(k, s, p) ==
    session' = [session EXCEPT ![k].sent = @ \cup {[service |-> s, selected |-> session[k].selected]},
                               ![k].at = p]

\* serveForward passes a host-serial service straight to the host's server;
\* every other service first selects the assigned device there.
SelectTransport(k) ==
    /\ At(k, "transport") /\ UpAlive(k)
    /\ IF session[k].service.kind = "host_serial"
       THEN Sent(k, session[k].service, "status")
       ELSE Sent(k, [kind |-> "transport", device |-> "assigned"], "selecting")
    /\ Keep

\* Faulty variant: the service follows the selector whatever the answer was.
TransportAnsweredAnyway(k) ==
    /\ At(k, "selecting") /\ UpAlive(k)
    /\ \E okay \in BOOLEAN :
         session' = [session EXCEPT ![k].selected = okay,
                        ![k].at = IF session[k].service.kind = "device" THEN "send" ELSE "second"]
    /\ Keep

\* readADBStatus of the selector: a failure is passed to the client and ends
\* the session.  serveSelected then answers the client and waits for the service.
TransportAnswered(k) ==
    /\ At(k, "selecting") /\ UpAlive(k)
    /\ \/ session' = [session EXCEPT ![k].selected = TRUE,
                         ![k].at = IF session[k].service.kind = "device" THEN "send"
                                   ELSE IF Alive(k) THEN "second" ELSE "release"]
       \/ Move(k, "release")
    /\ Keep

\* serveSelected: the second request must be a service of the device.
ReadSecond(k) ==
    /\ At(k, "second") /\ Alive(k)
    /\ \/ \E s \in Services :
            session' = [session EXCEPT ![k].service = s,
                           ![k].at = IF Authorize(s) = "forward" /\ s.kind # "host_serial"
                                     THEN "send" ELSE "release"]
       \/ Move(k, "release")
    /\ Keep

SendService(k) ==
    /\ At(k, "send") /\ UpAlive(k)
    /\ Sent(k, session[k].service, "status")
    /\ Keep

\* relayResponseAndStream: the answer is passed on, and on success both
\* directions are copied until each has ended.
StatusAnswered(k) ==
    /\ At(k, "status") /\ UpAlive(k)
    /\ \/ Alive(k) /\ session' = [session EXCEPT ![k].at = "relay", ![k].copies = {"up", "down"}]
       \/ Move(k, "release")
    /\ Keep

\* copyOne ends when its source ends, its destination fails or its limit of
\* bytes is reached, and shuts the destination's writing side.
CopyEnds(k, direction) ==
    /\ At(k, "relay") /\ direction \in session[k].copies
    /\ session' = [session EXCEPT ![k].copies = @ \ {direction}]
    /\ Keep

\* relayBounded waits for both.
RelayEnds(k) ==
    /\ At(k, "relay") /\ session[k].copies = {}
    /\ Move(k, "release")
    /\ Keep

\* Every read or write of a connection that is not open fails.
SessionFails(k) ==
    /\ \/ session[k].at \in {"request", "second"} /\ ~Alive(k)
       \/ session[k].at \in {"transport", "selecting", "send", "status"} /\ ~UpAlive(k)
    /\ Move(k, Leaving(k))
    /\ Keep

\* releaseUpstream, deferred by serveSelected and serveForward.
ReleaseUpstream(k) ==
    /\ At(k, "release")
    /\ session' = [session EXCEPT ![k].at = "leave", ![k].up = "closed"]
    /\ connections' = connections \ {Upstream(k)}
    /\ UNCHANGED <<endpoint, acceptor, doomed>>

\* The deferred end of serve: unregister, give the slot back, close.
Leave(k) ==
    /\ At(k, "leave")
    /\ session' = [session EXCEPT ![k].at = "done", ![k].conn = "closed",
                                  ![k].service = NoSession.service]
    /\ connections' = connections \ {Client(k)}
    /\ UNCHANGED <<endpoint, acceptor, doomed>>

\* The far end leaves, or the connection's deadline passes.
PeerLeaves(k) ==
    /\ \/ Alive(k) /\ session' = [session EXCEPT ![k].conn = "gone"]
       \/ UpAlive(k) /\ session' = [session EXCEPT ![k].up = "gone"]
    /\ Keep

-------------------------------------------------------------------------------
\* close, once: cancel the endpoint's context, then close the listener,
Cancel ==
    /\ endpoint = "open"
    /\ endpoint' = "cancelled"
    /\ UNCHANGED <<acceptor, session, connections, doomed>>

\* which resets the connections nobody accepted,
CloseListener ==
    /\ endpoint = "cancelled"
    /\ endpoint' = "unlistened"
    /\ session' = [k \in Clients |-> IF At(k, "backlog")
                                     THEN [session[k] EXCEPT !.at = "refused", !.conn = "closed"]
                                     ELSE session[k]]
    /\ UNCHANGED <<acceptor, connections, doomed>>

\* take the registered connections under the lock,
Collect ==
    /\ endpoint = "unlistened"
    /\ endpoint' = "closing"
    /\ doomed' = connections
    /\ UNCHANGED <<acceptor, session, connections>>

\* close them,
CloseConnections ==
    /\ endpoint = "closing"
    /\ endpoint' = "waiting"
    /\ session' = [k \in Clients |->
          [session[k] EXCEPT !.conn = IF Client(k) \in doomed THEN "closed" ELSE @,
                             !.up = IF Upstream(k) \in doomed THEN "closed" ELSE @]]
    /\ UNCHANGED <<acceptor, connections, doomed>>

\* and wait for the accept loop and every session.
Finished == acceptor.at = "stopped" /\ Holders = {}
Wait ==
    /\ endpoint = "waiting"
    /\ Finished
    /\ endpoint' = "closed"
    /\ UNCHANGED <<acceptor, session, connections, doomed>>

Close == Cancel \/ CloseListener \/ Collect \/ CloseConnections \/ Wait

-------------------------------------------------------------------------------
\* What the goroutine of a session does without waiting for a far end.
Session(k) ==
    \/ EndTracking(k)
    \/ Dial(k)
    \/ RegisterUpstream(k)
    \/ SelectTransport(k)
    \/ SendService(k)
    \/ RelayEnds(k)
    \/ SessionFails(k)
    \/ ReleaseUpstream(k)
    \/ Leave(k)

\* What it does when the client or the host's server sends something.
Answered(k) ==
    \/ ReadRequest(k)
    \/ TransportAnswered(k)
    \/ ReadSecond(k)
    \/ StatusAnswered(k)

Copy(k) == \E direction \in {"up", "down"} : CopyEnds(k, direction)

\* A copy between closed connections ends by itself.
CopyFails(k) == (~Alive(k) \/ ~UpAlive(k)) /\ Copy(k)

Loop == AcceptFails \/ \E k \in Clients : Accept(k) \/ Register(k)

Next ==
    \/ Open
    \/ Close
    \/ AcceptFails
    \/ \E k \in Clients :
         Connect(k) \/ Accept(k) \/ Register(k) \/ Session(k) \/ Answered(k) \/ Copy(k) \/ PeerLeaves(k)

\* The goroutines run; nothing is assumed of the clients, of the host's ADB
\* server or of the deadlines.  Close, once begun, is carried on by its caller.
Fairness ==
    /\ WF_gatewayVars(Loop)
    /\ WF_gatewayVars(CloseListener \/ Collect \/ CloseConnections \/ Wait)
    /\ \A k \in Clients : WF_gatewayVars(Session(k)) /\ WF_gatewayVars(CopyFails(k))

Spec == Init /\ [][Next]_gatewayVars
FairSpec == Spec /\ Fairness

-------------------------------------------------------------------------------
TypeOK ==
    /\ endpoint \in {"unopened", "open", "cancelled", "unlistened", "closing", "waiting", "closed"}
    /\ acceptor \in [at : {"stopped", "accepting", "slot"}, conn : SUBSET Clients]
    /\ session \in [Clients ->
          [at : {"absent", "backlog", "slot", "refused", "request", "tracking", "dial", "dialled",
                 "transport", "selecting", "second", "send", "status", "relay", "release", "leave", "done"},
           conn : {"none", "open", "gone", "closed"}, up : {"none", "open", "gone", "closed"},
           selected : BOOLEAN, service : Services,
           sent : SUBSET [service : Services, selected : BOOLEAN], copies : SUBSET {"up", "down"}]]
    /\ connections \subseteq ({"client", "upstream"} \X Clients)
    /\ doomed \subseteq ({"client", "upstream"} \X Clients)

\* What reaches the host's ADB server over a session is the selector of the
\* assigned device, a host-serial service of it, or a device service after the
\* server confirmed that selection (serveSelected, serveForward).
DeviceServiceIsSelected ==
    \A k \in Clients : \A m \in session[k].sent :
        \/ m.service.kind \in {"transport", "host_serial"} /\ m.service.device = "assigned"
        \/ m.service.kind = "device" /\ m.selected

\* Once Close has returned no connection is left open towards a client or the
\* host's server, however the accept loop and the dials raced it.
ClosedIsQuiet ==
    endpoint = "closed" =>
        /\ connections = {}
        /\ \A k \in Clients : session[k].conn # "open" /\ session[k].up # "open"

\* Close returns whatever the clients and the host's server do: it never waits
\* for a session blocked on a connection that Close did not find.
CloseReturns == (endpoint = "cancelled") ~> (endpoint = "closed")
===============================================================================
