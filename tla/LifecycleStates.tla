-------------------------- MODULE LifecycleStates --------------------------
(***************************************************************************)
(* The closed lifecycle vocabularies of internal/domain/states.go and the  *)
(* transition tables every mutation consults through guardTransition.  A   *)
(* table is the set of its <<from, to>> pairs; the code builds the failure *)
(* aware tables by adding one edge from each live state to each failure    *)
(* state, which is a Cartesian product here.                               *)
(***************************************************************************)

SessionStates == {"requested", "admitted", "leased", "releasing", "released",
                  "quarantined", "lost"}

SessionTransitions ==
    {<<"requested", "admitted">>, <<"admitted", "leased">>,
     <<"leased", "releasing">>, <<"releasing", "released">>}
    \cup ({"requested", "admitted", "leased", "releasing"}
            \X {"quarantined", "lost"})

LeaseStates == {"active", "releasing", "released", "expired", "revoked",
                "quarantined", "lost"}

LeaseTransitions ==
    {<<"active", "releasing">>, <<"releasing", "released">>,
     <<"active", "expired">>}
    \cup ({"active", "releasing"} \X {"revoked", "quarantined", "lost"})

AgentLive == {"provisioning", "booting", "ready", "running", "quiescing"}

AgentTerminal == {"sealed", "failed", "quarantined", "lost"}

AgentStates == AgentLive \cup AgentTerminal

AgentTransitions ==
    {<<"provisioning", "booting">>, <<"booting", "ready">>,
     <<"ready", "running">>, <<"ready", "quiescing">>,
     <<"running", "quiescing">>, <<"quiescing", "sealed">>}
    \cup (AgentLive \X {"failed", "quarantined", "lost"})

TargetLive == {"provisioning", "instrumenting", "ready", "resettable"}

TargetTerminal == {"destroyed", "failed", "quarantined", "lost"}

TargetStates == TargetLive \cup TargetTerminal

TargetTransitions ==
    {<<"provisioning", "instrumenting">>, <<"instrumenting", "ready">>,
     <<"ready", "resettable">>, <<"resettable", "destroyed">>}
    \cup (TargetLive \X {"failed", "quarantined", "lost"})

RunLive == {"requested", "preparing", "observing", "running", "finalizing"}

RunTerminal == {"completed", "failed", "quarantined", "lost"}

RunStates == RunLive \cup RunTerminal

RunTransitions ==
    {<<"requested", "preparing">>, <<"preparing", "observing">>,
     <<"observing", "running">>, <<"running", "finalizing">>,
     <<"finalizing", "completed">>}
    \cup (RunLive \X {"failed", "quarantined", "lost"})

ExecLive == {"requested", "starting", "running"}

ExecTerminal == {"completed", "failed", "cancelled", "lost"}

ExecStates == ExecLive \cup ExecTerminal

ExecTransitions ==
    {<<"requested", "starting">>, <<"starting", "running">>,
     <<"running", "completed">>}
    \cup (ExecLive \X {"cancelled", "failed", "lost"})

OperationLive == {"requested", "running"}

OperationTerminal == {"completed", "failed", "cancelled", "lost"}

OperationStates == OperationLive \cup OperationTerminal

OperationTransitions ==
    {<<"requested", "running">>, <<"running", "completed">>}
    \cup (OperationLive \X {"failed", "cancelled", "lost"})

IncidentStates == {"open", "evidence_sealed", "recovering", "resolved"}

IncidentTransitions ==
    {<<"open", "evidence_sealed">>, <<"evidence_sealed", "recovering">>,
     <<"evidence_sealed", "resolved">>, <<"recovering", "resolved">>}
=============================================================================
