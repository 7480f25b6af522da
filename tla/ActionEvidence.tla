---------------------------- MODULE ActionEvidence ----------------------------
(***************************************************************************)
(* The evidence of one action (internal/research): the service begins a    *)
(* session before it runs a command and seals it afterwards.  Companion    *)
(* collectors are chosen from the stimulus class and the observation       *)
(* level.  A startable collector, such as a packet capture, runs between   *)
(* the two; a watchdog or the seal stops it.  The sealed bundle lists which *)
(* evidence roles are present and a gap for the others.                    *)
(*                                                                         *)
(* What a collector brings back is one of                                  *)
(*   "none"       nothing: it was not asked, it failed or its snapshot     *)
(*                says why there is nothing;                               *)
(*   "ambient"    a snapshot not tied to the action's process;             *)
(*   "attributed" a snapshot of the action's own process or files.         *)
(***************************************************************************)
EXTENDS Naturals, FiniteSets

CONSTANTS Classes,      \* stimulus classes the action may have
          Profiles,     \* observation profiles that may be named
          MaxFaults,    \* bound on failed writes
          MaxCrashes    \* bound on crashes of the daemon

VARIABLES class, level, \* the action's class and level
          pid,          \* whether the process lifecycle names a process
          disk,         \* the files of the action's directory
          open,         \* whether the store holds the session
          session,      \* the evidence and gaps the session has gathered
          pc,           \* where the caller is: Begin, the command, Seal
          capture,      \* the startable collector's process, and one a crash left behind
          stopping,     \* who has taken startablesStopped
          watchdog,     \* whether the watchdog timer is armed
          faults, crashes

evidenceVars == <<class, level, pid, disk, open, session, pc, capture, stopping, watchdog,
                  faults, crashes>>

Sources == {"host", "network", "network_decode", "state", "host_syscall", "static_context",
            "target_oracle", "replay", "process_lifecycle"}
Roles == {"stimulus", "raw", "semantic", "causal", "static", "target_oracle", "state_diff", "replay"}
Snapshots == {"none", "ambient", "attributed"}

\* The level granted: a payload profile needs the allowance and is otherwise
\* kept at the baseline, even with an escalation.  The service itself asks for
\* no profile.
ResolveObservationLevel(escalate, profile, allowPayload) ==
    CASE profile \in {"payload", "invasive"} -> IF allowPayload THEN "payload" ELSE "baseline"
      [] escalate \/ profile \in {"deep", "escalate"} -> "deep"
      [] OTHER -> "baseline"

\* IntendedCompanions
Rank(l) == CASE l = "baseline" -> 1 [] l = "deep" -> 2 [] l = "payload" -> 3
AtLeast(l) == Rank(level) >= Rank(l)
OfClass ==
    CASE class = "http_client" -> {"network_capture", "network_decode"}
      [] class = "browser"     -> {"network_capture", "network_decode", "target_oracle"}
      [] class = "binary_exec" -> {"host_syscall", "static_context"}
      [] OTHER                 -> {}
Intended ==
    {"host_process"} \cup OfClass
    \cup (IF AtLeast("deep") THEN {"state_diff", "host_syscall"} ELSE {})
    \cup (IF AtLeast("payload") THEN {"replay", "target_oracle"} ELSE {})

\* BuildCollectors: the capture tools that span the action.
Startable == Intended \cap {"network_capture", "host_syscall"} # {}

\* BuildRoleChecklistForAction
RoleOf(companion) ==
    CASE companion \in {"host_process", "host_syscall"}          -> "causal"
      [] companion \in {"network_capture", "network_decode"}     -> "semantic"
      [] companion = "state_diff"                                -> "state_diff"
      [] companion = "static_context"                            -> "static"
      [] companion = "target_oracle"                             -> "target_oracle"
      [] companion = "replay"                                    -> "replay"
IntendedRoles == {"stimulus", "raw", "causal"} \cup {RoleOf(c) : c \in Intended}
Checklist(present) ==
    [r \in Roles |-> IF r \in present THEN "present"
                     ELSE IF r \in IntendedRoles THEN "gap" ELSE "unsupported"]

\* DeriveConfidenceFloor: the ladder stops at the first rung without evidence.
Rungs == <<{"stimulus"}, {"raw"}, {"causal"}, {"semantic"}, {"state_diff", "target_oracle"},
           {"replay"}, {"static"}>>
Confidence(roles) ==
    LET climbs(n) == \A i \in 1..n : \E r \in Rungs[i] : roles[r] = "present"
    IN CHOOSE n \in 0..7 : climbs(n) /\ (n = 7 \/ ~climbs(n + 1))

\* The role a gap of a source is recorded for.
GapRole(source) ==
    CASE source \in {"host", "host_syscall", "process_lifecycle"} -> "causal"
      [] source \in {"network", "network_decode"}                 -> "semantic"
      [] source = "state"                                         -> "state_diff"
      [] source = "static_context"                                -> "static"
      [] source = "target_oracle"                                 -> "target_oracle"
      [] source = "replay"                                        -> "replay"

NoSummary == [sealed |-> FALSE, roles |-> [r \in Roles |-> "unsupported"], gaps |-> {}]
EmptyDisk == [action |-> "none", gaps |-> {}, summary |-> NoSummary, abandoned |-> FALSE,
              failed |-> FALSE, files |-> [s \in Sources |-> "none"]]
EmptySession == [got |-> [s \in Sources |-> "none"], gaps |-> {}]

Init ==
    /\ class \in Classes /\ pid \in BOOLEAN
    /\ \E profile \in Profiles : level = ResolveObservationLevel(FALSE, profile, TRUE)
    /\ disk = EmptyDisk /\ open = FALSE /\ session = EmptySession /\ pc = "idle"
    /\ capture = {} /\ stopping = "none" /\ watchdog = FALSE
    /\ faults = 0 /\ crashes = 0

TypeOK ==
    /\ level \in {"baseline", "deep", "payload"} /\ disk.action \in {"none", "begun", "sealed"} /\ disk.gaps \subseteq Sources
    /\ disk.files \in [Sources -> Snapshots] /\ session.got \in [Sources -> Snapshots]
    /\ session.gaps \subseteq Sources /\ disk.summary.gaps \subseteq Sources
    /\ pc \in {"idle", "starting", "capturing", "writing", "running", "streams", "host", "network",
               "decode", "state", "others", "roles", "document", "summary", "failing", "unwinding", "done"}
    /\ capture \in SUBSET {"running", "orphan"} /\ stopping \in {"none", "watchdog", "seal", "done"}

Well == UNCHANGED faults
Fault == faults < MaxFaults /\ faults' = faults + 1

Record(s, got) == [session EXCEPT !.got[s] = got]
Gap(ses, s) == [ses EXCEPT !.gaps = @ \cup {s}]
\* Faulty variant: only a snapshot that is there can have a gap.
KeptUnlessMissing(s, got) == IF got # "ambient" THEN Record(s, got) ELSE Gap(Record(s, got), s)

\* A snapshot kept, with a gap unless it is attributed.
Kept(s, got) == IF got = "attributed" THEN Record(s, got) ELSE Gap(Record(s, got), s)

-----------------------------------------------------------------------------
\* Begin, under the store's lock.

\* The action is refused when it is open, sealed or begun: then the service
\* records the failure and runs the command without a session.
BeginRefused ==
    /\ pc = "idle" /\ (open \/ disk.summary.sealed \/ disk.action # "none")
    /\ disk' = [disk EXCEPT !.failed = TRUE] /\ pc' = "done"
    /\ UNCHANGED <<class, level, pid, open, session, capture, stopping, watchdog, faults, crashes>>

BeginAction ==
    /\ pc = "idle" /\ ~open /\ ~disk.summary.sealed /\ disk.action = "none"
    /\ session' = EmptySession /\ pc' = "starting"
    /\ UNCHANGED <<class, level, pid, disk, open, capture, stopping, watchdog, faults, crashes>>

\* Start of each startable: a missing tool is remembered, never an error.
StartStartables ==
    /\ pc = "starting" /\ pc' = "capturing"
    /\ capture' \in IF Startable THEN {capture \cup {"running"}, capture} ELSE {capture}
    /\ UNCHANGED <<class, level, pid, disk, open, session, stopping, watchdog, faults, crashes>>

\* What each collector can bring back.
\* The host and the network of the collector's own machine, before the action.
HostBefore == {"none", "ambient"}
NetworkBefore == {"none", "ambient"}
\* The working directory, attributed when the collector shares it.
StateCapture == Snapshots
StaticContext == {"none", "attributed"}
\* The process is attributed when its identity is verified.
VerifiedProcess == IF pid THEN {"none", "attributed"} ELSE {"none"}
HostAfter == VerifiedProcess
\* The connections of the verified process are attributed, the packets alone are not.
NetworkAfter == {"none", "ambient"} \cup VerifiedProcess
\* Decode takes its attribution from the network index.
Decoded == IF session.got["network"] = "attributed" THEN {"none", "attributed"}
           ELSE {"none", "ambient"}
\* Diff of the two states: available when both are, attributed when both are.
Diff == IF session.got["state"] = "attributed" THEN {"none", "attributed"}
        ELSE IF session.got["state"] = "ambient" THEN {"none", "ambient"} ELSE {"none"}
Syscalls == VerifiedProcess
Oracle == {"none", "attributed"}
Replay == {"none", "attributed"}

\* The before-state, the host, the network and the static context are captured
\* and written; the first failed write fails Begin.
WantState == "state_diff" \in Intended \/ AtLeast("deep")
CaptureBefore ==
    /\ pc = "capturing"
    /\ \/ /\ Well /\ pc' = "writing"
          /\ \E before \in IF WantState THEN StateCapture ELSE {"none"},
                host \in HostBefore, network \in NetworkBefore,
                static \in IF "static_context" \in Intended THEN StaticContext ELSE {"none"} :
                /\ session' =
                     [got |-> [s \in Sources |->
                                 CASE s = "host" -> host [] s = "network" -> network
                                   [] s = "state" -> before [] s = "static_context" -> static
                                   [] OTHER -> "none"],
                      gaps |-> {"network"} \cup (IF host # "ambient" THEN {"host"} ELSE {})
                               \cup (IF WantState /\ before # "attributed" THEN {"state"} ELSE {})
                               \cup (IF "static_context" \in Intended /\ static # "attributed"
                                     THEN {"static_context"} ELSE {})]
                /\ disk' = [disk EXCEPT !.files =
                     [@ EXCEPT !["host"] = IF host = "none" THEN @ ELSE host,
                               !["network"] = IF network = "none" THEN @ ELSE network,
                               !["static_context"] = IF static = "attributed" THEN static ELSE @]]
       \/ Fault /\ pc' = "unwinding" /\ UNCHANGED <<session, disk>>
    /\ UNCHANGED <<class, level, pid, open, capture, stopping, watchdog, crashes>>

\* A failed Begin stops what it started, and leaves no action document.
Unwind ==
    /\ pc = "unwinding" /\ pc' = "done"
    /\ capture' = capture \ {"running"}
    /\ disk' = [disk EXCEPT !.failed = TRUE]
    /\ UNCHANGED <<class, level, pid, open, session, stopping, watchdog, faults, crashes>>

\* The action document makes the action begun, and the session is handed over.
WriteScaffold ==
    /\ pc = "writing"
    /\ \/ /\ disk' = [disk EXCEPT !.action = "begun", !.gaps = session.gaps]
          /\ open' = TRUE /\ watchdog' = Startable /\ pc' = "running" /\ Well
       \/ Fault /\ pc' = "unwinding" /\ UNCHANGED <<disk, open, watchdog>>
    /\ UNCHANGED <<class, level, pid, session, capture, stopping, crashes>>

-----------------------------------------------------------------------------
\* forceStopStartables: the first of the watchdog and the seal takes the flag
\* under its lock and stops the collectors after releasing it.

TakesStop(who) ==
    /\ stopping' = IF stopping = "none" THEN who ELSE stopping
    /\ watchdog' = FALSE

WatchdogFires ==
    /\ watchdog /\ stopping = "none" /\ TakesStop("watchdog")
    /\ UNCHANGED <<class, level, pid, disk, open, session, pc, capture, faults, crashes>>

StopCapture(who) ==
    /\ stopping = who
    /\ capture' = capture \ {"running"}
    /\ stopping' = "done"
    /\ UNCHANGED <<class, level, pid, disk, open, session, pc, watchdog, faults, crashes>>

-----------------------------------------------------------------------------
\* Seal, under the session's lock.

BeginSeal ==
    /\ pc = "running" /\ pc' = "streams"
    /\ UNCHANGED <<class, level, pid, disk, open, session, capture, stopping, watchdog, faults, crashes>>

SealFails == Fault /\ pc' = "failing"
Sealing(place, next, kept, file, got) ==
    /\ pc = place
    /\ \/ pc' = next /\ session' = kept /\ disk' = [disk EXCEPT !.files[file] = got] /\ Well
       \/ SealFails /\ session' = kept /\ UNCHANGED disk
    /\ UNCHANGED <<class, level, pid, open, capture, stopping, watchdog, crashes>>

SealStreams ==
    /\ pc = "streams"
    /\ \/ pc' = "host" /\ Well
       \/ SealFails
    /\ UNCHANGED <<class, level, pid, disk, open, session, capture, stopping, watchdog, crashes>>

\* The host snapshot is retaken when the process is known.  Without one the
\* ambient snapshot of Begin is kept.
SealHost ==
    \/ /\ pc = "host" /\ pc' = "network"
       /\ session' = IF pid THEN Gap(session, "host") ELSE session
       /\ UNCHANGED <<class, level, pid, disk, open, capture, stopping, watchdog, faults, crashes>>
    \/ /\ "attributed" \in HostAfter
       /\ Sealing("host", "network", Record("host", "attributed"), "host", "attributed")

\* reconcileNetworkGaps drops the gap Begin recorded for want of attribution.
NetworkKept(got) ==
    CASE got = "attributed"  -> [Record("network", got) EXCEPT !.gaps = @ \ {"network"}]
      [] OTHER               -> Gap(Record("network", got), "network")

\* CaptureAfter of the network stops the capture first.  It attributes the
\* connections of the verified process, never the packets alone.
SealNetwork ==
    \/ /\ pc = "network" /\ "network_capture" \notin Intended /\ pc' = "decode"
       /\ UNCHANGED <<class, level, pid, disk, open, session, capture, stopping, watchdog, faults, crashes>>
    \/ /\ pc = "network" /\ "network_capture" \in Intended
       /\ capture' = capture \ {"running"}
       /\ \/ /\ pc' = "decode" /\ Well
             /\ \E got \in NetworkAfter :
                   session' = NetworkKept(got) /\ disk' = [disk EXCEPT !.files["network"] = got]
          \/ pc' = "decode" /\ session' = Gap(session, "network") /\ Well /\ UNCHANGED disk
          \/ SealFails /\ UNCHANGED <<session, disk>>
       /\ UNCHANGED <<class, level, pid, open, stopping, watchdog, crashes>>

SealDecode ==
    \/ /\ pc = "decode" /\ "network_decode" \notin Intended /\ pc' = "state"
       /\ UNCHANGED <<class, level, pid, disk, open, session, capture, stopping, watchdog, faults, crashes>>
    \/ /\ "network_decode" \in Intended
       /\ pc = "decode" /\ pc' = "state"
       /\ \E got \in Decoded :
             /\ session' = Kept("network_decode", got)
             /\ disk' = [disk EXCEPT !.files["network_decode"] = got]
       /\ UNCHANGED <<class, level, pid, open, capture, stopping, watchdog, faults, crashes>>

SealState ==
    IF WantState
    THEN \E got \in Diff : Sealing("state", "others", Kept("state", got), "state", got)
    ELSE Sealing("state", "others", session, "state", "none")

\* The system calls, the oracle and the replay package, each with its gap.
Companion(companion, got) ==
    IF companion \in Intended THEN [got |-> got, gap |-> got # "attributed"]
    ELSE [got |-> "none", gap |-> FALSE]
SealOthers ==
    /\ pc = "others" /\ pc' = "roles"
    /\ \E calls \in Syscalls, oracle \in Oracle, replay \in Replay :
          LET a == Companion("host_syscall", calls)
              b == Companion("target_oracle", oracle)
              c == Companion("replay", replay)
              got(s) == CASE s = "host_syscall" -> a.got [] s = "target_oracle" -> b.got
                          [] s = "replay" -> c.got [] OTHER -> session.got[s]
          IN /\ session' = [got |-> [s \in Sources |-> got(s)],
                            gaps |-> session.gaps \cup (IF a.gap THEN {"host_syscall"} ELSE {})
                                     \cup (IF b.gap THEN {"target_oracle"} ELSE {})
                                     \cup (IF c.gap THEN {"replay"} ELSE {})]
             /\ disk' = [disk EXCEPT !.files = [s \in Sources |->
                           IF s \in {"host_syscall", "target_oracle", "replay"} THEN got(s) ELSE @[s]]]
    /\ UNCHANGED <<class, level, pid, open, capture, stopping, watchdog, faults, crashes>>

Attributed(s) == session.got[s] = "attributed"

\* Faulty variant: any network evidence counts as semantic.
PresentUnattributed ==
    {"stimulus", "raw"}
    \cup (IF pid \/ Attributed("host") THEN {"causal"} ELSE {})
    \cup (IF session.got["network"] \in {"ambient", "attributed"} THEN {"semantic"} ELSE {})

\* The roles that are present: evidence tied to the action, and the state diff
\* as it is on disk.
Present ==
    {"stimulus", "raw"}
    \cup (IF pid \/ Attributed("host") THEN {"causal"} ELSE {})
    \cup (IF Attributed("network") \/ Attributed("network_decode") THEN {"semantic"} ELSE {})
    \cup (IF disk.files["state"] = "attributed" THEN {"state_diff"} ELSE {})
    \cup (IF Attributed("static_context") THEN {"static"} ELSE {})
    \cup (IF Attributed("target_oracle") THEN {"target_oracle"} ELSE {})
    \cup (IF Attributed("replay") THEN {"replay"} ELSE {})

SealRoles ==
    /\ pc = "roles" /\ pc' = "document"
    /\ session' = IF "causal" \in Present THEN session ELSE Gap(session, "process_lifecycle")
    /\ UNCHANGED <<class, level, pid, disk, open, capture, stopping, watchdog, faults, crashes>>

WriteDocument ==
    /\ pc = "document"
    /\ \/ disk' = [disk EXCEPT !.action = "sealed", !.gaps = session.gaps] /\ pc' = "summary" /\ Well
       \/ SealFails /\ UNCHANGED disk
    /\ UNCHANGED <<class, level, pid, open, session, capture, stopping, watchdog, crashes>>

\* The summary seals the action, after which the deferred calls stop the
\* collectors and release the session.
WriteSummary ==
    /\ pc = "summary"
    /\ \/ /\ disk' = [disk EXCEPT !.summary = [sealed |-> TRUE, roles |-> Checklist(Present),
                                                gaps |-> session.gaps]]
          /\ TakesStop("seal") /\ open' = FALSE /\ session' = EmptySession /\ pc' = "done" /\ Well
       \/ SealFails /\ UNCHANGED <<disk, stopping, watchdog, open, session>>
    /\ UNCHANGED <<class, level, pid, capture, crashes>>

\* A failed seal stops the collectors, marks the action abandoned if it can and
\* releases the session.
AbandonSeal ==
    /\ pc = "failing" /\ pc' = "done" /\ TakesStop("seal") /\ open' = FALSE /\ session' = EmptySession
    /\ \/ disk' = [disk EXCEPT !.abandoned = TRUE] /\ Well
       \/ Fault /\ UNCHANGED disk
    /\ UNCHANGED <<class, level, pid, capture, crashes>>

-----------------------------------------------------------------------------
\* A crash of the daemon leaves its capture process behind.  A client that
\* repeats its request reaches Begin again.
Crash ==
    /\ crashes < MaxCrashes /\ pc \notin {"idle", "done"}
    /\ crashes' = crashes + 1
    /\ open' = FALSE /\ session' = EmptySession /\ pc' = "idle" /\ stopping' = "none"
    /\ watchdog' = FALSE
    /\ capture' = IF capture = {} THEN {} ELSE {"orphan"}
    /\ UNCHANGED <<class, level, pid, disk, faults>>

Settled ==
    /\ pc = "done" /\ stopping \in {"none", "done"} /\ UNCHANGED evidenceVars

Next ==
    \/ BeginRefused \/ BeginAction \/ StartStartables \/ CaptureBefore \/ Unwind \/ WriteScaffold
    \/ WatchdogFires \/ (\E who \in {"watchdog", "seal"} : StopCapture(who))
    \/ BeginSeal \/ SealStreams \/ SealHost \/ SealNetwork \/ SealDecode \/ SealState \/ SealOthers
    \/ SealRoles \/ WriteDocument \/ WriteSummary \/ AbandonSeal
    \/ Crash \/ Settled

\* The timer fires and the goroutine that took the flag goes on; nothing makes
\* the caller seal.
Fairness ==
    /\ WF_evidenceVars(StartStartables) /\ WF_evidenceVars(CaptureBefore)
    /\ WF_evidenceVars(Unwind) /\ WF_evidenceVars(WriteScaffold)
    /\ WF_evidenceVars(WatchdogFires)
    /\ WF_evidenceVars(\E who \in {"watchdog", "seal"} : StopCapture(who))

Spec == Init /\ [][Next]_evidenceVars

-----------------------------------------------------------------------------
\* What a reader is shown.

\* Get and List show an action once both of its documents are there.
Get == disk.action # "none" /\ disk.summary.sealed

\* QueryHost and its siblings: the file and the gaps of its source.
Query(s) == [got |-> disk.files[s],
             gaps |-> IF disk.files[s] = "none" THEN {s} ELSE disk.gaps \cap {s}]

\* EvidenceGraph joins the summary with the files.
EvidenceGraph ==
    [roles |-> disk.summary.roles, gaps |-> disk.gaps, got |-> [s \in Sources |-> Query(s).got],
     floor |-> Confidence(disk.summary.roles)]

\* A role the evidence graph calls present has its evidence beside it, tied to
\* the action, so no failed, ambient or outdated capture raises the confidence
\* floor.
RolesAreEarned ==
    Get =>
        LET g == EvidenceGraph
            semantic == \E s \in {"network", "network_decode"} : g.got[s] = "attributed"
        IN /\ g.roles["semantic"] = "present" => semantic
           /\ g.roles["causal"] = "present" => pid
           /\ g.roles["state_diff"] = "present" => g.got["state"] = "attributed"
           /\ g.roles["static"] = "present" => g.got["static_context"] = "attributed"
           /\ g.floor >= 4 => pid /\ semantic

\* Every intended role the evidence graph misses is explained by a gap, and the
\* document and the summary list the same gaps.
GapsAreRecorded ==
    Get =>
        /\ \A r \in Roles : EvidenceGraph.roles[r] = "gap" =>
              \E s \in EvidenceGraph.gaps : GapRole(s) = r
        /\ disk.action = "sealed" /\ disk.gaps = disk.summary.gaps

\* A sealed bundle is never changed, by a late watchdog or another Begin.
KeepsSealed ==
    disk.summary.sealed =>
        /\ disk'.summary = disk.summary /\ disk'.action = disk.action
        /\ disk'.gaps = disk.gaps /\ disk'.files = disk.files
SealedIsFinal == [][KeepsSealed]_evidenceVars

\* A capture process that the store started ends, sealed or not, unless the
\* daemon crashes under it.
CaptureEnds == ("running" \in capture) ~> ("running" \notin capture)
=============================================================================
