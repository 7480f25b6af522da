--------------------------- MODULE EmulatorBackend ---------------------------
(***************************************************************************)
(* The managed Android emulator backend: what one generation's emulator    *)
(* leaves on the host and what the backend concludes from it.  An emulator *)
(* is a record                                                             *)
(*   avd     the AVD of its runtime name: its directory, ini file and list *)
(*           entry together are "whole", anything less is "partial";       *)
(*   data    the generation's data partition: the sealed backing image and *)
(*           the overlay that the first boot adds;                         *)
(*   launch  how far the launch artifacts go: the immutable launch intent, *)
(*           then the PID file QEMU writes, then the ownership record;     *)
(*   proc    the host process: the launcher, then QEMU;                    *)
(*   rec     the backend's in-memory process record, lost with the daemon: *)
(*           "launched" knows a launcher and no QEMU process, "owned" holds *)
(*           the QEMU process, "stopped" stands for a proof of absence.    *)
(* The artifacts appear in the order of launch only, because Start writes  *)
(* the intent before it starts anything and takes it back when nothing was *)
(* started.  A refusal or a deadline is a choice of the caller: the        *)
(* operators below give what the host then looks like.                     *)
(***************************************************************************)

NoEmulator == [avd |-> "none", data |-> "none", launch |-> "none", proc |-> "none",
               rec |-> "nil"]

Emulators ==
    [avd : {"none", "partial", "whole"}, data : {"none", "sealed", "overlay"},
     launch : {"none", "intent", "pid", "owned"}, proc : {"none", "launcher", "qemu"},
     rec : {"nil", "launched", "owned", "stopped"}]

\* inspectExactManagedAVD: any trace of the AVD occupies its name, and only a
\* complete one, bound by its ini file, is ever configured or adopted.
Present(e) == e.avd # "none"
Complete(e) == e.avd = "whole"

-----------------------------------------------------------------------------
(* Create: the AVD, then the data image                                    *)

CreatedAVD(e) == [e EXCEPT !.avd = "whole"]

\* A failing avdmanager leaves what it had made.
AbandonedAVD(e) == {[e EXCEPT !.avd = a] : a \in {"none", "partial", "whole"}}

CreatedData(e) == [e EXCEPT !.data = "sealed"]

\* A failing formatter removes its own files; the AVD goes too unless the
\* deadline that ended the formatter also ends its deletion.
AbandonedData(e) == {[e EXCEPT !.avd = a] : a \in {"none", "whole"}}

-----------------------------------------------------------------------------
(* Start: launch once, and hand over to a process that can be named        *)

\* Nothing may have been launched before: no record, no artifact, no overlay.
Startable(e) ==
    /\ Complete(e) /\ e.rec = "nil"
    /\ e.launch = "none" /\ e.data = "sealed"

NeverStarted(e) == [e EXCEPT !.rec = "stopped"]
LaunchIntended(e) == [e EXCEPT !.launch = "intent"]
LaunchAbandoned(e) == [e EXCEPT !.launch = "none", !.rec = "stopped"]
Launched(e) == [e EXCEPT !.proc = "launcher", !.rec = "launched"]

\* adoptManagedHostProcess: a live QEMU process behind the PID file becomes the
\* owned one, durably.
Adoptable(e) == e.launch \in {"pid", "owned"} /\ e.proc = "qemu"
AdoptedProcess(e) == [e EXCEPT !.launch = "owned", !.rec = "owned"]

\* requireManagedProcessRecord: the record in memory, else one rebuilt from the
\* ownership file or from a PID file whose process still lives.  A launch that
\* named no surviving process cannot be told from one that did.
Known(e) ==
    \/ e.rec # "nil"
    \/ e.launch = "owned" /\ e.data = "overlay"
    \/ Adoptable(e)
Recalled(e) ==
    CASE e.rec # "nil"      -> e
      [] Adoptable(e)       -> AdoptedProcess(e)
      [] OTHER              -> [e EXCEPT !.rec = "stopped"]

\* WaitReady and Inspect succeed for a known process that runs.
Observable(e) == Complete(e) /\ Known(e) /\ Recalled(e).rec = "owned" /\ e.proc = "qemu"

-----------------------------------------------------------------------------
(* Stop, Destroy and the proofs of absence                                 *)

\* forceStopManagedProcessWithin adopts what it can, then kills the process
\* and the launcher.
Killed(e) ==
    LET known == IF e.rec = "launched" /\ Adoptable(e) THEN AdoptedProcess(e) ELSE e
    IN  [known EXCEPT !.proc = "none"]

\* waitStopped seals absence only for a process that was owned, or that never
\* started: a launcher that ended without a named successor stays unresolved.
ProvablyStopped(e) == e.proc = "none" /\ e.rec \in {"owned", "stopped"}

\* deleteExactManagedAVD, interrupted or not.
WithoutAVD(e) == [e EXCEPT !.avd = "none"]
PartlyDeletedAVD(e) == [e EXCEPT !.avd = "partial"]

\* The end of Destroy: the data image, the record and the state directory,
\* which holds the launch artifacts.
Destroyed(e) == [NoEmulator EXCEPT !.avd = e.avd]

\* inspectAndRememberStopped: a whole AVD, no endpoint and an ownership record
\* whose process is gone.
StoppedProvable(e) ==
    /\ Complete(e) /\ e.proc = "none"
    /\ e.launch = "owned" /\ e.data = "overlay"

-----------------------------------------------------------------------------
(* ResumeUnstarted: recreate what was configured and never launched        *)

Resumable(e) == e.rec = "nil" /\ Present(e) /\ e.data # "overlay" /\ e.proc = "none"
Unconfigured(e) == [e EXCEPT !.avd = "none", !.data = "none"]

-----------------------------------------------------------------------------
(* What the host does by itself                                            *)

\* QEMU replaces the launcher, opens the overlay and writes its PID.
Booted(e) == [e EXCEPT !.proc = "qemu", !.launch = "pid", !.data = "overlay"]
Exited(e) == [e EXCEPT !.proc = "none"]
Forgotten(e) == [e EXCEPT !.rec = "nil"]
===============================================================================
