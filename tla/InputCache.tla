------------------------------- MODULE InputCache ------------------------------
(***************************************************************************)
(* The input cache (internal/inputcache): verified content by digest, and  *)
(* read-only views built out of it, each build single-flight by its key;   *)
(* pins that protect a view; and Collect, which enforces retention and the *)
(* watermarks with every other operation locked out.  A view is the set of *)
(* contents it holds.  Files outlive the process, builds do not.           *)
(***************************************************************************)
EXTENDS Naturals, FiniteSets, FiniteSetsExt

CONSTANTS
    Callers,
    Contents, Views,        \* Views \subseteq SUBSET Contents
    High, Low,              \* the watermarks
    MaxCrashes, MaxFaults

VARIABLES
    content,        \* digests published
    views,          \* of each view: absent, whole, damaged, or partly removed
    expired,        \* views older than the retention
    staging,        \* size of what crashed builds left in the staging directory
    pins, saved,    \* views pinned: in memory, and in pins.json
    callers,        \* the operations under way, under the read lock
    builds,         \* who builds a content, and who a view
    collect,        \* Collect, under the write lock
    crashes, faults

fileVars == <<content, views, expired, staging>>
pinVars == <<pins, saved>>
cacheVars == <<fileVars, pinVars, callers, builds, collect, crashes, faults>>

Idle == [pc |-> "idle", view |-> {}, todo |-> {}, want |-> {}]
NoOne == [on |-> FALSE, by |-> {}]
NotCollecting == [pc |-> "idle", pinned |-> {}, current |-> 0]
Keys == Contents \cup Views

Init ==
    /\ content = {} /\ views = [v \in Views |-> "absent"] /\ expired = {} /\ staging = 0
    /\ pins = {} /\ saved = {}
    /\ callers = [c \in Callers |-> Idle]
    /\ builds = [k \in Keys |-> NoOne]
    /\ collect = NotCollecting
    /\ crashes = 0 /\ faults = 0

Well == UNCHANGED faults
Fault == faults < MaxFaults /\ faults' = faults + 1

Present == { v \in Views : views[v] # "absent" }

\* treeSize
Size(v) == Cardinality(v)

\* stats walks all that is there, the staging directory included.
Usage == Cardinality(content) + MapThenSumSet(Size, Present) + staging

-------------------------------------------------------------------------------
(* Builds.                                                                 *)

Goes(c, pc) == callers' = [callers EXCEPT ![c].pc = pc]

\* A caller takes the read lock: no Collect is under way.
BuildView(c, v) ==
    /\ callers[c] = Idle /\ collect.pc = "idle"
    /\ callers' = [callers EXCEPT ![c] = [pc |-> "view", view |-> v, todo |-> v, want |-> {}]]
    /\ Well /\ UNCHANGED <<fileVars, pinVars, builds, collect, crashes>>

\* runPathBuild: the caller joins the build of the key, or owns it.
RunPathBuild(c, k, joined, owned) ==
    IF builds[k].on
    THEN /\ callers' = [callers EXCEPT ![c].pc = joined, ![c].want = {k}]
         /\ builds' = [builds EXCEPT ![k].by = @ \cup {c}]
    ELSE /\ callers' = [callers EXCEPT ![c].pc = owned, ![c].want = {k}]
         /\ builds' = [builds EXCEPT ![k] = [on |-> TRUE, by |-> {}]]

JoinView(c) ==
    /\ callers[c].pc = "view"
    /\ RunPathBuild(c, callers[c].view, "joined view", "check")
    /\ Well /\ UNCHANGED <<fileVars, pinVars, collect, crashes>>

\* What the result of a build makes of a caller of it.
Result(caller, k, ok) ==
    CASE k \in Views -> Idle
      [] ok         -> [caller EXCEPT !.pc = "entry", !.todo = @ \ {k}]
      [] OTHER      -> [caller EXCEPT !.pc = "failed"]

\* Faulty variant: the result reaches the owner alone.
CloseBuildAlone(c, k, ok) ==
    /\ callers' = [callers EXCEPT ![c] = Result(@, k, ok)]
    /\ builds' = [builds EXCEPT ![k] = NoOne]

\* The owner c ends its build; those who joined it return with its result, the
\* owner's cancellation included.
CloseBuild(c, k, ok) ==
    /\ callers' = [b \in Callers |-> IF b \in builds[k].by \cup {c}
                                    THEN Result(callers[b], k, ok) ELSE callers[b]]
    /\ builds' = [builds EXCEPT ![k] = NoOne]

ReturnsView(c) == CloseBuild(c, callers[c].view, TRUE)

\* validView
ValidView(v) == views[v] = "whole"

\* buildView reuses a valid view, refreshing its age, and removes another.
CheckView(c) ==
    LET v == callers[c].view IN
    /\ callers[c].pc = "check"
    /\ \/ /\ ValidView(v) /\ expired' = expired \ {v} /\ UNCHANGED views
          /\ ReturnsView(c)
       \/ /\ ~ValidView(v) /\ UNCHANGED expired
          /\ IF views[v] = "absent"
             THEN Goes(c, "entry") /\ UNCHANGED <<views, builds>>
             ELSE Goes(c, "remove") /\ views' = [views EXCEPT ![v] = "partial"] /\ UNCHANGED builds
    /\ Well /\ UNCHANGED <<content, staging, pinVars, collect, crashes>>

\* removeCacheTree removes file after file.
RemoveInvalid(c) ==
    /\ callers[c].pc = "remove"
    /\ views' = [views EXCEPT ![callers[c].view] = "absent"] /\ Goes(c, "entry")
    /\ Well /\ UNCHANGED <<content, expired, staging, pinVars, builds, collect, crashes>>

\* ensureContent of the next entry, or the publication of the view.
NextEntry(c) ==
    /\ callers[c].pc = "entry"
    /\ \/ \E d \in callers[c].todo : RunPathBuild(c, d, "joined content", "content")
       \/ callers[c].todo = {} /\ Goes(c, "publish") /\ UNCHANGED builds
    /\ Well /\ UNCHANGED <<fileVars, pinVars, collect, crashes>>

\* validHit, then populate: the content is staged, verified and renamed.  Each
\* caller validates it again and copies it into its view.
Populate(c) ==
    LET d == CHOOSE e \in callers[c].want : TRUE IN
    /\ callers[c].pc = "content"
    /\ \/ /\ content' = content \cup {d} /\ Well
          /\ CloseBuild(c, d, TRUE)
       \/ /\ d \notin content /\ UNCHANGED content /\ Fault
          /\ CloseBuild(c, d, FALSE)
    /\ UNCHANGED <<views, expired, staging, pinVars, collect, crashes>>

\* A caller that gives up waiting does not stop the build.
Abandon(c) ==
    /\ callers[c].pc \in {"joined view", "joined content"} /\ Fault
    /\ builds' = [k \in Keys |-> [builds[k] EXCEPT !.by = @ \ {c}]]
    /\ callers' = [callers EXCEPT ![c] =
                     IF @.pc = "joined view" THEN Idle ELSE [@ EXCEPT !.pc = "failed"]]
    /\ UNCHANGED <<fileVars, pinVars, collect, crashes>>

\* buildView returns its error and removes its staging directory.
BuildFails(c) ==
    /\ callers[c].pc = "failed"
    /\ ReturnsView(c)
    /\ Well /\ UNCHANGED <<fileVars, pinVars, collect, crashes>>

\* The staged view is renamed into its place with its manifest.
PublishView(c) ==
    /\ callers[c].pc = "publish"
    /\ views' = [views EXCEPT ![callers[c].view] = "whole"]
    /\ expired' = expired \ {callers[c].view}
    /\ ReturnsView(c)
    /\ Well /\ UNCHANGED <<content, staging, pinVars, collect, crashes>>

-------------------------------------------------------------------------------
(* Pins: memory changes first, then pins.json, which may fail.             *)

SavePins == \/ saved' = pins' /\ Well
            \/ UNCHANGED saved /\ Fault

\* Faulty variant: Pin does not take the operations lock.
PinUnlocked(v) ==
    /\ ValidView(v)
    /\ pins' = pins \cup {v} /\ SavePins
    /\ UNCHANGED <<fileVars, callers, builds, collect, crashes>>

Pin(v) ==
    /\ collect.pc = "idle" /\ ValidView(v)
    /\ pins' = pins \cup {v} /\ SavePins
    /\ UNCHANGED <<fileVars, callers, builds, collect, crashes>>

Release(v) ==
    /\ collect.pc = "idle" /\ v \in pins
    /\ pins' = pins \ {v} /\ SavePins
    /\ UNCHANGED <<fileVars, callers, builds, collect, crashes>>

-------------------------------------------------------------------------------
(* Collect.                                                                *)

\* A waiting writer holds up later readers.
CollectCalled ==
    /\ collect.pc = "idle"
    /\ collect' = [NotCollecting EXCEPT !.pc = "waiting"]
    /\ Well /\ UNCHANGED <<fileVars, pinVars, callers, builds, crashes>>

\* The write lock waits for every caller.
CollectBegins ==
    /\ collect.pc = "waiting" /\ \A c \in Callers : callers[c] = Idle
    /\ collect' = [pc |-> "views", pinned |-> pins, current |-> Usage]
    /\ Well /\ UNCHANGED <<fileVars, pinVars, callers, builds, crashes>>

\* Oldest first: the expired views, then, above the high watermark, the others.
Candidates ==
    LET free == { v \in Present : v \notin collect.pinned }
        old == free \cap expired IN
    IF old # {} THEN old ELSE IF collect.current > High THEN free ELSE {}

Less(n, m) == IF n > m THEN n - m ELSE 0

\* removeCacheTree may fail halfway; the break below the low watermark.
RemoveView ==
    /\ collect.pc = "views"
    /\ \E v \in Candidates :
         LET now == Less(collect.current, Size(v)) IN
         /\ expired' = expired \ {v}
         /\ \/ /\ views' = [views EXCEPT ![v] = "absent"] /\ Well
               /\ collect' = [collect EXCEPT !.current = now,
                                !.pc = IF now <= Low /\ v \notin expired THEN "refer" ELSE "views"]
            \/ /\ views' = [views EXCEPT ![v] = "partial"] /\ Fault
               /\ collect' = NotCollecting
    /\ UNCHANGED <<content, staging, pinVars, callers, builds, crashes>>

ViewsDone ==
    /\ collect.pc = "views" /\ Candidates = {}
    /\ collect' = [collect EXCEPT !.pc = "refer"]
    /\ Well /\ UNCHANGED <<fileVars, pinVars, callers, builds, crashes>>

\* Faulty variant: only pinned views count as references.
ReferencedByPins == { d \in Contents : \E v \in Present \cap collect.pinned : d \in v }

\* referencedDigests reads the manifest of every view that is left.
Referenced == { d \in Contents : \E v \in Present : d \in v }

\* contentCandidates
Removable == content \ Referenced

\* A view without its manifest fails the collection.
Refer ==
    /\ collect.pc = "refer"
    /\ IF \E v \in Views : views[v] = "partial"
       THEN collect' = NotCollecting
       ELSE collect' = [collect EXCEPT !.pc = "content"]
    /\ Well /\ UNCHANGED <<fileVars, pinVars, callers, builds, crashes>>

\* Content no view refers to goes when it has expired or the cache is too full.
RemoveContent ==
    /\ collect.pc = "content"
    /\ \/ \E d \in Removable :
            LET now == Less(collect.current, 1) IN
            /\ content' = content \ {d}
            /\ collect' = IF now <= Low THEN NotCollecting ELSE [collect EXCEPT !.current = now]
       \/ /\ collect.current <= High \/ Removable = {}
          /\ UNCHANGED content /\ collect' = NotCollecting
    /\ Well /\ UNCHANGED <<views, expired, staging, pinVars, callers, builds, crashes>>

-------------------------------------------------------------------------------
(* What happens around the cache.                                          *)

Expire(v) ==
    /\ v \in Present \ expired /\ expired' = expired \cup {v}
    /\ UNCHANGED <<content, views, staging, pinVars, callers, builds, collect, crashes, faults>>

\* A file of a view is lost or altered.
Damage(v) ==
    /\ views[v] = "whole" /\ views' = [views EXCEPT ![v] = "damaged"] /\ Fault
    /\ UNCHANGED <<content, expired, staging, pinVars, callers, builds, collect, crashes>>

\* The process stops: a build leaves its staging directory, a removal a view
\* without its manifest; loadPins reads pins.json.
Crash ==
    /\ crashes < MaxCrashes /\ crashes' = crashes + 1
    /\ \/ /\ \E c \in Callers : callers[c].pc \in {"entry", "content", "joined content", "publish", "failed"}
          /\ staging' = 1 /\ UNCHANGED <<views, expired>>
       \/ /\ collect.pc = "views" /\ UNCHANGED staging
          /\ \E v \in Candidates :
               views' = [views EXCEPT ![v] = "partial"] /\ expired' = expired \ {v}
       \/ UNCHANGED <<views, expired, staging>>
    /\ pins' = saved
    /\ callers' = [c \in Callers |-> Idle] /\ builds' = [k \in Keys |-> NoOne]
    /\ collect' = NotCollecting
    /\ UNCHANGED <<content, saved, faults>>

Building(c) ==
    \/ JoinView(c) \/ CheckView(c) \/ RemoveInvalid(c) \/ NextEntry(c)
    \/ Populate(c) \/ BuildFails(c) \/ PublishView(c)
Collecting == CollectCalled \/ CollectBegins \/ RemoveView \/ ViewsDone \/ Refer \/ RemoveContent

Next ==
    \/ \E c \in Callers : (\E v \in Views : BuildView(c, v)) \/ Building(c) \/ Abandon(c)
    \/ \E v \in Views : Pin(v) \/ Release(v) \/ Expire(v) \/ Damage(v)
    \/ Collecting
    \/ Crash

Spec == Init /\ [][Next]_cacheVars

(* Goroutines go on, Collect is called again and again, time passes.       *)
Fairness ==
    /\ \A c \in Callers : WF_cacheVars(Building(c))
    /\ WF_cacheVars(Collecting)
    /\ \A v \in Views : WF_cacheVars(Expire(v))

-------------------------------------------------------------------------------

TypeOK ==
    /\ content \subseteq Contents /\ views \in [Views -> {"absent", "whole", "damaged", "partial"}]
    /\ expired \subseteq Views /\ staging \in 0..1
    /\ pins \subseteq Views /\ saved \subseteq Views
    /\ collect.pc \in {"idle", "waiting", "views", "refer", "content"}

(* "Pins and in-flight operations are protected by the operations lock"    *)
(* (gc.go:82-83): no step of Collect or of a build takes a whole view that *)
(* is pinned, nor content that a view which is left refers to.             *)
KeepsPinned ==
    /\ \A v \in Views : views[v] = "whole" /\ views'[v] \in {"absent", "partial"} => v \notin pins
    /\ \A d \in content \ content' : \A v \in Views : d \in v => views[v] # "whole"
PinnedStaysWhole == [][KeepsPinned]_cacheVars

(* Every caller of BuildView returns: the ones that join a build are woken *)
(* by its owner (runPathBuild).                                            *)
BuildReturns ==
    \A c \in Callers : (callers[c] # Idle) ~> (callers[c] = Idle)

(* A view that a crash left without its manifest stops every Collect only  *)
(* until it expires, unless it is pinned, when nothing but its release or  *)
(* a rebuild helps (gc.go referencedDigests).                              *)
CollectRecovers ==
    \A v \in Views : (views[v] = "partial") ~> (views[v] # "partial" \/ v \in pins)
===============================================================================
