------------------------------ MODULE LiveSnapshot ----------------------------
(***************************************************************************)
(* The live view of the observations (internal/observation and             *)
(* internal/orchestration/observations.go).  Records are appended to the   *)
(* ledger; GetLiveSnapshot reduces the ones in the scope of its filter to  *)
(* the current topology and the latest state of each subject, and a client *)
(* continues from the snapshot's cursor with SubscribeObservations, which  *)
(* delivers the records in scope and names what it had to skip.  A view is *)
(* five maps, written as sets of records that hold one per key.            *)
(***************************************************************************)
EXTENDS Naturals, Sequences, FiniteSets

CONSTANTS
    SubjectIDs, LeaseIDs, Families,
    MaxCursor,      \* bound on the records of the ledger
    Buffer          \* records a subscription holds for its client

VARIABLES
    scope,          \* what the view covers: see InScope
    cursor,         \* the head of the ledger
    view,           \* the reduction of the records in scope
    lost,           \* a record of the scope does not reduce
    client,         \* the client's own view, kept up from the stream
    stream,         \* records on their way to it
    gapped          \* it has been told of a gap and must take a new snapshot

snapshotVars == <<scope, cursor, view, lost, client, stream, gapped>>

None == "none"
Targets == {"t1", "t2"}

\* newSnapshot
Empty == [subjects |-> {}, metrics |-> {}, coverage |-> {}, incidents |-> {}, pressure |-> {}]

\* A record of the ledger, as snapshotEvent maps it.  The reducer knows events
\* that no record stands for: the removals.
Events ==
    [kind : {"control", "upsert", "remove", "metric", "coverage", "incident", "incidentRemove",
             "pressure", "pressureRemove"},
     lease : LeaseIDs, target : Targets, family : Families,
     subject : SubjectIDs \cup {None}, parent : SubjectIDs \cup {None}]

-------------------------------------------------------------------------------
(* The reducer.                                                            *)

IDs(v) == {s.id : s \in v.subjects}
Node(v, id) == CHOOSE s \in v.subjects : s.id = id

\* requireSubject
Known(v, id, lease) == \E s \in v.subjects : s.id = id /\ s.lease = lease

\* The walk of validateSubjectUpsert from a subject to its root.
RECURSIVE Chain(_, _)
Chain(v, id) ==
    IF id = None \/ id \notin IDs(v) THEN {} ELSE {id} \cup Chain(v, Node(v, id).parent)

\* Faulty variant: any known parent will do.
UpsertAllowedUnwalked(v, e) ==
    /\ e.subject # None
    /\ \A s \in v.subjects : s.id = e.subject => s.lease = e.lease
    /\ e.parent = None \/ (Known(v, e.parent, e.lease) /\ e.parent # e.subject)

\* validateSubjectUpsert
UpsertAllowed(v, e) ==
    /\ e.subject # None
    /\ \A s \in v.subjects : s.id = e.subject => s.lease = e.lease
    /\ e.parent = None \/ (Known(v, e.parent, e.lease) /\ e.subject \notin Chain(v, e.parent))

\* validateCoverage, validateIncident, validatePressure: without a subject, or
\* of one that is known.
OfSubject(v, e) == e.subject = None \/ Known(v, e.subject, e.lease)

\* validateEvent
Valid(v, e) ==
    CASE e.kind = "control"              -> TRUE
      [] e.kind = "upsert"               -> UpsertAllowed(v, e)
      [] e.kind \in {"remove", "metric"} -> Known(v, e.subject, e.lease)
      [] OTHER                           -> OfSubject(v, e)

\* The loop of removeSubjectTree: the removed subjects, grown by their children
\* until nothing changes.
RECURSIVE Removed(_, _)
Removed(v, gone) ==
    LET more == {s.id : s \in {x \in v.subjects : x.parent \in gone}} \ gone
    IN  IF more = {} THEN gone ELSE Removed(v, gone \cup more)

\* Incidents stay when their subject goes.
RemoveSubjectTree(v, root) ==
    LET gone == Removed(v, {root}) IN
    [v EXCEPT !.subjects = {s \in @ : s.id \notin gone},
              !.metrics  = {m \in @ : m.subject \notin gone},
              !.coverage = {c \in @ : c.subject \notin gone},
              !.pressure = {p \in @ : p.subject \notin gone}]

Item(e) == [subject |-> e.subject, lease |-> e.lease, family |-> e.family]
Put(set, e) == {x \in set : x.subject # e.subject} \cup {Item(e)}

\* Apply, of a valid event.  A coverage is of a family too; there is one metric
\* name, one resource and one incident.
Applied(v, e) ==
    CASE e.kind = "control"        -> v
      [] e.kind = "upsert"         ->
            [v EXCEPT !.subjects = {s \in @ : s.id # e.subject} \cup
                {[id |-> e.subject, parent |-> e.parent, lease |-> e.lease, family |-> e.family]}]
      [] e.kind = "remove"         -> RemoveSubjectTree(v, e.subject)
      [] e.kind = "metric"         -> [v EXCEPT !.metrics = Put(@, e)]
      [] e.kind = "coverage"       ->
            [v EXCEPT !.coverage = {c \in @ : ~(c.subject = e.subject /\ c.family = e.family)}
                                   \cup {Item(e)}]
      [] e.kind = "incident"       -> [v EXCEPT !.incidents = {Item(e)}]
      [] e.kind = "incidentRemove" -> [v EXCEPT !.incidents = {}]
      [] e.kind = "pressure"       -> [v EXCEPT !.pressure = Put(@, e)]
      [] e.kind = "pressureRemove" -> [v EXCEPT !.pressure = {p \in @ : p.subject # e.subject}]

-------------------------------------------------------------------------------
(* Project: what a reader may see who is allowed some leases and families. *)

Allows(auth, lease, family) == lease \in auth.leases /\ family \in auth.families

\* Faulty variant: one pass over the subjects.
VisibleOnce(subjects) ==
    {s \in subjects : s.parent = None \/ s.parent \in {x.id : x \in subjects}}

\* The loop over the allowed subjects: one whose parent is not visible goes.
RECURSIVE Visible(_)
Visible(subjects) ==
    LET ids == {s.id : s \in subjects}
        kept == {s \in subjects : s.parent = None \/ s.parent \in ids}
    IN  IF kept = subjects THEN subjects ELSE Visible(kept)

VisibleSubjects(v, auth) == Visible({s \in v.subjects : Allows(auth, s.lease, s.family)})

\* subjectVisible
Shown(set, subjects, auth) ==
    {x \in set : Allows(auth, x.lease, x.family)
                 /\ (x.subject = None \/ x.subject \in {s.id : s \in subjects})}

Project(v, auth) ==
    LET subjects == VisibleSubjects(v, auth) IN
    [subjects  |-> subjects,
     metrics   |-> Shown(v.metrics, subjects, auth),
     coverage  |-> Shown(v.coverage, subjects, auth),
     incidents |-> Shown(v.incidents, subjects, auth),
     pressure  |-> Shown(v.pressure, subjects, auth)]

Authorizations == [leases : SUBSET LeaseIDs, families : SUBSET Families]

-------------------------------------------------------------------------------
(* The service.                                                            *)

\* compileFilter and matchesScope: a lease and possibly a target.  The records
\* of the service's own state are never in scope.  "all" is the reducer alone.
InScope(e) ==
    \/ scope.lease = "all"
    \/ /\ e.kind # "control" /\ e.lease = scope.lease
       /\ scope.target \in {None, e.target}

\* matches: the filter may name subjects too, and the stream then carries only
\* their records ...
Matches(e) == InScope(e) /\ (scope.select = {} \/ e.subject \in scope.select)

\* ... as projectSnapshot shows only their state.
ProjectSnapshot(v) ==
    IF scope.select = {} THEN v ELSE
    [subjects  |-> {s \in v.subjects : s.id \in scope.select},
     metrics   |-> {x \in v.metrics : x.subject \in scope.select},
     coverage  |-> {x \in v.coverage : x.subject \in scope.select},
     incidents |-> {x \in v.incidents : x.subject \in scope.select},
     pressure  |-> {x \in v.pressure : x.subject \in scope.select}]

\* What a ledger record can be; its parent is only a topology record's.
Recordable(e) ==
    /\ e.parent # None => e.kind = "upsert"
    /\ e.kind \in {"upsert", "metric", "remove"} => e.subject # None
    /\ e.kind \in {"remove", "incidentRemove", "pressureRemove"} => scope.lease = "all"
    /\ e.kind = "control" => e.subject = None

\* Of the records alike in everything the scope tells apart, one is enough.
Representative(e) ==
    /\ scope.target = None => e.target = "t1"
    /\ scope.lease # "all" => e.lease = scope.lease
    /\ e.kind = "control" => e.family = CHOOSE f \in Families : TRUE
    /\ e.kind \in {"incidentRemove", "pressureRemove", "remove"} =>
           e.family = CHOOSE f \in Families : TRUE

Init ==
    /\ scope \in {[lease |-> "all", target |-> None, select |-> {}]}
                 \cup [lease : {CHOOSE l \in LeaseIDs : TRUE}, target : {None, "t1"},
                       select : {{}, {CHOOSE s \in SubjectIDs : TRUE}}]
    /\ scope.target = None \/ scope.select = {}
    /\ cursor = 0 /\ view = Empty /\ lost = FALSE
    /\ client = Empty /\ stream = <<>> /\ gapped = FALSE

\* Faulty variants: what a slow client cannot hold is dropped without a gap, or
\* held all the same.
EnqueueSilently(e) ==
    /\ stream' = IF Len(stream) < Buffer THEN Append(stream, e) ELSE stream
    /\ UNCHANGED gapped
EnqueueUnbounded(e) == stream' = Append(stream, e) /\ UNCHANGED gapped

\* The subscription of a slow client drops what it holds for a gap.
Enqueue(e) ==
    IF Len(stream) < Buffer
    THEN stream' = Append(stream, e) /\ UNCHANGED gapped
    ELSE stream' = <<>> /\ gapped' = TRUE

\* A record is appended.  GetLiveSnapshot sees it as a checkpoint when it is out
\* of scope; one that does not reduce makes every later snapshot of the scope
\* fail, and the model goes no further.
AppendRecord(e) ==
    /\ cursor < MaxCursor /\ ~lost /\ Recordable(e) /\ Representative(e)
    /\ cursor' = cursor + 1
    /\ IF InScope(e)
       THEN /\ lost' = ~Valid(view, e)
            /\ view' = IF lost' THEN view ELSE Applied(view, e)
            /\ IF scope.lease # "all" /\ Matches(e)
               THEN Enqueue(e) ELSE UNCHANGED <<stream, gapped>>
       ELSE UNCHANGED <<lost, view, stream, gapped>>
    /\ UNCHANGED <<scope, client>>

\* GetLiveSnapshot, then a subscription after its cursor.
GetLiveSnapshot ==
    /\ gapped /\ ~lost
    /\ client' = ProjectSnapshot(view) /\ stream' = <<>> /\ gapped' = FALSE
    /\ UNCHANGED <<scope, cursor, view, lost>>

\* SubscribeObservations delivers the next record in scope.
Deliver ==
    /\ stream # <<>>
    /\ client' = Applied(client, Head(stream))
    /\ stream' = Tail(stream)
    /\ UNCHANGED <<scope, cursor, view, lost, gapped>>

Settled == (cursor = MaxCursor \/ lost) /\ UNCHANGED snapshotVars

Next ==
    \/ \E e \in Events : AppendRecord(e)
    \/ GetLiveSnapshot
    \/ Deliver
    \/ Settled

Spec == Init /\ [][Next]_snapshotVars

-------------------------------------------------------------------------------

TypeOK ==
    /\ cursor \in 0..MaxCursor /\ lost \in BOOLEAN /\ gapped \in BOOLEAN
    /\ stream \in Seq(Events) /\ Len(stream) <= Buffer

(* A view is whole: its topology is a forest within one lease, and every   *)
(* metric, coverage and pressure is of a subject it holds (reducer.go).    *)
Whole(v) ==
    /\ \A s \in v.subjects : s.parent # None =>
          /\ Known(v, s.parent, s.lease)
          /\ \E root \in v.subjects : root.parent = None /\ root.id \in Chain(v, s.parent)
    /\ \A x \in v.metrics \cup v.coverage \cup v.pressure :
          x.subject # None => Known(v, x.subject, x.lease)

SnapshotIsWhole == Whole(view)

(* Project shows exactly the subjects whose whole ancestry is allowed, and *)
(* of the rest what is allowed and about one of them (projection.go).      *)
ProjectionIsExact ==
    \A auth \in Authorizations :
        LET p == Project(view, auth) IN
        /\ p.subjects = {s \in view.subjects :
                            \A id \in Chain(view, s.id) :
                                Allows(auth, Node(view, id).lease, Node(view, id).family)}
        /\ Whole(p)

(* A client that takes a snapshot, continues from its cursor and takes a   *)
(* new one after a gap has the view of the ledger once it has read the     *)
(* stream (docs/design.md:1112-1114).  Incidents are left out when the     *)
(* filter names subjects: an incident that moves to another subject stays  *)
(* with the client, for the filtered stream does not say that it moved.    *)
ClientCatchesUp ==
    (scope.lease # "all" /\ stream = <<>> /\ ~gapped /\ ~lost) =>
        LET shown == ProjectSnapshot(view) IN
        /\ scope.select = {} => client = shown
        /\ [client EXCEPT !.incidents = {}] = [shown EXCEPT !.incidents = {}]
===============================================================================
