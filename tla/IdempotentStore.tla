-------------------------- MODULE IdempotentStore --------------------------
(***************************************************************************)
(* The path every mutation takes: a caller with an idempotency key, the    *)
(* mutex and the in-memory projection of application.Core, and the SQLite  *)
(* transaction of store.RunIdempotent, with the faults the store's         *)
(* FaultInjector marks, a crash between any two steps, and callers that    *)
(* retry with the same key.  SQLite itself (atomic, durable commit) is     *)
(* assumed.  Which aggregates a request touches and the revision it        *)
(* expects are inputs; what a handler decides beyond that is ControlCore.  *)
(***************************************************************************)
EXTENDS Naturals, Sequences, FiniteSets, FiniteSetsExt

CONSTANTS
    Callers,
    Plan,           \* the key and the request each caller (re)sends
    Keys,
    Aggregates,
    None,
    MaxFaults       \* bound on injected faults and crashes

\* A request: the aggregates it writes, in order, and the revision it expects
\* of the first of them.
Requests == {Plan[c].request : c \in Callers}

\* A row of the idempotency table, and a row of control_records.
Results == [request : Requests, response : Nat]
Records == [aggregate : Aggregates, key : Keys, revision : Nat]

ASSUME IdempotentStoreAssumption ==
    /\ \A c \in Callers : /\ Plan[c].key \in Keys
                          /\ Plan[c].request.expected \in Nat
                          /\ Plan[c].request.touches \in Seq(Aggregates)
                          /\ Plan[c].request.touches # <<>>
    /\ MaxFaults \in Nat
    /\ None \notin Callers /\ None \notin Results

VARIABLES
    journal,        \* control_records, in sequence order
    snapshots,      \* revision of the stored snapshot of each aggregate
    idempotency,    \* the idempotency table
    up,             \* the daemon runs
    lastSequence,   \* Core.lastSequence
    memory,         \* revision of each aggregate in Core's maps
    mutex,          \* the caller that holds Core.mu
    calls,          \* what each caller is doing
    answers,        \* answers given, a history variable
    faults          \* faults and crashes so far

storeVars == <<journal, snapshots, idempotency>>
coreVars == <<up, lastSequence, memory, mutex>>
vars == <<storeVars, coreVars, calls, answers, faults>>

\* Where a caller is, the records its transaction appended and its result.
CallRecords == [pc : {"idle", "synced", "handler", "staged", "committed", "answered", "conflict"},
                staged : Seq(Records), response : Nat \cup {None}]

\* A call without records or a result; Idle is one that has not entered.
At(p) == [pc |-> p, staged |-> <<>>, response |-> None]

Idle == At("idle")

Init ==
    /\ journal = <<>> /\ snapshots = [a \in Aggregates |-> 0]
    /\ idempotency = [k \in Keys |-> None]
    /\ up = TRUE /\ lastSequence = 0 /\ memory = [a \in Aggregates |-> 0]
    /\ mutex = None /\ calls = [c \in Callers |-> Idle]
    /\ answers = {} /\ faults = 0

-----------------------------------------------------------------------------

RecordsOf(records, a) == {n \in DOMAIN records : records[n].aggregate = a}

\* The highest revision AppendControl finds for an aggregate, 0 if it has none.
Highest(records, a) == Max({0} \cup {records[n].revision : n \in RecordsOf(records, a)})

\* What an aggregate's revision becomes when records are applied in order: the
\* last record of the aggregate replaces it.
Applied(records, a, revision) ==
    IF RecordsOf(records, a) = {} THEN revision ELSE records[Max(RecordsOf(records, a))].revision

\* Core.apply over the records after lastSequence.
Replayed == [a \in Aggregates |->
                Applied(SubSeq(journal, lastSequence + 1, Len(journal)), a, memory[a])]

\* Faulty variant: the cursor is moved past the end.
SyncOffByOne == memory' = Replayed /\ lastSequence' = Len(journal) + 1

\* syncLocked.
Sync == memory' = Replayed /\ lastSequence' = Len(journal)

\* A caller that was not answered yet sends its request; it takes Core.mu and
\* synchronizes.
Enter(c) ==
    /\ up /\ mutex = None /\ calls[c].pc = "idle"
    /\ mutex' = c
    /\ calls' = [calls EXCEPT ![c] = At("synced")]
    /\ Sync
    /\ UNCHANGED <<storeVars, up, answers, faults>>

\* Control leaves RunIdempotent with an error: the transaction is rolled back,
\* the mutex is released and the caller may retry.
Return(c) == mutex' = None /\ calls' = [calls EXCEPT ![c] = Idle]

\* Faulty variant: a stored result is returned for whatever request asks.
LookupIgnoresRequest(c) ==
    /\ calls[c].pc = "synced"
    /\ IF idempotency[Plan[c].key] = None
         THEN calls' = [calls EXCEPT ![c].pc = "handler"]
         ELSE calls' = [calls EXCEPT ![c].pc = "committed",
                                     ![c].response = idempotency[Plan[c].key].response]
    /\ UNCHANGED <<storeVars, coreVars, answers, faults>>

\* Faulty variant: a key that was used is refused, replays included.
LookupRefusesReplay(c) ==
    /\ calls[c].pc = "synced"
    /\ IF idempotency[Plan[c].key] = None
         THEN calls' = [calls EXCEPT ![c].pc = "handler"] /\ UNCHANGED mutex
         ELSE Return(c)
    /\ UNCHANGED <<storeVars, up, lastSequence, memory, answers, faults>>

\* The transaction begins and looks the key up: a stored result is returned as
\* it is, and a key that was used for another request is a conflict, which no
\* retry cures.
Lookup(c) ==
    LET row == idempotency[Plan[c].key]
    IN  /\ calls[c].pc = "synced"
        /\ \/ /\ row = None
              /\ calls' = [calls EXCEPT ![c].pc = "handler"] /\ UNCHANGED mutex
           \/ /\ row # None /\ row.request = Plan[c].request
              /\ calls' = [calls EXCEPT ![c].pc = "committed", ![c].response = row.response]
              /\ UNCHANGED mutex
           \/ /\ row # None /\ row.request # Plan[c].request
              /\ calls' = [calls EXCEPT ![c] = At("conflict")]
              /\ mutex' = None
        /\ UNCHANGED <<storeVars, up, lastSequence, memory, answers, faults>>

\* The handler reads Core's maps, refuses a stale revision, and appends one
\* record per aggregate; AppendControl accepts only the next revision.
Handler(c) ==
    LET touches == Plan[c].request.touches
        earlier(n) == {m \in 1..(n - 1) : touches[m] = touches[n]}
        staged == [n \in 1..Len(touches) |->
                     [aggregate |-> touches[n], key |-> Plan[c].key,
                      revision |-> memory[touches[n]] + 1 + Cardinality(earlier(n))]]
        accepted == /\ memory[touches[1]] = Plan[c].request.expected
                    /\ \A n \in 1..Len(staged) :
                         staged[n].revision =
                           Highest(journal \o SubSeq(staged, 1, n - 1), staged[n].aggregate) + 1
    IN  /\ calls[c].pc = "handler"
        /\ IF accepted
             THEN /\ calls' = [calls EXCEPT ![c] = [pc |-> "staged", staged |-> staged,
                                                    response |-> staged[1].revision]]
                  /\ UNCHANGED mutex
             ELSE Return(c)
        /\ UNCHANGED <<storeVars, up, lastSequence, memory, answers, faults>>

\* Faulty variant: the result is not stored with the records.
CommitForgetsResult(c) ==
    /\ calls[c].pc = "staged"
    /\ journal' = journal \o calls[c].staged
    /\ calls' = [calls EXCEPT ![c].pc = "committed"]
    /\ UNCHANGED <<snapshots, idempotency, coreVars, answers, faults>>

\* Faulty variant: only the first aggregate of a transaction is snapshotted.
CommitFirstSnapshot(c) ==
    LET first == Head(calls[c].staged).aggregate
    IN  /\ calls[c].pc = "staged"
        /\ journal' = journal \o calls[c].staged
        /\ snapshots' = [snapshots EXCEPT ![first] = Applied(calls[c].staged, first, @)]
        /\ idempotency' = [idempotency EXCEPT ![Plan[c].key] =
                             [request |-> Plan[c].request, response |-> calls[c].response]]
        /\ calls' = [calls EXCEPT ![c].pc = "committed"]
        /\ UNCHANGED <<coreVars, answers, faults>>

\* Records, snapshots and the idempotency row become durable together.
Commit(c) ==
    /\ calls[c].pc = "staged"
    /\ journal' = journal \o calls[c].staged
    /\ snapshots' = [a \in Aggregates |-> Applied(calls[c].staged, a, snapshots[a])]
    /\ idempotency' = [idempotency EXCEPT ![Plan[c].key] =
                         [request |-> Plan[c].request, response |-> calls[c].response]]
    /\ calls' = [calls EXCEPT ![c].pc = "committed"]
    /\ UNCHANGED <<coreVars, answers, faults>>

\* Faulty variant: the mutex is kept after the answer.
FinishLocked(c) ==
    /\ calls[c].pc = "committed"
    /\ Sync
    /\ answers' = answers \cup {[key |-> Plan[c].key, request |-> Plan[c].request,
                                 response |-> calls[c].response]}
    /\ calls' = [calls EXCEPT ![c] = At("answered")]
    /\ UNCHANGED <<storeVars, up, mutex, faults>>

\* The handler's caller synchronizes again and answers.
Finish(c) ==
    /\ calls[c].pc = "committed"
    /\ Sync
    /\ answers' = answers \cup {[key |-> Plan[c].key, request |-> Plan[c].request,
                                 response |-> calls[c].response]}
    /\ calls' = [calls EXCEPT ![c] = At("answered")]
    /\ mutex' = None
    /\ UNCHANGED <<storeVars, up, faults>>

\* An injected fault, a cancelled context or a failed statement; after the
\* commit (store.after_commit) only the answer is lost.
Fault(c) ==
    /\ faults < MaxFaults /\ faults' = faults + 1
    /\ mutex = c /\ Return(c)
    /\ UNCHANGED <<storeVars, up, lastSequence, memory, answers>>

Crash ==
    /\ up /\ faults < MaxFaults /\ faults' = faults + 1
    /\ up' = FALSE /\ lastSequence' = 0 /\ memory' = [a \in Aggregates |-> 0]
    /\ mutex' = None
    /\ calls' = [c \in Callers |-> IF mutex = c THEN Idle ELSE calls[c]]
    /\ UNCHANGED <<storeVars, answers>>

\* store.Open verifies the chain and NewCore replays it from the start.
Restart ==
    /\ ~ up /\ up' = TRUE /\ Sync
    /\ UNCHANGED <<storeVars, mutex, calls, answers, faults>>

Step(c) == Enter(c) \/ Lookup(c) \/ Handler(c) \/ Commit(c) \/ Finish(c)

Next == Crash \/ Restart \/ \E c \in Callers : Step(c) \/ Fault(c)

Spec == Init /\ [][Next]_vars

\* sync.Mutex is starvation free, a caller that got an error retries, and the
\* daemon is restarted.
FairSpec == /\ Spec /\ WF_vars(Restart)
            /\ \A c \in Callers : /\ SF_vars(Enter(c)) /\ WF_vars(Lookup(c) \/ Handler(c))
                                  /\ WF_vars(Commit(c) \/ Finish(c))

-----------------------------------------------------------------------------
(* Properties                                                              *)

TypeOK ==
    /\ journal \in Seq(Records)
    /\ snapshots \in [Aggregates -> Nat] /\ memory \in [Aggregates -> Nat]
    /\ idempotency \in [Keys -> Results \cup {None}]
    /\ up \in BOOLEAN /\ lastSequence \in 0..Len(journal)
    /\ mutex \in Callers \cup {None} /\ faults \in 0..MaxFaults
    /\ calls \in [Callers -> CallRecords]

Unapplied(records, k) == \A n \in DOMAIN records : records[n].key # k

\* The records of a key are those of one request, in its order, in one piece.
AppliedOnce(records, k, touches) ==
    \E first \in 0..(Len(records) - Len(touches)) :
        /\ \A n \in DOMAIN records :
             records[n].key = k <=> n \in (first + 1)..(first + Len(touches))
        /\ \A n \in 1..Len(touches) : records[first + n].aggregate = touches[n]

\* A key's records are in the journal exactly when its result is stored, and
\* they are the records of that one request, in its order and in one piece,
\* however often the key was sent, whatever failed and whenever the daemon
\* crashed.
AppliedExactlyOnce ==
    \A k \in Keys : IF idempotency[k] = None
                      THEN Unapplied(journal, k)
                      ELSE AppliedOnce(journal, k, idempotency[k].request.touches)

Count(records, a) == Cardinality(RecordsOf(records, a))

\* Every revision of every aggregate is there once and in order.
Numbered(records) ==
    \A n \in DOMAIN records :
        records[n].revision = Count(SubSeq(records, 1, n), records[n].aggregate)

\* The three views of the control state never diverge: the journal has every
\* revision of every aggregate once and in order, the snapshots are at the
\* latest of them, and Core's maps are at the latest of the prefix of the
\* journal it has read.
ViewsAgree ==
    /\ Numbered(journal)
    /\ \A a \in Aggregates : /\ snapshots[a] = Count(journal, a)
                             /\ memory[a] = Count(SubSeq(journal, 1, lastSequence), a)

\* RunIdempotent implements ExactlyOnce: the idempotency table is the table of
\* executions, and nothing else decides what a caller is answered.
Once == INSTANCE ExactlyOnce
          WITH done <- idempotency, Responses <- Nat
RefinesExactlyOnce == Once!Spec

Committed(c) ==
    idempotency[Plan[c].key] # None /\ idempotency[Plan[c].key].request = Plan[c].request

\* "Retrying the same key deterministically recovers the committed response":
\* a caller whose mutation was committed is eventually answered with it even
\* if the answer was lost to a fault or a crash; the commit is for ever.
CommittedIsAnswered ==
    \A c \in Callers : []<>(Committed(c) => calls[c].pc = "answered")
=============================================================================
