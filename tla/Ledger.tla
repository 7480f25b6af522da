------------------------------ MODULE Ledger ------------------------------
(***************************************************************************)
(* The observation ledger: frames in segment files, append with rollback,  *)
(* rotation, reopening after a crash, and bounded live subscriptions.      *)
(*                                                                         *)
(* Ledger.mu serializes appends, so one append is in progress at a time;   *)
(* its file operations are separate steps, because each can fail and the   *)
(* process can die between any two.  A frame has size 1.  The file system  *)
(* keeps what was synced; of what was written since, a crash keeps a       *)
(* prefix, possibly with a torn frame at its end.                          *)
(***************************************************************************)
EXTENDS Naturals, Sequences, FiniteSets, SequencesExt

CONSTANTS
    Sequences_,      \* source sequence numbers that a collector sends
    Subscribers,
    Capacity,        \* of a subscription's queue
    MaxSegment,      \* MaxSegmentBytes, in frames
    Window,          \* MaxSourceSequences
    MaxCursor,       \* bound on the frames ever written
    MaxFaults        \* bound on faults and crashes

VARIABLES
    files,      \* segment files of the directory: name -> contents
    renamed,    \* names whose rename is not known to be durable
    phase,      \* of the process: "down", "up", "refused" (Open failed)
    segments,   \* Ledger.segments: name and frame count
    active,     \* the last of them is the active segment
    head,       \* Ledger.head
    lastRec,    \* Ledger.lastHash: the record it is the hash of
    seen,       \* sourceState: the window, oldest first, and the maximum
    failed,     \* Ledger.failed is set
    op,         \* the append in progress
    subs,       \* subscriptions
    acked,      \* history: cursor -> record, as shown to callers and subscribers
    faults      \* faults and crashes so far

diskVars == <<files, renamed>>
memVars == <<segments, active, head, lastRec, seen, failed>>
ledgerVars == <<diskVars, memVars, phase, op, subs, acked, faults>>

Idle == [pc |-> "idle", batch |-> <<>>]
NoSub == [state |-> "none", queue |-> <<>>, notify |-> FALSE, waiting |-> FALSE, upTo |-> 0]
Name(first, open) == [first |-> first, open |-> open]

Genesis == [kind |-> "genesis", seq |-> 0, ref |-> 0]

\* Records: an observation, a gap before it, or a note of a repetition.
Observation(q) == [kind |-> "observation", seq |-> q, ref |-> 0]
SequenceGap(q) == [kind |-> "gap", seq |-> q, ref |-> 0]
Duplicate(q, c) == [kind |-> "duplicate", seq |-> q, ref |-> c]

NoFault == faults' = faults
Fault == faults < MaxFaults /\ faults' = faults + 1

Init ==
    /\ files = << >> /\ renamed = {}
    /\ phase = "down" /\ segments = <<>> /\ active = FALSE /\ head = 0
    /\ lastRec = Genesis
    /\ seen = [window |-> <<>>, max |-> 0] /\ failed = FALSE
    /\ op = Idle /\ subs = [s \in Subscribers |-> NoSub]
    /\ acked = << >> /\ faults = 0

-----------------------------------------------------------------------------
(* Reading segments.                                                       *)

\* A frame carries its cursor and the hash of its predecessor, which is here
\* the predecessor itself.
FramesAfter(prev, cursor, records) ==
    [i \in DOMAIN records |->
        [cursor |-> cursor + i, rec |-> records[i],
         prev |-> IF i = 1 THEN prev ELSE records[i - 1]]]

LastRecord(frames) == IF frames = <<>> THEN Genesis ELSE Last(frames).rec

\* scanSegment over consecutive segments: cursors and hashes continue.
Continuous(frames) ==
    \A i \in DOMAIN frames :
        /\ frames[i].cursor = i
        /\ frames[i].prev = IF i = 1 THEN Genesis ELSE frames[i - 1].rec

\* Decoder.Read reports a frame cut short by the end of the file, and only that,
\* as incomplete.
IncompleteTail(n) == files[n].torn

\* discoverSegmentPaths: by name, in which ".open" sorts before ".seg".
Before(m, n) == m.first < n.first \/ (m.first = n.first /\ m.open /\ ~n.open)
Paths == SetToSortSeq(DOMAIN files, Before)

Contents(names) == FlattenSeq([i \in DOMAIN names |-> files[names[i]].frames])

\* readAfterLocked and findSourceOccurrenceLocked read the segments that the
\* process knows; a segment that cannot be read fails them.
Known == [i \in DOMAIN segments |-> segments[i].name]
Readable ==
    /\ \A i \in DOMAIN Known : Known[i] \in DOMAIN files /\ ~IncompleteTail(Known[i])
    /\ Continuous(Contents(Known))

\* indexSourceRecord over records, with their cursors.
Indexed(s, frame) ==
    IF frame.rec.kind # "observation" THEN s
    ELSE [window |-> IF \E i \in DOMAIN s.window : s.window[i].seq = frame.rec.seq THEN s.window
                     ELSE LET w == Append(s.window, [seq |-> frame.rec.seq, cursor |-> frame.cursor])
                          IN  IF Len(w) > Window THEN Tail(w) ELSE w,
          max |-> IF frame.rec.seq > s.max THEN frame.rec.seq ELSE s.max]
IndexAll(s, frames) == FoldLeft(Indexed, s, frames)

\* The cursors at which sequence q is stored as an observation, according to
\* the window or, for a sequence below the maximum, to the segments.
Occurrences(q) ==
    LET remembered == {i \in DOMAIN seen.window : seen.window[i].seq = q}
    IN  IF remembered # {} THEN {seen.window[i].cursor : i \in remembered}
        ELSE IF q > seen.max THEN {}
        ELSE {c \in DOMAIN Contents(Known) : Contents(Known)[c].rec = Observation(q)}

-----------------------------------------------------------------------------
(* Open and Close.                                                         *)

\* truncateAndSync.
Truncated(f) == [frames |-> f.frames, durable |-> Len(f.frames), torn |-> FALSE]

\* Open: a torn tail is cut from the open segment, which must be the only one
\* and the last; everything else must be intact.
OpenLedger ==
    LET opened == {n \in DOMAIN files : n.open}
        sound == /\ Cardinality(opened) <= 1
                 /\ opened # {} => Last(Paths).open
                 /\ \A n \in DOMAIN files : IncompleteTail(n) => n.open
                 /\ Continuous(Contents(Paths))
        all == Contents(Paths)
    IN  /\ phase = "down"
        /\ IF sound
             THEN /\ phase' = "up" /\ files' = [n \in DOMAIN files |-> Truncated(files[n])]
                  /\ segments' = [i \in DOMAIN Paths |->
                        [name |-> Paths[i], count |-> Len(files[Paths[i]].frames)]]
                  /\ active' = (opened # {}) /\ head' = Len(all)
                  /\ lastRec' = LastRecord(all)
                  /\ subs' = [s \in Subscribers |-> NoSub]
                  /\ seen' = IndexAll([window |-> <<>>, max |-> 0], all)
                  /\ renamed' = {} /\ failed' = FALSE
             ELSE phase' = "refused" /\ UNCHANGED <<diskVars, memVars, subs>>
        /\ UNCHANGED <<op, acked>> /\ NoFault

\* What the process knew is gone.
Forget ==
    /\ segments' = <<>> /\ active' = FALSE /\ head' = 0 /\ failed' = FALSE
    /\ lastRec' = Genesis /\ seen' = [window |-> <<>>, max |-> 0] /\ op' = Idle

\* The process or the machine dies: of the frames that were not synced a
\* prefix survives, and a rename that was not synced may be undone.
Crash ==
    /\ phase = "up" /\ Fault /\ phase' = "down"
    /\ \E lost \in SUBSET renamed, keep \in 0..MaxSegment, torn \in BOOLEAN :
         LET old(n) == IF n \in lost THEN Name(n.first, TRUE) ELSE n
             kept(f) == IF f.durable < Len(f.frames)
                        THEN [frames |-> SubSeq(f.frames, 1, f.durable + keep),
                              durable |-> f.durable + keep,
                              torn |-> torn /\ f.durable + keep < Len(f.frames)]
                        ELSE f
         IN  /\ \A n \in DOMAIN files : files[n].durable < Len(files[n].frames)
                    => files[n].durable + keep <= Len(files[n].frames)
             /\ (\A n \in DOMAIN files : files[n].durable = Len(files[n].frames)) => keep = 0 /\ ~torn
             /\ files' = [m \in {old(n) : n \in DOMAIN files} |->
                             kept(files[CHOOSE n \in DOMAIN files : old(n) = m])]
    /\ renamed' = {} /\ Forget
    /\ subs' = [s \in Subscribers |-> NoSub]
    /\ UNCHANGED acked

-----------------------------------------------------------------------------
(* Append.                                                                 *)

\* Append decides what to store: the observation, a gap before it, or a note
\* that the sequence is already stored.
BeginAppend(q) ==
    /\ phase = "up" /\ ~failed /\ op.pc = "idle"
    /\ q <= seen.max => Readable
    /\ LET known == Occurrences(q)
           batch == IF known # {} THEN <<Duplicate(q, CHOOSE c \in known : TRUE)>>
                    ELSE IF seen.max > 0 /\ q > seen.max + 1
                    THEN <<SequenceGap(q), Observation(q)>>
                    ELSE <<Observation(q)>>
       IN  /\ Len(batch) <= MaxSegment /\ head + Len(batch) <= MaxCursor
           /\ op' = [pc |-> "rotate", batch |-> batch]
    /\ UNCHANGED <<diskVars, memVars, phase, subs, acked>> /\ NoFault

Refuse == op' = Idle
Fail == failed' = TRUE /\ op' = Idle

ActiveName == Last(segments).name
ActiveCount == Last(segments).count

\* finalizeActiveLocked: sync, close, rename; the index that follows also
\* syncs the directory, and its failure is ignored.
Finalize(next) ==
    LET final == Name(ActiveName.first, FALSE)
    IN  /\ files' = [n \in (DOMAIN files \ {ActiveName}) \cup {final} |->
                        IF n = final
                        THEN [files[ActiveName] EXCEPT !.durable = Len(files[ActiveName].frames)]
                        ELSE files[n]]
        /\ segments' = [segments EXCEPT ![Len(segments)].name = final]
        /\ active' = FALSE /\ op' = next
        /\ \/ NoFault /\ renamed' = {}
           \/ Fault /\ renamed' = renamed \cup {final}
        /\ UNCHANGED failed

\* It fails before the rename, or the file cannot be closed or reopened.
FinalizeFails ==
    /\ Fault
    /\ \/ Refuse /\ UNCHANGED failed
       \/ Fail
    /\ UNCHANGED <<diskVars, segments, active>>

\* appendBatchLocked rotates first if the batch does not fit.
RotateForAppend ==
    /\ op.pc = "rotate"
    /\ IF active /\ ActiveCount > 0 /\ ActiveCount + Len(op.batch) > MaxSegment
         THEN Finalize([op EXCEPT !.pc = "ensure"]) \/ FinalizeFails
         ELSE /\ op' = [op EXCEPT !.pc = "ensure"] /\ NoFault
              /\ UNCHANGED <<diskVars, segments, active, failed>>
    /\ UNCHANGED <<head, lastRec, seen, phase, subs, acked>>

\* ensureActiveLocked: O_EXCL create and a sync of the directory, which makes
\* earlier renames durable too; on failure the file is removed again.
EnsureActive ==
    LET name == Name(head + 1, TRUE)
    IN  /\ op.pc = "ensure"
        /\ \/ /\ active /\ op' = [op EXCEPT !.pc = "write"] /\ NoFault
              /\ UNCHANGED <<diskVars, segments, active>>
           \/ /\ ~active /\ name \notin DOMAIN files
              /\ files' = [n \in DOMAIN files \cup {name} |->
                    IF n = name THEN [frames |-> <<>>, durable |-> 0, torn |-> FALSE] ELSE files[n]]
              /\ segments' = Append(segments, [name |-> name, count |-> 0])
              /\ active' = TRUE /\ renamed' = {}
              /\ op' = [op EXCEPT !.pc = "write"] /\ NoFault
           \/ /\ ~active /\ Refuse /\ Fault
              /\ UNCHANGED <<diskVars, segments, active>>
        /\ UNCHANGED <<head, lastRec, seen, failed, phase, subs, acked>>

\* rollbackActiveLocked: the file is truncated to its length before the append
\* and synced.  If any of it fails the ledger refuses all further work, and
\* the file keeps some of what was written.
Rollback(written) ==
    LET old == SubSeq(files[ActiveName].frames, 1, ActiveCount)
    IN  /\ Fault
        /\ \/ /\ files' = [files EXCEPT ![ActiveName] =
                    [frames |-> old, durable |-> ActiveCount, torn |-> FALSE]]
              /\ Refuse /\ UNCHANGED failed
           \/ /\ \E k \in 0..Len(written), t \in BOOLEAN :
                    files' = [files EXCEPT ![ActiveName] =
                        [frames |-> old \o SubSeq(written, 1, k), durable |-> ActiveCount,
                         torn |-> t /\ k < Len(written)]]
              /\ Fail

NewFrames == FramesAfter(lastRec, head, op.batch)

\* writeActive: a complete write, or an error after any part of it.
WriteActive ==
    /\ op.pc = "write"
    /\ \/ /\ files' = [files EXCEPT ![ActiveName].frames = @ \o NewFrames]
          /\ op' = [op EXCEPT !.pc = "sync"] /\ NoFault /\ UNCHANGED failed
       \/ Rollback(NewFrames)
    /\ UNCHANGED <<renamed, segments, active, head, lastRec, seen, phase, subs, acked>>

\* Faulty variant: the caller is answered before the frames are synced.
SyncActiveLate ==
    /\ op.pc = "sync"
    /\ segments' = [segments EXCEPT ![Len(segments)].count = @ + Len(op.batch)]
    /\ head' = head + Len(op.batch) /\ lastRec' = Last(op.batch)
    /\ seen' = IndexAll(seen, NewFrames)
    /\ op' = [op EXCEPT !.pc = "publish"] /\ NoFault
    /\ UNCHANGED <<diskVars, failed, active, phase, subs, acked>>

\* syncActive; then the in-memory metadata advances, and the index is
\* rewritten, whose failure is ignored.
SyncActive ==
    /\ op.pc = "sync"
    /\ \/ /\ files' = [files EXCEPT ![ActiveName].durable = Len(files[ActiveName].frames)]
          /\ segments' = [segments EXCEPT ![Len(segments)].count = @ + Len(op.batch)]
          /\ head' = head + Len(op.batch)
          /\ lastRec' = Last(op.batch) /\ seen' = IndexAll(seen, NewFrames)
          /\ op' = [op EXCEPT !.pc = "publish"] /\ NoFault
          /\ renamed' = {} /\ UNCHANGED failed
       \/ /\ Rollback(SubSeq(files[ActiveName].frames, ActiveCount + 1, Len(files[ActiveName].frames)))
          /\ UNCHANGED <<renamed, segments, head, lastRec, seen>>
    /\ UNCHANGED <<active, phase, subs, acked>>

-----------------------------------------------------------------------------
(* Subscriptions: a queue of cursor ranges; one of more than one cursor is *)
(* an overflow gap.                                                        *)

\* Faulty variant: an overflow gap that starts at the newest record.
EnqueueDropsOldest(sub, c) ==
    [sub EXCEPT !.queue = IF Len(@) < Capacity THEN Append(@, [from |-> c, to |-> c])
                          ELSE Append(Tail(@), [from |-> c, to |-> c]),
                !.notify = TRUE]

\* enqueueRecord: a full queue is replaced by one gap over all of it.
Enqueue(sub, c) ==
    [sub EXCEPT !.queue = IF Len(@) < Capacity THEN Append(@, [from |-> c, to |-> c])
                          ELSE <<[from |-> Head(@).from, to |-> c]>>,
                !.notify = TRUE]

\* fanoutHub.publish, one record after the other, and the answer to the caller.
Publish ==
    LET c == head - Len(op.batch) + 1
    IN  /\ op.pc = "publish"
        /\ subs' = [s \in Subscribers |->
                        IF subs[s].state = "live" THEN Enqueue(subs[s], c) ELSE subs[s]]
        /\ acked' = [k \in DOMAIN acked \cup {c} |-> IF k = c THEN Head(op.batch) ELSE acked[k]]
        /\ op' = IF Len(op.batch) = 1 THEN Idle ELSE [op EXCEPT !.batch = Tail(@)]
        /\ UNCHANGED <<diskVars, memVars, phase>> /\ NoFault

\* Subscribe loads the history after a cursor under the append lock.
Subscribe(s, after) ==
    /\ phase = "up" /\ ~failed /\ op.pc = "idle" /\ after <= head /\ Readable
    /\ subs[s].state = "none"
    /\ subs' = [subs EXCEPT ![s] =
          FoldLeft(Enqueue, [NoSub EXCEPT !.state = "live", !.upTo = after],
                   [i \in 1..(head - after) |-> after + i])]
    /\ UNCHANGED <<diskVars, memVars, phase, op, acked>> /\ NoFault

\* Next takes the first delivery; what is left keeps the signal up.
TakeDelivery(s) ==
    /\ subs[s].queue # <<>> /\ ~subs[s].waiting
    /\ subs' = [subs EXCEPT ![s].queue = Tail(@), ![s].upTo = Head(subs[s].queue).to,
                            ![s].notify = @ \/ Len(subs[s].queue) > 1]
    /\ UNCHANGED <<diskVars, memVars, phase, op, acked>> /\ NoFault

\* Next with an empty queue waits for the signal or the end.
AwaitDelivery(s) ==
    /\ subs[s].state = "live" /\ subs[s].queue = <<>> /\ ~subs[s].waiting
    /\ subs' = [subs EXCEPT ![s].waiting = TRUE]
    /\ UNCHANGED <<diskVars, memVars, phase, op, acked>> /\ NoFault

WakeUp(s) ==
    /\ subs[s].waiting /\ (subs[s].notify \/ subs[s].state = "closed")
    /\ subs' = [subs EXCEPT ![s].waiting = FALSE, ![s].notify = FALSE]
    /\ UNCHANGED <<diskVars, memVars, phase, op, acked>> /\ NoFault

\* Subscription.Close: out of the hub, and the reader is woken.
CloseSubscription(s) ==
    /\ subs[s].state = "live" /\ subs' = [subs EXCEPT ![s].state = "closed"]
    /\ UNCHANGED <<diskVars, memVars, phase, op, acked>> /\ NoFault

\* Rotate between two appends.
Rotate ==
    /\ phase = "up" /\ ~failed /\ op.pc = "idle" /\ active
    /\ Finalize(Idle) \/ FinalizeFails
    /\ UNCHANGED <<head, lastRec, seen, phase, subs, acked>>

\* Close: finalize, end the subscriptions and forget.
Close ==
    /\ phase = "up" /\ op.pc = "idle"
    /\ phase' = "down"
    /\ IF active /\ ~failed
         THEN LET final == Name(ActiveName.first, FALSE)
              IN  files' = [n \in (DOMAIN files \ {ActiveName}) \cup {final} |->
                              IF n = final THEN files[ActiveName] ELSE files[n]]
         ELSE UNCHANGED files
    /\ renamed' = {} /\ Forget /\ NoFault
    /\ subs' = [s \in Subscribers |-> IF subs[s].state = "live"
                                      THEN [subs[s] EXCEPT !.state = "closed"] ELSE subs[s]]
    /\ UNCHANGED acked

Next ==
    \/ OpenLedger \/ Crash \/ RotateForAppend \/ EnsureActive \/ WriteActive \/ SyncActive
    \/ Publish \/ Rotate \/ Close
    \/ \E q \in Sequences_ : BeginAppend(q)
    \/ \E s \in Subscribers :
         \/ \E after \in 0..MaxCursor : Subscribe(s, after)
         \/ TakeDelivery(s) \/ AwaitDelivery(s) \/ WakeUp(s) \/ CloseSubscription(s)

Spec == Init /\ [][Next]_ledgerVars

\* The reader of a subscription keeps reading.
Fairness ==
    \A s \in Subscribers : WF_ledgerVars(TakeDelivery(s)) /\ WF_ledgerVars(WakeUp(s))

-----------------------------------------------------------------------------
(* Properties.                                                             *)

Stored == Contents(Paths)

TypeOK ==
    /\ \A n \in DOMAIN files : n.first \in 1..(MaxCursor + 1) /\ n.open \in BOOLEAN
                              /\ files[n].durable <= Len(files[n].frames)
    /\ phase \in {"down", "up", "refused"} /\ head \in 0..MaxCursor
    /\ op.pc \in {"idle", "rotate", "ensure", "write", "sync", "publish"}
    /\ faults \in 0..MaxFaults

\* Whatever an append reported, or a subscriber was shown, stays in the segment
\* files, at its cursor, over failed appends, rollbacks, rotations, crashes and
\* reopening.
ShownIsStored ==
    \A c \in DOMAIN acked : \E n \in DOMAIN files : \E i \in 1..files[n].durable :
        files[n].frames[i].cursor = c /\ files[n].frames[i].rec = acked[c]

\* An observation is stored at most once however often its collector repeats
\* it, with the window exhausted and over crashes; a repetition is noted with the
\* cursor of the original, and a jump of the sequence is preceded by its gap.
StoredOnce ==
    phase = "up" /\ Readable =>
      LET all == Contents(Known)
          obs == {c \in DOMAIN all : all[c].rec.kind = "observation"}
      IN  /\ \A c, d \in obs : all[c].rec.seq = all[d].rec.seq => c = d
          /\ \A c \in DOMAIN all : all[c].rec.kind = "duplicate" =>
                 all[c].rec.ref < c /\ all[all[c].rec.ref].rec = Observation(all[c].rec.seq)
          /\ \A c \in obs : LET earlier == {all[d].rec.seq : d \in {e \in obs : e < c}}
                             IN  (earlier # {} /\ \A q \in earlier : q + 1 < all[c].rec.seq)
                                   => all[c - 1].rec = SequenceGap(all[c].rec.seq)

\* However the process died, Open accepts what it left, with one exception: an
\* active segment that a rolled back first append left without frames is finalized
\* under the number of the next one, and Open refuses an open segment before it.
Reopens ==
    phase = "refused" =>
        \E n \in DOMAIN files : /\ n.open /\ Name(n.first, FALSE) \in DOMAIN files
                               /\ files[Name(n.first, FALSE)].frames = <<>>

\* A live subscription is shown every cursor after the one it asked for, in
\* order: what was delivered, what is queued and the records yet to be
\* published leave no hole, whatever overflowed.
NothingOmitted ==
    \A s \in Subscribers : subs[s].state = "live" =>
        LET q == subs[s].queue
            published == IF op.pc = "publish" THEN head - Len(op.batch) ELSE head
        IN  /\ \A i \in DOMAIN q : q[i].from = 1 + (IF i = 1 THEN subs[s].upTo ELSE q[i - 1].to)
            /\ (IF q = <<>> THEN subs[s].upTo ELSE Last(q).to) = published

\* A reader that waits is woken when something is queued for it, or at the end.
ReaderWakes ==
    \A s \in Subscribers :
        (subs[s].waiting /\ (subs[s].queue # <<>> \/ subs[s].state = "closed")) ~>
            ~subs[s].waiting

=============================================================================
