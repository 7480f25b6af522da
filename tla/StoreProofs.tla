---------------------------- MODULE StoreProofs -----------------------------
(***************************************************************************)
(* Proofs about IdempotentStore: whatever fails and whenever the daemon    *)
(* crashes, a key is executed at most once, in one piece; journal,         *)
(* snapshots and Core's maps agree; and RunIdempotent implements           *)
(* ExactlyOnce.                                                            *)
(***************************************************************************)
EXTENDS IdempotentStore, FiniteSetTheorems, FunctionTheorems, SequenceTheorems, TLAPS

-----------------------------------------------------------------------------
(* Counting the records of an aggregate.                                   *)

\* A function on an initial segment is a sequence.
LEMMA FunctionIsSeq ==
    ASSUME NEW S, NEW n \in Nat, NEW f \in [1..n -> S]
    PROVE  f \in Seq(S) /\ Len(f) = n
<1>1. f \in Seq(S)
  BY SeqDef, Zenon
<1>2. DOMAIN f = 1..n /\ DOMAIN f = 1..Len(f) /\ Len(f) \in Nat
  BY <1>1, LenProperties, Zenon
<1> QED
  BY <1>1, <1>2

\* The parts of a concatenation.
LEMMA ConcatIs ==
    ASSUME NEW S, NEW s \in Seq(S), NEW t \in Seq(S)
    PROVE  /\ s \o t \in Seq(S) /\ Len(s \o t) = Len(s) + Len(t) /\ DOMAIN (s \o t) = 1..Len(s \o t)
           /\ Len(s) \in Nat /\ Len(t) \in Nat
           /\ \A n \in 1..Len(s) : (s \o t)[n] = s[n]
           /\ \A n \in 1..Len(t) : (s \o t)[Len(s) + n] = t[n]
<1> DEFINE st == s \o t
<1>1. st \in Seq(S) /\ Len(st) = Len(s) + Len(t)
      /\ \A i \in 1..(Len(s) + Len(t)) : st[i] = IF i <= Len(s) THEN s[i] ELSE t[i - Len(s)]
  BY ConcatProperties, Zenon
<1> HIDE DEF st
<1>2. Len(s) \in Nat /\ Len(t) \in Nat /\ DOMAIN st = 1..Len(st)
  BY <1>1
<1>3. ASSUME NEW n \in 1..Len(s) PROVE st[n] = s[n]
  BY <1>1, <1>2
<1>4. ASSUME NEW n \in 1..Len(t) PROVE st[Len(s) + n] = t[n]
  <2>1. /\ Len(s) + n \in 1..(Len(s) + Len(t)) /\ ~ (Len(s) + n <= Len(s))
        /\ (Len(s) + n) - Len(s) = n
    BY <1>2
  <2> QED
    BY <1>1, <2>1, Zenon
<1> QED
  BY <1>1, <1>2, <1>3, <1>4, Zenon DEF st

\* An initial segment of a sequence.
LEMMA PrefixIs ==
    ASSUME NEW S, NEW s \in Seq(S), NEW n \in 0..Len(s)
    PROVE  /\ SubSeq(s, 1, n) \in Seq(S) /\ Len(SubSeq(s, 1, n)) = n
           /\ \A i \in 1..n : SubSeq(s, 1, n)[i] = s[i]
  OBVIOUS

\* A sequence cut in two.
LEMMA SplitAt ==
    ASSUME NEW S, NEW t \in Seq(S), NEW l \in 0..Len(t)
    PROVE  /\ SubSeq(t, 1, l) \in Seq(S) /\ SubSeq(t, l + 1, Len(t)) \in Seq(S)
           /\ t = SubSeq(t, 1, l) \o SubSeq(t, l + 1, Len(t))
<1> DEFINE upTo == SubSeq(t, 1, l)
           rest == SubSeq(t, l + 1, Len(t))
<1>1. upTo \in Seq(S) /\ Len(upTo) = l /\ \A i \in 1..l : upTo[i] = t[i]
  BY PrefixIs, Zenon
<1>2. rest \in Seq(S) /\ Len(rest) = Len(t) - l /\ \A i \in 1..(Len(t) - l) : rest[i] = t[l + i]
  OBVIOUS
<1> HIDE DEF upTo, rest
<1>3. /\ upTo \o rest \in Seq(S) /\ Len(upTo \o rest) = Len(t)
      /\ \A i \in 1..Len(t) : (upTo \o rest)[i] = IF i <= l THEN upTo[i] ELSE rest[i - l]
  BY <1>1, <1>2, ConcatProperties
<1>4. \A i \in 1..Len(t) : (upTo \o rest)[i] = t[i]
  BY <1>1, <1>2, <1>3
<1>5. t = upTo \o rest
  BY <1>3, <1>4, SeqEqual, Zenon
<1> QED
  BY <1>1, <1>2, <1>5, Zenon DEF upTo, rest

\* What is appended does not change the segments before it.
LEMMA PrefixKept ==
    ASSUME NEW S, NEW s \in Seq(S), NEW t \in Seq(S), NEW n \in 0..Len(s)
    PROVE  SubSeq(s \o t, 1, n) = SubSeq(s, 1, n)
<1>1. s \o t \in Seq(S) /\ n \in 0..Len(s \o t) /\ \A i \in 1..n : (s \o t)[i] = s[i]
  OBVIOUS
<1> QED
  BY <1>1, PrefixIs, SeqEqual

\* A segment that reaches into the second part.
LEMMA PrefixOfSecond ==
    ASSUME NEW S, NEW s \in Seq(S), NEW t \in Seq(S), NEW j \in 1..Len(t)
    PROVE  SubSeq(s \o t, 1, Len(s) + j) = s \o SubSeq(t, 1, j)
<1> DEFINE st == s \o t
           tj == SubSeq(t, 1, j)
           stj == s \o tj
           k == Len(s) + j
<1>1. st \in Seq(S) /\ Len(st) = Len(s) + Len(t) /\ Len(s) \in Nat /\ Len(t) \in Nat
      /\ \A i \in 1..(Len(s) + Len(t)) : st[i] = IF i <= Len(s) THEN s[i] ELSE t[i - Len(s)]
  BY ConcatProperties
<1>2. tj \in Seq(S) /\ Len(tj) = j /\ \A i \in 1..j : tj[i] = t[i]
  BY PrefixIs
<1> HIDE DEF st, tj
<1>3. stj \in Seq(S) /\ Len(stj) = k
      /\ \A i \in 1..k : stj[i] = IF i <= Len(s) THEN s[i] ELSE tj[i - Len(s)]
  BY <1>2, ConcatProperties, Zenon
<1> HIDE DEF stj
<1>4. k \in 0..Len(st)
  BY <1>1
<1>5. SubSeq(st, 1, k) \in Seq(S) /\ Len(SubSeq(st, 1, k)) = k
      /\ \A i \in 1..k : SubSeq(st, 1, k)[i] = st[i]
  BY <1>1, <1>4, PrefixIs, Zenon
<1>6. ASSUME NEW i \in 1..k
      PROVE  st[i] = stj[i]
  <2>1. i \in 1..(Len(s) + Len(t))
    BY <1>1
  <2>2. CASE i <= Len(s)
    BY <1>1, <1>3, <2>1, <2>2, Zenon
  <2>3. CASE ~ (i <= Len(s))
    <3>1. i - Len(s) \in 1..j
      BY <1>1, <2>1, <2>3
    <3> QED
      BY <1>1, <1>2, <1>3, <2>1, <2>3, <3>1, ZenonT(60)
  <2> QED
    BY <2>2, <2>3, Zenon
<1>7. SubSeq(st, 1, k) = stj
  BY <1>3, <1>5, <1>6, SeqEqual, Zenon
<1> QED
  BY <1>7, Zenon DEF st, stj, tj

\* The records of an aggregate are finitely many.
LEMMA CountType ==
    ASSUME NEW S, NEW s \in Seq(S), NEW a
    PROVE  /\ RecordsOf(s, a) \subseteq 1..Len(s)
           /\ IsFiniteSet(RecordsOf(s, a)) /\ Count(s, a) \in Nat
<1>1. IsFiniteSet(1..Len(s))
  BY FS_Interval
<1>2. RecordsOf(s, a) \subseteq 1..Len(s)
  BY DEF RecordsOf
<1> QED
  BY <1>1, <1>2, FS_Subset, FS_CardinalityType, Zenon DEF Count

\* Counting in two pieces.
LEMMA CountConcat ==
    ASSUME NEW S, NEW s \in Seq(S), NEW t \in Seq(S), NEW a
    PROVE  Count(s \o t, a) = Count(s, a) + Count(t, a)
<1> DEFINE l == Len(s)
           A == RecordsOf(s, a)
           B == RecordsOf(t, a)
           C == RecordsOf(s \o t, a)
           D == {n \in C : n > l}
           shift == [n \in B |-> n + l]
<1>1. /\ s \o t \in Seq(S) /\ Len(s \o t) = Len(s) + Len(t) /\ DOMAIN (s \o t) = 1..Len(s \o t)
      /\ Len(s) \in Nat /\ Len(t) \in Nat
      /\ \A n \in 1..Len(s) : (s \o t)[n] = s[n]
      /\ \A n \in 1..Len(t) : (s \o t)[Len(s) + n] = t[n]
  BY ConcatIs
<1>2. IsFiniteSet(A) /\ IsFiniteSet(B) /\ IsFiniteSet(C) /\ A \subseteq 1..Len(s)
      /\ B \subseteq 1..Len(t) /\ C \subseteq 1..(Len(s) + Len(t))
  BY <1>1, CountType, Zenon
<1>3. \A n \in 1..Len(s) : n \in A <=> n \in C
  BY <1>1 DEF RecordsOf
<1>4. \A n \in 1..Len(t) : n \in B <=> n + l \in C
  BY <1>1 DEF RecordsOf
<1>5. Count(s \o t, a) = Cardinality(C) /\ Count(s, a) = Cardinality(A) /\ Count(t, a) = Cardinality(B)
  BY Zenon DEF Count
<1> HIDE DEF A, B, C
<1>6. shift \in Bijection(B, D)
  <2>1. shift \in [B -> D]
    BY <1>1, <1>2, <1>4
  <2>2. \A x, y \in B : shift[x] = shift[y] => x = y
    BY <1>1, <1>2
  <2>3. ASSUME NEW d \in D PROVE \E n \in B : shift[n] = d
    <3>1. d - l \in 1..Len(t) /\ (d - l) + l = d
      BY <1>1, <1>2
    <3>2. d - l \in B
      BY <1>4, <3>1, Zenon
    <3> QED
      BY <3>1, <3>2, Zenon
  <2> QED
    BY <2>1, <2>2, <2>3, Fun_IsBij, Zenon
<1>7. C = A \cup D /\ A \cap D = {}
  <2>1. ASSUME NEW n \in C PROVE n \in A \/ n \in D
    BY <1>1, <1>2, <1>3
  <2>2. ASSUME NEW n \in A PROVE n \in C /\ n \notin D
    BY <1>1, <1>2, <1>3
  <2> QED
    BY <2>1, <2>2, Zenon
<1> HIDE DEF D, shift, l
<1>8. ExistsBijection(B, D)
  BY <1>6, Zenon DEF ExistsBijection
<1>9. IsFiniteSet(D) /\ Cardinality(D) = Cardinality(B)
  BY <1>2, <1>8, FS_Bijection, Zenon
<1>10. Cardinality(A) \in Nat /\ Cardinality(D) \in Nat
  BY <1>2, <1>9, FS_CardinalityType, Zenon
<1>11. Cardinality(A \cup D) = Cardinality(A) + Cardinality(D) - Cardinality(A \cap D)
  BY <1>2, <1>9, FS_Union, Zenon
<1>12. Cardinality(A \cap D) = 0
  BY <1>7, FS_EmptySet, Zenon
<1> QED
  BY <1>5, <1>7, <1>9, <1>10, <1>11, <1>12

\* Nothing counts in an empty sequence, or where an aggregate has no record.
LEMMA CountNone ==
    ASSUME NEW s, NEW a, RecordsOf(s, a) = {}
    PROVE  Count(s, a) = 0
  BY FS_EmptySet, Zenon DEF Count

\* A non-empty set of positions has a last one.
LEMMA LastPosition ==
    ASSUME NEW n \in Nat, NEW T, T \subseteq 1..n, T # {}
    PROVE  Max(T) \in T /\ \A m \in T : m <= Max(T)
<1> DEFINE U == {n - m : m \in T}
<1>1. U \subseteq Nat /\ U # {} /\ T \subseteq Nat
  <2>1. \A m \in T : n - m \in Nat /\ m \in Nat
    OBVIOUS
  <2>2. PICK m \in T : TRUE
    BY Zenon
  <2>3. n - m \in U
    BY Zenon
  <2> QED
    BY <2>1, <2>3, Zenon
<1>2. PICK x \in U : \A y \in U : ~ (<<y, x>> \in OpToRel(<, Nat))
  BY <1>1, NatLessThanWellFounded, WFMin, Zenon
<1>3. \A y \in U : x <= y
  <2> TAKE y \in U
  <2>1. x \in Nat /\ y \in Nat
    BY <1>1, Zenon
  <2>2. ~ (y < x)
    BY <1>2, <2>1, Zenon DEF OpToRel
  <2> QED
    BY <2>1, <2>2
<1>4. PICK m \in T : x = n - m
  BY Zenon
<1>5. \A k \in T : m >= k
  <2> TAKE k \in T
  <2>1. n - k \in U /\ k \in Nat /\ m \in Nat
    OBVIOUS
  <2>2. x <= n - k
    BY <1>3, <2>1, Zenon
  <2> QED
    BY <1>4, <2>1, <2>2
<1>6. Max(T) \in T /\ \A k \in T : Max(T) >= k
  BY <1>5, Zenon DEF Max
<1> QED
  BY <1>6, Zenon

\* In a numbered journal the last record of an aggregate among the later ones
\* carries the number of its records: applying them in order gets there.
LEMMA AppliedIsCount ==
    ASSUME NEW s \in Seq(Records), NEW t \in Seq(Records), NEW a, Numbered(s \o t)
    PROVE  Applied(t, a, Count(s, a)) = Count(s \o t, a)
<1> DEFINE st == s \o t
           last == Max(RecordsOf(t, a))
           upTo == SubSeq(t, 1, last)
           rest == SubSeq(t, last + 1, Len(t))
<1>1. CASE RecordsOf(t, a) = {}
  <2>1. Count(t, a) = 0 /\ Count(s, a) \in Nat
    BY <1>1, CountNone, CountType, Zenon
  <2> QED
    BY <1>1, <2>1, CountConcat DEF Applied
<1>2. CASE RecordsOf(t, a) # {}
  <2>1. RecordsOf(t, a) \subseteq 1..Len(t) /\ Len(t) \in Nat /\ Len(s) \in Nat
    BY CountType
  <2>2. last \in RecordsOf(t, a) /\ \A m \in RecordsOf(t, a) : m <= last
    BY <1>2, <2>1, LastPosition, Zenon
  <2> HIDE DEF last
  <2>3. last \in 1..Len(t) /\ t[last].aggregate = a
    BY <2>1, <2>2, Zenon DEF RecordsOf
  <2>4. upTo \in Seq(Records) /\ rest \in Seq(Records) /\ t = upTo \o rest
    BY <2>1, <2>3, SplitAt
  <2>5. RecordsOf(rest, a) = {}
    <3>1. \A i \in 1..(Len(t) - last) : t[last + i].aggregate # a
      BY <2>1, <2>2, <2>3 DEF RecordsOf
    <3>2. DOMAIN rest = 1..(Len(t) - last) /\ \A i \in 1..(Len(t) - last) : rest[i] = t[last + i]
      BY <2>1, <2>3
    <3> HIDE DEF rest
    <3> QED
      BY <3>1, <3>2, Zenon DEF RecordsOf
  <2>6. st[Len(s) + last] = t[last] /\ Len(s) + last \in DOMAIN st
    BY <2>1, <2>3, ConcatIs
  <2>7. SubSeq(st, 1, Len(s) + last) = s \o upTo
    BY <2>3, PrefixOfSecond, SMTT(60)
  <2>8. t[last].revision = Count(s \o upTo, a)
    BY <2>3, <2>6, <2>7, Zenon DEF Numbered
  <2> HIDE DEF upTo, rest
  <2>9. Count(t, a) = Count(upTo, a) + Count(rest, a) /\ Count(rest, a) = 0
    BY <2>4, <2>5, CountConcat, CountNone
  <2>10. Count(s \o upTo, a) = Count(s, a) + Count(upTo, a)
    BY <2>4, CountConcat
  <2>11. Count(s \o t, a) = Count(s, a) + Count(t, a) /\ Count(upTo, a) \in Nat
    BY <2>4, CountConcat, CountType, ZenonT(60)
  <2>12. Applied(t, a, Count(s, a)) = t[last].revision
    BY <1>2, Zenon DEF Applied, last
  <2> QED
    BY <2>8, <2>9, <2>10, <2>11, <2>12
<1> QED
  BY <1>1, <1>2, Zenon

-----------------------------------------------------------------------------
(* The inductive invariant.                                                *)

\* A call that is inside RunIdempotent.
Busy(c) == calls[c].pc \in {"synced", "handler", "staged", "committed"}

\* What the handler staged is the request, one record per aggregate it
\* touches, each with the next revision after the journal and the records
\* staged before it.
StagedForRequest(c) ==
    LET staged == calls[c].staged
        touches == Plan[c].request.touches
    IN  /\ Len(staged) = Len(touches) /\ calls[c].response \in Nat
        /\ \A n \in 1..Len(touches) :
             /\ staged[n].aggregate = touches[n] /\ staged[n].key = Plan[c].key
             /\ staged[n].revision = Count(journal, touches[n])
                                       + Count(SubSeq(staged, 1, n), touches[n])

\* The mutex lets one call in at a time and only while the daemon runs; until
\* it commits, that call has read the whole journal and its key is unused; its
\* staged records are its request; once committed it holds the stored result.
CallInv ==
    /\ \A c \in Callers : Busy(c) <=> mutex = c
    /\ mutex # None => up
    /\ \A c \in Callers :
         /\ calls[c].pc \in {"synced", "handler", "staged"} => lastSequence = Len(journal)
         /\ calls[c].pc \in {"handler", "staged"} => idempotency[Plan[c].key] = None
         /\ calls[c].pc = "staged" => StagedForRequest(c)
         /\ calls[c].pc = "committed" =>
              /\ calls[c].response \in Nat
              /\ idempotency[Plan[c].key] = [request |-> Plan[c].request,
                                             response |-> calls[c].response]

StoreInv == TypeOK /\ CallInv /\ ViewsAgree /\ AppliedExactlyOnce

-----------------------------------------------------------------------------
(* Every step keeps the invariant.                                         *)

\* syncLocked brings Core's maps up to the end of the journal.
LEMMA SyncReadsAll ==
    ASSUME TypeOK, ViewsAgree, Sync, UNCHANGED storeVars
    PROVE  /\ memory' \in [Aggregates -> Nat] /\ lastSequence' = Len(journal)
           /\ lastSequence' \in 0..Len(journal') /\ ViewsAgree'
<1>1. journal \in Seq(Records) /\ lastSequence \in 0..Len(journal) /\ Len(journal) \in Nat
  BY DEF TypeOK
<1>2. ASSUME NEW a \in Aggregates
      PROVE  memory'[a] = Count(journal, a) /\ Count(journal, a) \in Nat
  <2> DEFINE read == SubSeq(journal, 1, lastSequence)
             unread == SubSeq(journal, lastSequence + 1, Len(journal))
  <2>1. memory'[a] = Applied(unread, a, Count(read, a))
    BY Zenon DEF Sync, Replayed, ViewsAgree
  <2>2. read \in Seq(Records) /\ unread \in Seq(Records) /\ journal = read \o unread
    BY <1>1, SplitAt, Zenon
  <2> HIDE DEF read, unread
  <2> QED
    BY <1>1, <2>1, <2>2, AppliedIsCount, CountType, ZenonT(60) DEF ViewsAgree
<1>3. memory' = [a \in Aggregates |-> memory'[a]]
  BY Zenon DEF Sync, Replayed
<1>4. lastSequence' = Len(journal) /\ journal' = journal /\ snapshots' = snapshots
  BY Zenon DEF Sync, storeVars
<1>5. SubSeq(journal, 1, Len(journal)) = journal
  BY <1>1, SubSeqFull, Zenon
<1>6. memory' \in [Aggregates -> Nat]
  BY <1>2, <1>3, Zenon
<1>7. \A a \in Aggregates : /\ snapshots'[a] = Count(journal', a)
                            /\ memory'[a] = Count(SubSeq(journal', 1, lastSequence'), a)
  BY <1>2, <1>4, <1>5, Zenon DEF ViewsAgree
<1>8. Numbered(journal')
  BY <1>4, Zenon DEF ViewsAgree
<1> QED
  BY <1>1, <1>4, <1>6, <1>7, <1>8 DEF ViewsAgree

\* A caller that returns without a result, or enters, leaves the others alone.
LEMMA CallReset ==
    ASSUME TypeOK, NEW c \in Callers, NEW p \in {"idle", "synced", "answered", "conflict"},
           calls' = [calls EXCEPT ![c] = At(p)]
    PROVE  /\ calls' \in [Callers -> CallRecords]
           /\ calls'[c].pc = p
           /\ \A d \in Callers : d # c => calls'[d] = calls[d]
<1>1. <<>> \in Seq(Records)
  BY EmptySeq, Zenon
<1>2. At(p).pc = p /\ At(p) \in CallRecords
  BY <1>1, Zenon DEF At, CallRecords
<1> QED
  BY <1>2, Zenon DEF TypeOK

\* What the store keeps of a key does not change while its rows do not.
LEMMA AppliedStable ==
    ASSUME AppliedExactlyOnce, journal' = journal, idempotency' = idempotency
    PROVE  AppliedExactlyOnce'
  BY Zenon DEF AppliedExactlyOnce

\* A call leaves RunIdempotent: answered, in conflict, or to be retried.
LEMMA LeaveKeeps ==
    ASSUME StoreInv, NEW c \in Callers, NEW p \in {"idle", "answered", "conflict"},
           mutex = c, mutex' = None, calls' = [calls EXCEPT ![c] = At(p)],
           UNCHANGED <<storeVars, up>>, faults' \in 0..MaxFaults, ViewsAgree',
           memory' \in [Aggregates -> Nat], lastSequence' \in 0..Len(journal')
    PROVE  StoreInv'
<1> USE IdempotentStoreAssumption DEF StoreInv
<1>1. /\ calls' \in [Callers -> CallRecords] /\ calls'[c].pc = p
      /\ \A d \in Callers : d # c => calls'[d] = calls[d]
  BY CallReset, Zenon
<1>2. \A d \in Callers : ~ Busy(d)'
  BY <1>1, Zenon DEF CallInv, Busy
<1>3. TypeOK'
  BY <1>1, Zenon DEF TypeOK, storeVars
<1>4. CallInv'
  BY <1>2, Zenon DEF CallInv, Busy
<1>5. AppliedExactlyOnce'
  BY AppliedStable, Zenon DEF storeVars
<1> QED
  BY <1>3, <1>4, <1>5, Zenon

\* A caller enters.
LEMMA EnterKeeps ==
    ASSUME StoreInv, NEW c \in Callers, Enter(c)
    PROVE  StoreInv'
<1> USE IdempotentStoreAssumption DEF StoreInv
<1>1. /\ UNCHANGED <<storeVars, up, answers, faults>> /\ Sync
      /\ up /\ mutex = None /\ mutex' = c
  BY Zenon DEF Enter
<1>2. /\ calls' \in [Callers -> CallRecords] /\ calls'[c].pc = "synced"
      /\ \A d \in Callers : d # c => calls'[d] = calls[d]
  BY CallReset, Zenon DEF Enter
<1>3. /\ memory' \in [Aggregates -> Nat] /\ lastSequence' = Len(journal)
      /\ lastSequence' \in 0..Len(journal') /\ ViewsAgree'
  BY <1>1, SyncReadsAll, Zenon
<1>4. TypeOK'
  BY <1>1, <1>2, <1>3, Zenon DEF TypeOK, storeVars
<1>5. \A d \in Callers : ~ Busy(d)
  BY <1>1, Zenon DEF CallInv
<1>6. CallInv'
  BY <1>1, <1>2, <1>3, <1>5, Zenon DEF CallInv, Busy, storeVars
<1>7. AppliedExactlyOnce'
  BY <1>1, AppliedStable, Zenon DEF storeVars
<1> QED
  BY <1>3, <1>4, <1>6, <1>7, Zenon

\* The key is looked up.
LEMMA LookupKeeps ==
    ASSUME StoreInv, NEW c \in Callers, Lookup(c)
    PROVE  StoreInv'
<1> USE IdempotentStoreAssumption DEF StoreInv
<1> DEFINE row == idempotency[Plan[c].key]
<1>1. UNCHANGED <<storeVars, up, lastSequence, memory, answers, faults>>
  BY Zenon DEF Lookup
<1>2. AppliedExactlyOnce' /\ ViewsAgree'
  BY <1>1, Zenon DEF AppliedExactlyOnce, ViewsAgree, storeVars
<1>3. row \in Results \cup {None} /\ calls[c].pc = "synced" /\ Busy(c)
  BY Zenon DEF TypeOK, Lookup, Busy
<1>4. \A d \in Callers : Busy(d) <=> d = c
  BY <1>3, Zenon DEF CallInv
<1>5. CASE row = None
  <2>1. mutex' = mutex /\ calls' = [calls EXCEPT ![c].pc = "handler"]
    BY <1>5, Zenon DEF Lookup
  <2>2. TypeOK'
    BY <1>1, <2>1, ZenonT(60) DEF TypeOK, storeVars, CallRecords
  <2>3. CallInv'
    BY <1>1, <1>3, <1>4, <1>5, <2>1, ZenonT(60) DEF CallInv, Busy, storeVars, TypeOK, CallRecords
  <2> QED
    BY <1>2, <2>2, <2>3, Zenon
<1>6. CASE row # None /\ row.request = Plan[c].request
  <2>1. mutex' = mutex
        /\ calls' = [calls EXCEPT ![c].pc = "committed", ![c].response = row.response]
    BY <1>6, Zenon DEF Lookup
  <2>2. row.response \in Nat /\ row = [request |-> row.request, response |-> row.response]
    BY <1>3, <1>6, Zenon DEF Results
  <2>3. TypeOK'
    BY <1>1, <2>1, <2>2, ZenonT(60) DEF TypeOK, storeVars, CallRecords
  <2>4. calls'[c].pc = "committed" /\ calls'[c].response = row.response
    BY <2>1 DEF TypeOK, CallRecords
  <2>5. \A d \in Callers : d # c => calls'[d] = calls[d]
    BY <2>1, Zenon DEF TypeOK
  <2>6. CallInv'
    BY <1>1, <1>3, <1>4, <1>6, <2>1, <2>2, <2>4, <2>5, ZenonT(60) DEF CallInv, Busy, storeVars
  <2> QED
    BY <1>2, <2>3, <2>6, Zenon
<1>7. CASE row # None /\ row.request # Plan[c].request
  <2>1. /\ mutex' = None
        /\ calls' = [calls EXCEPT ![c] = At("conflict")]
    BY <1>7, SMTT(30) DEF Lookup
  <2>2. mutex = c /\ memory' \in [Aggregates -> Nat] /\ lastSequence' \in 0..Len(journal')
        /\ faults' \in 0..MaxFaults
    BY <1>1, <1>3, Zenon DEF CallInv, TypeOK, storeVars
  <2> QED
    BY <1>1, <1>2, <2>1, <2>2, LeaveKeeps, Zenon
<1> QED
  BY <1>5, <1>6, <1>7, Zenon

-----------------------------------------------------------------------------
\* The handler stages its records or refuses.
LEMMA HandlerKeeps ==
    ASSUME StoreInv, NEW c \in Callers, Handler(c)
    PROVE  StoreInv'
<1> USE IdempotentStoreAssumption DEF StoreInv
<1> DEFINE touches == Plan[c].request.touches
           earlier(n) == {m \in 1..(n - 1) : touches[m] = touches[n]}
           record(n) == [aggregate |-> touches[n], key |-> Plan[c].key,
                         revision |-> memory[touches[n]] + 1 + Cardinality(earlier(n))]
           staged == [n \in 1..Len(touches) |-> record(n)]
           accepted == /\ memory[touches[1]] = Plan[c].request.expected
                       /\ \A n \in 1..Len(staged) :
                            staged[n].revision =
                              Highest(journal \o SubSeq(staged, 1, n - 1), staged[n].aggregate) + 1
<1>1. UNCHANGED <<storeVars, up, lastSequence, memory, answers, faults>>
  BY Zenon DEF Handler
<1>2. AppliedExactlyOnce' /\ ViewsAgree'
  BY <1>1, AppliedStable, Zenon DEF ViewsAgree, storeVars
<1>3. calls[c].pc = "handler" /\ mutex = c /\ touches \in Seq(Aggregates) /\ Len(touches) \in Nat
      /\ Len(touches) >= 1 /\ Plan[c].key \in Keys
  <2>1. calls[c].pc = "handler" /\ mutex = c
    BY Zenon DEF Handler, CallInv, Busy
  <2>2. touches \in Seq(Aggregates) /\ touches # <<>> /\ Plan[c].key \in Keys
    BY Zenon
  <2> QED
    BY <2>1, <2>2, EmptySeq
<1>4. ASSUME NEW n \in 1..Len(touches)
      PROVE  /\ IsFiniteSet(earlier(n)) /\ Cardinality(earlier(n)) \in Nat
             /\ memory[touches[n]] \in Nat /\ memory[touches[n]] = Count(journal, touches[n])
  <2>1. earlier(n) \subseteq 1..(n - 1) /\ IsFiniteSet(1..(n - 1))
    BY FS_Interval
  <2>2. touches[n] \in Aggregates
    BY <1>3
  <2>3. SubSeq(journal, 1, lastSequence) = journal
    BY <1>3, SubSeqFull, Zenon DEF TypeOK, CallInv
  <2> HIDE DEF earlier
  <2>4. IsFiniteSet(earlier(n)) /\ Cardinality(earlier(n)) \in Nat
    BY <2>1, FS_Subset, FS_CardinalityType, Zenon
  <2> QED
    BY <2>2, <2>3, <2>4, Zenon DEF TypeOK, ViewsAgree
<1>5. /\ staged \in Seq(Records) /\ Len(staged) = Len(touches)
      /\ \A n \in 1..Len(touches) :
           /\ staged[n].aggregate = touches[n] /\ staged[n].key = Plan[c].key
           /\ staged[n].revision = Count(journal, touches[n]) + 1 + Cardinality(earlier(n))
           /\ staged[n].revision \in Nat
  <2> HIDE DEF earlier
  <2>1. \A n \in 1..Len(touches) :
           /\ record(n) \in Records /\ record(n).aggregate = touches[n]
           /\ record(n).key = Plan[c].key /\ record(n).revision \in Nat
           /\ record(n).revision = Count(journal, touches[n]) + 1 + Cardinality(earlier(n))
    BY <1>3, <1>4, SMTT(60) DEF Records
  <2> HIDE DEF record
  <2>2. staged \in [1..Len(touches) -> Records]
    BY <2>1, Zenon
  <2> QED
    BY <1>3, <2>1, <2>2, FunctionIsSeq, SMTT(60)
<1>6. CASE accepted
  <2>1. /\ calls' = [calls EXCEPT ![c] = [pc |-> "staged", staged |-> staged,
                                          response |-> staged[1].revision]]
        /\ mutex' = mutex
    BY <1>6, Zenon DEF Handler
  <2> HIDE DEF staged, accepted, record, earlier, touches
  <2>2. ASSUME NEW n \in 1..Len(touches)
        PROVE  staged[n].revision = Count(journal, touches[n]) + Count(SubSeq(staged, 1, n), touches[n])
    <3>1. DOMAIN SubSeq(staged, 1, n) = 1..n /\ \A i \in 1..n : SubSeq(staged, 1, n)[i] = staged[i]
      BY <1>3, <1>5, PrefixIs
    <3>2. n \notin earlier(n) /\ RecordsOf(SubSeq(staged, 1, n), touches[n]) = earlier(n) \cup {n}
      <4>1. \A i \in 1..n : SubSeq(staged, 1, n)[i].aggregate = touches[i]
        BY <1>3, <1>5, <3>1
      <4>2. RecordsOf(SubSeq(staged, 1, n), touches[n]) = {i \in 1..n : touches[i] = touches[n]}
        BY <3>1, <4>1, Zenon DEF RecordsOf
      <4>3. {i \in 1..n : touches[i] = touches[n]} = earlier(n) \cup {n} /\ n \notin earlier(n)
        BY <1>3 DEF earlier
      <4> QED
        BY <4>2, <4>3, Zenon
    <3>3. IsFiniteSet(earlier(n)) /\ Cardinality(earlier(n)) \in Nat
          /\ Cardinality(earlier(n) \cup {n}) = Cardinality(earlier(n)) + 1
      BY <1>4, <3>2, FS_AddElement, Zenon
    <3>4. Count(SubSeq(staged, 1, n), touches[n]) = Cardinality(earlier(n)) + 1
      BY <3>2, <3>3, Zenon DEF Count
    <3>5. Count(journal, touches[n]) \in Nat
      BY <1>4, Zenon
    <3> QED
      BY <1>5, <3>3, <3>4, <3>5
  <2>3. /\ calls'[c] = [pc |-> "staged", staged |-> staged, response |-> staged[1].revision]
        /\ calls' \in [Callers -> CallRecords]
        /\ \A d \in Callers : d # c => calls'[d] = calls[d]
    <3>1. [pc |-> "staged", staged |-> staged, response |-> staged[1].revision] \in CallRecords
      BY <1>3, <1>5 DEF CallRecords
    <3> QED
      BY <2>1, <3>1, Zenon DEF TypeOK
  <2>4. TypeOK'
    BY <1>1, <2>1, <2>3, Zenon DEF TypeOK, storeVars
  <2>5. StagedForRequest(c)'
    <3>1. journal' = journal /\ calls'[c].staged = staged /\ calls'[c].response \in Nat
      BY <1>1, <1>3, <1>5, <2>3 DEF storeVars
    <3> QED
      BY <1>5, <2>2, <3>1, Zenon DEF StagedForRequest, touches
  <2>6. \A d \in Callers : calls'[d].pc = "staged" => d = c
    BY <1>3, <2>3, Zenon DEF CallInv, Busy
  <2>7. CallInv'
    BY <1>1, <1>3, <2>1, <2>3, <2>5, <2>6, ZenonT(60) DEF CallInv, Busy, storeVars
  <2> QED
    BY <1>2, <2>4, <2>7, Zenon
<1>7. CASE ~ accepted
  <2>1. mutex' = None /\ calls' = [calls EXCEPT ![c] = At("idle")]
    BY <1>7, Zenon DEF Handler, Return, Idle
  <2>2. memory' \in [Aggregates -> Nat] /\ lastSequence' \in 0..Len(journal')
        /\ faults' \in 0..MaxFaults
    BY <1>1, Zenon DEF TypeOK, storeVars
  <2> QED
    BY <1>1, <1>2, <1>3, <2>1, <2>2, LeaveKeeps, Zenon
<1> QED
  BY <1>6, <1>7, Zenon

\* The staged records extend the journal by the next revisions, in order.
LEMMA CommitViews ==
    ASSUME StoreInv, NEW c \in Callers, Commit(c)
    PROVE  /\ journal' \in Seq(Records) /\ Len(journal') = Len(journal) + Len(calls[c].staged)
           /\ snapshots' \in [Aggregates -> Nat] /\ ViewsAgree'
<1> USE IdempotentStoreAssumption DEF StoreInv
<1> DEFINE staged == calls[c].staged
           old == Len(journal)
<1>1. /\ journal' = journal \o staged /\ UNCHANGED coreVars
      /\ snapshots' = [a \in Aggregates |-> Applied(staged, a, snapshots[a])]
  BY Zenon DEF Commit
<1>2. /\ staged \in Seq(Records) /\ journal \in Seq(Records) /\ lastSequence = old
      /\ Len(staged) \in Nat /\ old \in Nat /\ Numbered(journal)
      /\ \A j \in 1..Len(staged) : staged[j].revision =
             Count(journal, staged[j].aggregate) + Count(SubSeq(staged, 1, j), staged[j].aggregate)
  <2>1. calls[c] \in CallRecords /\ calls[c].pc = "staged" /\ journal \in Seq(Records)
    BY Zenon DEF Commit, TypeOK
  <2>2. staged \in Seq(Records) /\ lastSequence = old /\ StagedForRequest(c)
    BY <2>1, Zenon DEF CallRecords, CallInv
  <2>3. \A j \in 1..Len(staged) : staged[j].revision =
             Count(journal, staged[j].aggregate) + Count(SubSeq(staged, 1, j), staged[j].aggregate)
    BY <2>2, Zenon DEF StagedForRequest
  <2> QED
    BY <2>1, <2>2, <2>3 DEF ViewsAgree
<1> HIDE DEF staged, old
<1>3. /\ journal' \in Seq(Records) /\ Len(journal') = old + Len(staged)
      /\ DOMAIN journal' = 1..(old + Len(staged))
      /\ \A n \in 1..old : journal'[n] = journal[n]
      /\ \A j \in 1..Len(staged) : journal'[old + j] = staged[j]
  BY <1>1, <1>2, ConcatIs, SMTT(30) DEF old
<1>4. \A n \in 0..old : SubSeq(journal', 1, n) = SubSeq(journal, 1, n)
  <2> SUFFICES ASSUME NEW n \in 0..old
               PROVE  SubSeq(journal \o staged, 1, n) = SubSeq(journal, 1, n)
    BY <1>1, Zenon
  <2> QED
    BY <1>2, PrefixKept, Zenon DEF old
<1>5. ASSUME NEW n \in 1..(old + Len(staged))
      PROVE  journal'[n].revision = Count(SubSeq(journal', 1, n), journal'[n].aggregate)
  <2>1. CASE n \in 1..old
    <3>1. n \in 0..old /\ n \in DOMAIN journal
      BY <1>2, <2>1 DEF old
    <3> QED
      BY <1>2, <1>3, <1>4, <2>1, <3>1, ZenonT(60) DEF Numbered
  <2>2. CASE n \notin 1..old
    <3> DEFINE j == n - old
    <3>1. n = old + j /\ j \in 1..Len(staged) /\ j \in 0..Len(staged)
      BY <1>2, <2>2
    <3> HIDE DEF j
    <3>2. SubSeq(journal', 1, n) = journal \o SubSeq(staged, 1, j)
      <4>1. SubSeq(journal \o staged, 1, Len(journal) + j) = journal \o SubSeq(staged, 1, j)
        BY <1>2, <3>1, PrefixOfSecond, Zenon
      <4> QED
        BY <1>1, <3>1, <4>1, Zenon DEF old
    <3>3. SubSeq(staged, 1, j) \in Seq(Records)
      BY <1>2, <3>1, PrefixIs, Zenon
    <3>4. \A a : Count(journal \o SubSeq(staged, 1, j), a)
                  = Count(journal, a) + Count(SubSeq(staged, 1, j), a)
      BY ONLY <1>2, <3>3, CountConcat, ZenonT(60)
    <3> QED
      BY <1>2, <1>3, <3>1, <3>2, <3>4, ZenonT(60)
  <2> QED
    BY <2>1, <2>2, Zenon
<1>6. Numbered(journal')
  BY <1>3, <1>5, Zenon DEF Numbered
<1>7. ASSUME NEW a \in Aggregates
      PROVE  snapshots'[a] = Count(journal', a) /\ Count(journal', a) \in Nat
  <2>1. Applied(staged, a, Count(journal, a)) = Count(journal \o staged, a)
    BY <1>1, <1>2, <1>6, AppliedIsCount, Zenon
  <2>2. snapshots[a] = Count(journal, a)
    BY Zenon DEF ViewsAgree
  <2> QED
    BY <1>1, <1>3, <2>1, <2>2, CountType, Zenon
<1>8. snapshots' \in [Aggregates -> Nat]
  <2>1. snapshots' = [a \in Aggregates |-> snapshots'[a]]
    BY <1>1, Zenon
  <2> QED
    BY <1>7, <2>1, Zenon
<1>9. \A a \in Aggregates : memory'[a] = Count(SubSeq(journal', 1, lastSequence'), a)
  <2>1. memory' = memory /\ lastSequence' = lastSequence /\ lastSequence \in 0..old
    BY <1>1, <1>2 DEF coreVars
  <2>2. SubSeq(journal', 1, lastSequence') = SubSeq(journal, 1, lastSequence)
    BY <1>4, <2>1, Zenon
  <2> QED
    BY <2>1, <2>2, Zenon DEF ViewsAgree
<1> QED
  BY <1>3, <1>6, <1>7, <1>8, <1>9 DEF ViewsAgree, old, staged

\* A block of records of another key changes nothing for a key.
LEMMA OtherKeyStable ==
    ASSUME NEW s \in Seq(Records), NEW t \in Seq(Records), NEW k,
           \A n \in DOMAIN t : t[n].key # k
    PROVE  /\ Unapplied(s, k) => Unapplied(s \o t, k)
           /\ \A touches \in Seq(Aggregates) :
                AppliedOnce(s, k, touches) => AppliedOnce(s \o t, k, touches)
<1> DEFINE st == s \o t
<1>1. /\ st \in Seq(Records) /\ Len(st) = Len(s) + Len(t) /\ Len(s) \in Nat /\ Len(t) \in Nat
      /\ \A n \in 1..Len(s) : st[n] = s[n]
      /\ \A n \in 1..Len(st) : n \notin 1..Len(s) => st[n].key # k
  OBVIOUS
<1> HIDE DEF st
<1>2. ASSUME Unapplied(s, k) PROVE Unapplied(st, k)
  BY <1>1, <1>2 DEF Unapplied
<1>3. ASSUME NEW touches \in Seq(Aggregates), AppliedOnce(s, k, touches)
      PROVE  AppliedOnce(st, k, touches)
  <2>1. PICK first \in 0..(Len(s) - Len(touches)) :
            /\ \A n \in DOMAIN s : s[n].key = k <=> n \in (first + 1)..(first + Len(touches))
            /\ \A n \in 1..Len(touches) : s[first + n].aggregate = touches[n]
    BY <1>3, Zenon DEF AppliedOnce
  <2>2. Len(touches) \in Nat /\ first \in 0..(Len(st) - Len(touches))
    BY <1>1, <2>1
  <2>3. ASSUME NEW n \in 1..Len(st)
        PROVE  st[n].key = k <=> n \in (first + 1)..(first + Len(touches))
    <3>1. CASE n \in 1..Len(s)
      <4>1. st[n] = s[n] /\ n \in DOMAIN s
        BY <1>1, <3>1
      <4> QED
        BY <2>1, <4>1, Zenon
    <3>2. CASE n \notin 1..Len(s)
      <4>1. n \notin (first + 1)..(first + Len(touches))
        BY <1>1, <2>1, <2>2, <3>2
      <4> QED
        BY <1>1, <3>2, <4>1, Zenon
    <3> QED
      BY <3>1, <3>2, Zenon
  <2>4. ASSUME NEW n \in 1..Len(touches)
        PROVE  st[first + n].aggregate = touches[n]
    <3>1. first + n \in 1..Len(s)
      BY <1>1, <2>1, <2>2
    <3> QED
      BY <1>1, <2>1, <3>1, SMTT(60)
  <2>5. DOMAIN st = 1..Len(st)
    BY <1>1
  <2> QED
    BY <2>2, <2>3, <2>4, <2>5, Zenon DEF AppliedOnce
<1> QED
  BY <1>2, <1>3, Zenon DEF st

\* The block a commit appends is the only one of its key.
LEMMA NewKeyApplied ==
    ASSUME NEW s \in Seq(Records), NEW t \in Seq(Records), NEW k, NEW touches \in Seq(Aggregates),
           Unapplied(s, k), Len(t) = Len(touches),
           \A n \in 1..Len(touches) : t[n].key = k /\ t[n].aggregate = touches[n]
    PROVE  AppliedOnce(s \o t, k, touches)
<1> DEFINE st == s \o t
<1>1. /\ DOMAIN st = 1..Len(st) /\ Len(st) = Len(s) + Len(t) /\ Len(s) \in Nat /\ Len(t) \in Nat
      /\ \A n \in 1..Len(s) : st[n] = s[n]
      /\ \A n \in 1..Len(t) : st[Len(s) + n] = t[n]
  BY ONLY ConcatIs, s \in Seq(Records), t \in Seq(Records)
<1>2. \A n \in 1..Len(s) : s[n].key # k
  BY DEF Unapplied
<1> HIDE DEF st
<1>3. ASSUME NEW n \in 1..Len(st)
      PROVE  st[n].key = k <=> n \in (Len(s) + 1)..(Len(s) + Len(touches))
  <2>1. CASE n \in 1..Len(s)
    BY <1>1, <1>2, <2>1
  <2>2. CASE n \notin 1..Len(s)
    <3>1. n - Len(s) \in 1..Len(t) /\ n = Len(s) + (n - Len(s))
          /\ n \in (Len(s) + 1)..(Len(s) + Len(touches))
      BY <1>1, <2>2
    <3>2. st[n] = t[n - Len(s)]
      BY <1>1, <3>1, Zenon
    <3> QED
      BY <3>1, <3>2, Zenon
  <2> QED
    BY <2>1, <2>2, Zenon
<1>4. \A n \in 1..Len(touches) : st[Len(s) + n].aggregate = touches[n]
  BY <1>1, Zenon
<1>5. Len(s) \in 0..(Len(st) - Len(touches))
  BY <1>1
<1>6. AppliedOnce(st, k, touches)
  <2>1. \A n \in DOMAIN st : st[n].key = k <=> n \in (Len(s) + 1)..(Len(s) + Len(touches))
    BY <1>1, <1>3, Zenon
  <2> QED
    BY <1>4, <1>5, <2>1, Zenon DEF AppliedOnce
<1> QED
  BY <1>6, Zenon DEF st

\* Records, snapshots and the result become durable together.
LEMMA CommitKeeps ==
    ASSUME StoreInv, NEW c \in Callers, Commit(c)
    PROVE  StoreInv'
<1> USE IdempotentStoreAssumption DEF StoreInv
<1> DEFINE k == Plan[c].key
           staged == calls[c].staged
           touches == Plan[c].request.touches
           row == [request |-> Plan[c].request, response |-> calls[c].response]
<1>1. /\ calls[c].pc = "staged" /\ journal' = journal \o staged
      /\ idempotency' = [idempotency EXCEPT ![k] = row]
      /\ calls' = [calls EXCEPT ![c].pc = "committed"] /\ UNCHANGED <<coreVars, answers, faults>>
  BY Zenon DEF Commit
<1>2. /\ journal' \in Seq(Records) /\ Len(journal') = Len(journal) + Len(staged)
      /\ snapshots' \in [Aggregates -> Nat] /\ ViewsAgree'
  BY CommitViews, Zenon
<1>3. /\ journal \in Seq(Records) /\ staged \in Seq(Records) /\ touches \in Seq(Aggregates)
      /\ k \in Keys /\ idempotency[k] = None /\ mutex = c
  BY <1>1, Zenon DEF TypeOK, CallRecords, CallInv, Busy
<1>4. /\ Len(staged) = Len(touches) /\ calls[c].response \in Nat
      /\ \A n \in 1..Len(touches) : staged[n].key = k /\ staged[n].aggregate = touches[n]
  BY <1>1, Zenon DEF CallInv, StagedForRequest
<1>5. row \in Results /\ row # None /\ row.request.touches = touches
  BY <1>4 DEF Results, Requests
<1>6. /\ idempotency' \in [Keys -> Results \cup {None}] /\ idempotency'[k] = row
      /\ \A i \in Keys : i # k => idempotency'[i] = idempotency[i]
  BY <1>1, <1>3, <1>5, Zenon DEF TypeOK
<1>7. /\ calls' \in [Callers -> CallRecords] /\ calls'[c].pc = "committed"
      /\ calls'[c].response = calls[c].response
      /\ \A d \in Callers : d # c => calls'[d] = calls[d]
  <2>1. calls \in [Callers -> CallRecords] /\ calls[c] \in CallRecords
    BY Zenon DEF TypeOK
  <2>2. /\ calls'[c] = [calls[c] EXCEPT !.pc = "committed"]
        /\ \A d \in Callers : d # c => calls'[d] = calls[d]
        /\ calls' = [d \in Callers |-> calls'[d]]
    BY <1>1, <2>1, Zenon
  <2>3. calls'[c] \in CallRecords /\ calls'[c].pc = "committed"
        /\ calls'[c].response = calls[c].response
    BY <2>1, <2>2, Zenon DEF CallRecords
  <2> QED
    BY <2>1, <2>2, <2>3, Zenon
<1>8. TypeOK'
  <2>1. lastSequence' \in 0..Len(journal')
    BY <1>1, <1>2, <1>3 DEF TypeOK, coreVars
  <2> QED
    BY <1>1, <1>2, <1>6, <1>7, <2>1, Zenon DEF TypeOK, coreVars
<1>9. CallInv'
  <2>1. \A d \in Callers : Busy(d)' <=> mutex' = d
    BY <1>1, <1>3, <1>7, Zenon DEF CallInv, Busy, coreVars
  <2>2. mutex' # None => up'
    BY <1>1, Zenon DEF CallInv, coreVars
  <2>3. \A d \in Callers : d # c => calls'[d].pc \notin {"synced", "handler", "staged", "committed"}
    BY <1>1, <1>3, <2>1, Zenon DEF Busy, coreVars
  <2>4. /\ calls'[c].response \in Nat
        /\ idempotency'[Plan[c].key] = [request |-> Plan[c].request, response |-> calls'[c].response]
    BY <1>4, <1>6, <1>7, Zenon
  <2> QED
    BY <1>7, <2>1, <2>2, <2>3, <2>4, Zenon DEF CallInv
<1>10. ASSUME NEW i \in Keys
       PROVE  IF idempotency'[i] = None
                THEN Unapplied(journal', i)
                ELSE AppliedOnce(journal', i, idempotency'[i].request.touches)
  <2>1. CASE i = k
    <3>1. Unapplied(journal, k)
      BY <1>3, Zenon DEF AppliedExactlyOnce
    <3>2. AppliedOnce(journal \o staged, k, touches)
      <4> HIDE DEF k, staged, touches
      <4> QED
        BY <1>3, <1>4, <3>1, NewKeyApplied, Zenon
    <3> QED
      BY <1>1, <1>5, <1>6, <2>1, <3>2, SMTT(60)
  <2>2. CASE i # k
    <3>1. \A n \in DOMAIN staged : staged[n].key # i
      <4> HIDE DEF k, staged, touches
      <4>1. DOMAIN staged = 1..Len(touches)
        BY <1>3, <1>4
      <4> QED
        BY <1>4, <2>2, <4>1, Zenon
    <3>2. idempotency'[i] = idempotency[i]
      BY <1>6, <2>2, Zenon
    <3>3. CASE idempotency[i] = None
      <4>1. Unapplied(journal, i)
        BY <3>3, Zenon DEF AppliedExactlyOnce
      <4> QED
        BY <1>1, <1>3, <3>1, <3>2, <3>3, <4>1, OtherKeyStable, Zenon
    <3>4. CASE idempotency[i] # None
      <4>1. AppliedOnce(journal, i, idempotency[i].request.touches)
        BY <3>4, Zenon DEF AppliedExactlyOnce
      <4>2. idempotency[i].request.touches \in Seq(Aggregates)
        BY <3>4, Zenon DEF TypeOK, Results, Requests
      <4> QED
        BY <1>1, <1>3, <3>1, <3>2, <3>4, <4>1, <4>2, OtherKeyStable, Zenon
    <3> QED
      BY <3>3, <3>4, Zenon
  <2> QED
    BY <2>1, <2>2, Zenon
<1>11. AppliedExactlyOnce'
  BY <1>10, Zenon DEF AppliedExactlyOnce
<1> QED
  BY <1>2, <1>8, <1>9, <1>11, Zenon

\* The initial state and every step keep the invariant.
LEMMA StoreInvInit == Init => StoreInv
<1> SUFFICES ASSUME Init PROVE StoreInv
  BY Zenon
<1> USE IdempotentStoreAssumption DEF Init
<1>1. journal \in Seq(Records) /\ journal = <<>> /\ Len(journal) = 0 /\ DOMAIN journal = {}
  BY EmptySeq
<1>2. \A a : Count(<<>>, a) = 0
  <2>1. \A a : RecordsOf(<<>>, a) = {}
    BY DEF RecordsOf
  <2> QED
    BY <2>1, CountNone, Zenon
<1>3. SubSeq(<<>>, 1, 0) = <<>>
  BY SubSeqEmpty
<1>4. \A c \in Callers : calls[c].pc = "idle" /\ calls[c] \in CallRecords
  BY EmptySeq, Zenon DEF Idle, At, CallRecords
<1>5. TypeOK
  <2>1. calls \in [Callers -> CallRecords]
    BY <1>4, Zenon
  <2> QED
    BY <1>1, <2>1 DEF TypeOK
<1>6. CallInv
  BY <1>4, Zenon DEF CallInv, Busy
<1>7. ViewsAgree
  BY <1>1, <1>2, <1>3, Zenon DEF ViewsAgree, Numbered
<1>8. AppliedExactlyOnce
  BY <1>1, Zenon DEF AppliedExactlyOnce, Unapplied
<1> QED
  BY <1>5, <1>6, <1>7, <1>8, Zenon DEF StoreInv

\* The answer, the faults, the crash and the restart.
LEMMA FinishKeeps ==
    ASSUME StoreInv, NEW c \in Callers, Finish(c)
    PROVE  StoreInv'
<1>1. /\ UNCHANGED <<storeVars, up, faults>> /\ Sync /\ mutex' = None /\ calls[c].pc = "committed"
      /\ calls' = [calls EXCEPT ![c] = At("answered")]
  BY Zenon DEF Finish
<1>2. mutex = c /\ faults' \in 0..MaxFaults
  BY <1>1, Zenon DEF StoreInv, CallInv, Busy, TypeOK
<1>3. memory' \in [Aggregates -> Nat] /\ lastSequence' \in 0..Len(journal') /\ ViewsAgree'
  BY <1>1, SyncReadsAll, Zenon DEF StoreInv
<1> QED
  BY <1>1, <1>2, <1>3, LeaveKeeps, Zenon

LEMMA FaultKeeps ==
    ASSUME StoreInv, NEW c \in Callers, Fault(c)
    PROVE  StoreInv'
<1>1. /\ UNCHANGED <<storeVars, up, lastSequence, memory>> /\ mutex = c /\ mutex' = None
      /\ calls' = [calls EXCEPT ![c] = At("idle")]
      /\ faults < MaxFaults /\ faults' = faults + 1
  BY Zenon DEF Fault, Return, Idle
<1>2. /\ faults' \in 0..MaxFaults /\ memory' \in [Aggregates -> Nat]
      /\ lastSequence' \in 0..Len(journal')
  BY <1>1, IdempotentStoreAssumption DEF StoreInv, TypeOK, storeVars
<1>3. ViewsAgree'
  BY <1>1, Zenon DEF StoreInv, ViewsAgree, storeVars
<1> QED
  BY <1>1, <1>2, <1>3, LeaveKeeps, Zenon

LEMMA RestartKeeps ==
    ASSUME StoreInv, Restart
    PROVE  StoreInv'
<1>1. UNCHANGED <<storeVars, mutex, calls, answers, faults>> /\ Sync /\ ~ up /\ up' = TRUE
  BY Zenon DEF Restart
<1>2. /\ memory' \in [Aggregates -> Nat] /\ lastSequence' = Len(journal)
      /\ lastSequence' \in 0..Len(journal') /\ ViewsAgree'
  BY <1>1, SyncReadsAll, Zenon DEF StoreInv
<1>3. TypeOK'
  BY <1>1, <1>2, Zenon DEF StoreInv, TypeOK, storeVars
<1>4. CallInv'
  <2>1. \A c \in Callers : ~ Busy(c)
    BY <1>1, IdempotentStoreAssumption, Zenon DEF StoreInv, CallInv
  <2> QED
    BY <1>1, <2>1, Zenon DEF StoreInv, CallInv, Busy
<1>5. AppliedExactlyOnce'
  BY <1>1, AppliedStable, Zenon DEF StoreInv, storeVars
<1> QED
  BY <1>2, <1>3, <1>4, <1>5, Zenon DEF StoreInv

LEMMA CrashKeeps ==
    ASSUME StoreInv, Crash
    PROVE  StoreInv'
<1>1. /\ UNCHANGED <<storeVars, answers>> /\ faults < MaxFaults /\ faults' = faults + 1
      /\ up' = FALSE /\ lastSequence' = 0 /\ memory' = [a \in Aggregates |-> 0] /\ mutex' = None
      /\ calls' = [c \in Callers |-> IF mutex = c THEN At("idle") ELSE calls[c]]
  BY Zenon DEF Crash, Idle
<1>2. At("idle").pc = "idle" /\ At("idle") \in CallRecords
  BY EmptySeq, Zenon DEF At, CallRecords
<1>3. calls' \in [Callers -> CallRecords] /\ \A c \in Callers : ~ Busy(c)'
  <2>1. \A c \in Callers : calls[c] \in CallRecords /\ (Busy(c) <=> mutex = c)
    BY Zenon DEF StoreInv, TypeOK, CallInv
  <2>2. ASSUME NEW c \in Callers
        PROVE  calls'[c] \in CallRecords
               /\ calls'[c].pc \notin {"synced", "handler", "staged", "committed"}
    <3>1. CASE mutex = c
      BY <1>1, <1>2, <3>1, Zenon
    <3>2. CASE mutex # c
      BY <1>1, <2>1, <3>2, Zenon DEF Busy
    <3> QED
      BY <3>1, <3>2, Zenon
  <2>3. calls' = [c \in Callers |-> calls'[c]]
    BY <1>1, Zenon
  <2> QED
    BY <2>2, <2>3, Zenon DEF Busy
<1>4. journal' = journal /\ journal \in Seq(Records) /\ 0 \in 0..Len(journal)
  BY <1>1 DEF StoreInv, TypeOK, storeVars
<1>5. TypeOK'
  <2>1. memory' \in [Aggregates -> Nat] /\ mutex' \in Callers \cup {None}
        /\ lastSequence' \in 0..Len(journal') /\ up' \in BOOLEAN
    BY <1>1, <1>4, Zenon
  <2>2. faults' \in 0..MaxFaults
    <3>1. faults \in 0..MaxFaults /\ MaxFaults \in Nat
      BY IdempotentStoreAssumption, Zenon DEF StoreInv, TypeOK
    <3> QED
      BY ONLY <1>1, <3>1
  <2>3. /\ journal' \in Seq(Records) /\ snapshots' \in [Aggregates -> Nat]
        /\ idempotency' \in [Keys -> Results \cup {None}]
    BY <1>1, Zenon DEF StoreInv, TypeOK, storeVars
  <2> QED
    BY <1>3, <2>1, <2>2, <2>3, Zenon DEF TypeOK
<1>6. CallInv'
  <2>1. \A c \in Callers : mutex' # c
           /\ calls'[c].pc \notin {"synced", "handler", "staged", "committed"}
    BY <1>1, <1>3, IdempotentStoreAssumption, Zenon DEF Busy
  <2> QED
    BY <1>1, <2>1, Zenon DEF CallInv, Busy
<1>7. \A a \in Aggregates : memory'[a] = Count(SubSeq(journal', 1, lastSequence'), a)
  <2>1. SubSeq(journal, 1, 0) = <<>>
    BY SubSeqEmpty
  <2>2. \A a : RecordsOf(<<>>, a) = {}
    BY DEF RecordsOf
  <2>3. \A a : Count(<<>>, a) = 0
    BY <2>2, CountNone, Zenon
  <2> QED
    BY <1>1, <1>4, <2>1, <2>3, Zenon
<1>8. ViewsAgree'
  BY <1>1, <1>4, <1>7, Zenon DEF StoreInv, ViewsAgree, storeVars
<1>9. AppliedExactlyOnce'
  BY <1>1, AppliedStable, Zenon DEF StoreInv, storeVars
<1> QED
  BY <1>5, <1>6, <1>8, <1>9, Zenon DEF StoreInv

LEMMA StoreInvNext == StoreInv /\ [Next]_vars => StoreInv'
<1> SUFFICES ASSUME StoreInv, [Next]_vars PROVE StoreInv'
  BY Zenon
<1>1. ASSUME NEW c \in Callers, Step(c) PROVE StoreInv'
  BY <1>1, EnterKeeps, LookupKeeps, HandlerKeeps, CommitKeeps, FinishKeeps, SMTT(60) DEF Step
<1>2. CASE UNCHANGED vars
  <2>1. TypeOK' /\ CallInv'
    BY <1>2, SMTT(30) DEF StoreInv, TypeOK, CallInv, Busy, StagedForRequest, vars, storeVars, coreVars
  <2>2. ViewsAgree' /\ AppliedExactlyOnce'
    BY <1>2, AppliedStable, Zenon DEF StoreInv, ViewsAgree, vars, storeVars, coreVars
  <2> QED
    BY <2>1, <2>2, SMTT(60) DEF StoreInv
<1> QED
  BY <1>1, <1>2, FaultKeeps, CrashKeeps, RestartKeeps, Zenon DEF Next

\* The inductive invariant of the store and its callers.
THEOREM StoreInvariant == Spec => []StoreInv
  BY StoreInvInit, StoreInvNext, PTL DEF Spec

\* A key's records are in the journal exactly when its result is stored, in
\* one piece: RunIdempotent never applies a request twice or in part, however
\* callers, retries, faults and crashes interleave.
THEOREM KeysApplyOnce == Spec => []AppliedExactlyOnce
<1>1. StoreInv => AppliedExactlyOnce
  BY Zenon DEF StoreInv
<1> QED
  BY <1>1, StoreInvariant, PTL

\* Journal, snapshots and Core's maps agree at all times.
THEOREM StoreViewsAgree == Spec => []ViewsAgree
<1>1. StoreInv => ViewsAgree
  BY Zenon DEF StoreInv
<1> QED
  BY <1>1, StoreInvariant, PTL

\* The initial states of the store are initial states of ExactlyOnce.
LEMMA OnceInit == Init => Once!Init
  BY Zenon DEF Init, Once!Init

\* A commit is the one execution of its key, an answer is an answer of
\* ExactlyOnce, and every other step stutters.
LEMMA OnceNext == StoreInv /\ [Next]_vars => [Once!Next]_<<idempotency, answers>>
<1> SUFFICES ASSUME StoreInv, [Next]_vars
             PROVE  Once!Next \/ UNCHANGED <<idempotency, answers>>
  BY Zenon
<1>1. ASSUME NEW c \in Callers, Commit(c) PROVE Once!Next
  <2> DEFINE k == Plan[c].key
             row == [request |-> Plan[c].request, response |-> calls[c].response]
  <2>1. idempotency[k] = None /\ k \in Keys /\ row \in Once!Executions
    BY <1>1, IdempotentStoreAssumption, Zenon
    DEF Commit, StoreInv, CallInv, StagedForRequest, Once!Executions, Requests
  <2>2. idempotency' = [idempotency EXCEPT ![k] = row] /\ answers' = answers
    BY <1>1, Zenon DEF Commit
  <2>3. idempotency'[k] = row
    BY <2>1, <2>2, Zenon DEF StoreInv, TypeOK
  <2>4. Once!Execute(k)
    BY <2>1, <2>2, <2>3, Zenon DEF Once!Execute
  <2> QED
    BY <2>1, <2>4, Zenon DEF Once!Next
<1>2. ASSUME NEW c \in Callers, Finish(c) PROVE Once!Next
  <2> DEFINE k == Plan[c].key
             row == [request |-> Plan[c].request, response |-> calls[c].response]
  <2>1. /\ calls[c].pc = "committed" /\ idempotency' = idempotency
        /\ answers' = answers \cup {[key |-> k, request |-> Plan[c].request,
                                     response |-> calls[c].response]}
    BY <1>2, Zenon DEF Finish, storeVars
  <2>2. k \in Keys /\ idempotency[k] = row /\ calls[c].response \in Nat
    BY <2>1, IdempotentStoreAssumption, Zenon DEF StoreInv, CallInv
  <2>3. row \in Results /\ row.request = Plan[c].request /\ row.response = calls[c].response
    BY <2>2, Zenon DEF Results, Requests
  <2>4. row # None
    BY <2>3, IdempotentStoreAssumption, Zenon
  <2> HIDE DEF k, row
  <2>5. Once!Answer(k)
    BY <2>1, <2>2, <2>3, <2>4, Zenon DEF Once!Answer
  <2> QED
    BY <2>2, <2>5, Zenon DEF Once!Next
<1>3. ASSUME NEW c \in Callers, Enter(c) \/ Lookup(c) \/ Handler(c) \/ Fault(c)
      PROVE  UNCHANGED <<idempotency, answers>>
  BY <1>3, Zenon DEF Enter, Lookup, Handler, Fault, storeVars
<1>4. ASSUME Crash \/ Restart \/ UNCHANGED vars PROVE UNCHANGED <<idempotency, answers>>
  BY <1>4, Zenon DEF Crash, Restart, vars, storeVars
<1> QED
  BY <1>1, <1>2, <1>3, <1>4, SMTT(60) DEF Next, Step

\* RunIdempotent implements ExactlyOnce: the idempotency table is the table of
\* executions, for any callers, keys, requests and number of faults.
THEOREM StoreImplementsExactlyOnce == Spec => RefinesExactlyOnce
  BY OnceInit, OnceNext, StoreInvariant, PTL DEF Spec, RefinesExactlyOnce, Once!Spec

=============================================================================
