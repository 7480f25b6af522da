---------------------------- MODULE PolicyRegistry ----------------------------
(***************************************************************************)
(* The publication of effective policies (internal/policyregistry,         *)
(* internal/orchestration/policyauthority) as the daemon does it at each   *)
(* start: every document of the deployment is compiled against the node's  *)
(* capability fingerprint, and then published, in the order of the         *)
(* references, by three separate writes of the store.  A start may be cut  *)
(* short anywhere, and the next one may come with other documents or with  *)
(* another fingerprint.  A digest stands for the content it names: the     *)
(* identity of a document is part of its content.                          *)
(***************************************************************************)
EXTENDS Naturals, Sequences

CONSTANTS
    References,     \* a sequence: the policy references in their sorted order
    Documents,      \* what a reference's source may say
    Fingerprints,   \* capability fingerprints the node may report
    Supported       \* the pairs of a document and a fingerprint that compile

VARIABLES
    policies, references, digests,      \* the store
    deployment, fingerprint,            \* what this start was given
    position, step,                     \* how far it is
    returned                            \* history: the publications reported

registryVars == <<policies, references, digests, deployment, fingerprint, position, step, returned>>
storeVars == <<policies, references, digests>>

Names == {References[i] : i \in 1..Len(References)}
NoPublication == [reference |-> "none", document |-> "none", fingerprint |-> "none"]
Publications == [reference : Names, document : Documents, fingerprint : Fingerprints]

\* The digest of a policy, and the key under which its publication is found.
PolicyDigest(p) == <<p.reference, p.document>>
DigestBinding(p) == <<PolicyDigest(p), p.fingerprint>>
Bindings == {DigestBinding(p) : p \in Publications}

Init ==
    /\ policies = {}
    /\ references = [r \in Names |-> NoPublication]
    /\ digests = [d \in Bindings |-> NoPublication]
    /\ deployment \in [Names -> Documents] /\ fingerprint \in Fingerprints
    /\ position = 1 /\ step = "down" /\ returned = {}

Current == [reference |-> References[position], document |-> deployment[References[position]],
            fingerprint |-> fingerprint]

\* Faulty variant: the write replaces what is there.
PuttableOver(stored, p) == TRUE

\* PutPolicy and PutObject insert, or find the same bytes: anything else conflicts.
Puttable(stored, p) == stored \in {NoPublication, p}

-------------------------------------------------------------------------------
(* A start of the daemon.                                                  *)

\* compileAndBindPolicies compiles everything before anything is published.
Compile ==
    /\ step = "down"
    /\ deployment' \in [Names -> Documents] /\ fingerprint' \in Fingerprints
    /\ \A r \in Names : <<deployment'[r], fingerprint'>> \in Supported
    /\ position' = 1 /\ step' = "policy"
    /\ UNCHANGED <<storeVars, returned>>

PutPolicy ==
    /\ step = "policy"
    /\ policies' = policies \cup {PolicyDigest(Current)}
    /\ step' = "reference"
    /\ UNCHANGED <<references, digests, deployment, fingerprint, position, returned>>

PutReference ==
    /\ step = "reference"
    /\ Puttable(references[Current.reference], Current)
    /\ references' = [references EXCEPT ![Current.reference] = Current]
    /\ step' = "digest"
    /\ UNCHANGED <<policies, digests, deployment, fingerprint, position, returned>>

\* The last write; publishCompiledPolicies goes on with the next reference.
PutDigest ==
    /\ step = "digest"
    /\ Puttable(digests[DigestBinding(Current)], Current)
    /\ digests' = [digests EXCEPT ![DigestBinding(Current)] = Current]
    /\ returned' = returned \cup {Current}
    /\ IF position < Len(References)
       THEN position' = position + 1 /\ step' = "policy"
       ELSE step' = "up" /\ UNCHANGED position
    /\ UNCHANGED <<policies, references, deployment, fingerprint>>

\* A conflict, a failed write or a crash ends the start; a daemon that is up
\* ends too.
Stop ==
    /\ step # "down"
    /\ step' = "down"
    /\ UNCHANGED <<storeVars, deployment, fingerprint, position, returned>>

Next == Compile \/ PutPolicy \/ PutReference \/ PutDigest \/ Stop

Spec == Init /\ [][Next]_registryVars

-------------------------------------------------------------------------------
(* The readers.                                                            *)

\* Faulty variant: the reference alone is believed.
ResolvePublicationAlone(p, other) ==
    IF p # NoPublication /\ PolicyDigest(p) \in policies THEN p ELSE NoPublication

\* requireMatchingPublication and resolvePublication: the other index must hold
\* the same publication and the content must be there.
ResolvePublication(p, other) ==
    IF p # NoPublication /\ other = p /\ PolicyDigest(p) \in policies THEN p ELSE NoPublication

Resolve(r) ==
    LET p == references[r]
    IN  IF p = NoPublication THEN p ELSE ResolvePublication(p, digests[DigestBinding(p)])

ResolveDigest(d) ==
    LET p == digests[d]
    IN  IF p = NoPublication THEN p ELSE ResolvePublication(p, references[p.reference])

-------------------------------------------------------------------------------

TypeOK ==
    /\ policies \subseteq {PolicyDigest(p) : p \in Publications}
    /\ references \in [Names -> Publications \cup {NoPublication}]
    /\ digests \in [Bindings -> Publications \cup {NoPublication}]
    /\ deployment \in [Names -> Documents] /\ fingerprint \in Fingerprints
    /\ position \in 1..Len(References)
    /\ step \in {"down", "policy", "reference", "digest", "up"}
    /\ returned \subseteq Publications

(* Once a publication was reported, it is found by its reference and by    *)
(* its digests at every later start, whatever was interrupted or refused   *)
(* since: a session bound to it can be resumed (registry.go                *)
(* PublishEffective).                                                      *)
ReturnedResolves ==
    \A p \in returned : Resolve(p.reference) = p /\ ResolveDigest(DigestBinding(p)) = p

(* The two indexes never lead to different answers: what the one resolves, *)
(* so does the other (registry.go requireMatchingPublication).             *)
IndexesAgree ==
    /\ \A r \in Names : Resolve(r) # NoPublication =>
          ResolveDigest(DigestBinding(Resolve(r))) = Resolve(r)
    /\ \A d \in Bindings : ResolveDigest(d) # NoPublication =>
          Resolve(ResolveDigest(d).reference) = ResolveDigest(d)

(* A daemon that is up has published every policy of its deployment for    *)
(* the fingerprint it runs with (profile.go publishCompiledPolicies).      *)
UpIsPublished ==
    step = "up" => \A r \in Names :
        Resolve(r) = [reference |-> r, document |-> deployment[r], fingerprint |-> fingerprint]
===============================================================================
