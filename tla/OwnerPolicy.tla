---------------------------- MODULE OwnerPolicy ----------------------------
(***************************************************************************)
(* The owner's issuer policy: signed manifests of issuer keys              *)
(* (owner_manifest.rs, actor_issuer_policy.rs), and the authority that     *)
(* keeps the manifest in use in step with a durable store                  *)
(* (owner_policy_authority.rs).  The store itself is external: what it     *)
(* must do is the contract of TrustedOwnerPolicyStore.                     *)
(***************************************************************************)
EXTENDS Integers, Sequences, Functions

CONSTANTS
    Manifests,      \* signed envelopes; equality stands for equal SHA-256
    Proofs,         \* actor assertions
    OwnerRoot,      \* the pinned owner key
    NoManifest,
    MaxGeneration, MaxLifetime, MaxKeys,
    MaxProofLife, MaxSkew,
    MaxTime

ASSUME OwnerAssumption ==
    /\ NoManifest \notin Manifests
    /\ \A m \in Manifests : m.generation \in Nat
    /\ MaxTime \in Nat

VARIABLES
    committed,      \* the manifest the durable store is bound to
    authority,      \* "down", "checking" or "up"
    active,         \* the manifest in use; NoManifest after a failed commit
    seen,           \* what the store said when the authority began to start
    used,           \* assertions consumed by the replay store
    now             \* trusted local time

ownerVars == <<committed, authority, active, seen, used, now>>

-----------------------------------------------------------------------------
(* Manifests and assertions                                                *)

\* OwnerPinnedActorIssuers::new: every window proper, no name and no key twice.
PinnedKeysOk(ks) ==
    /\ Len(ks) \in 1..MaxKeys
    /\ \A i \in DOMAIN ks : ks[i].from > 0 /\ ks[i].until > ks[i].from
    /\ \A i, j \in DOMAIN ks :
          ks[i].name = ks[j].name \/ ks[i].public = ks[j].public => i = j

\* owner_approved_issuer_keys: the owner's own key is no issuer.
KeysOk(ks) ==
    /\ \A i \in DOMAIN ks : ks[i].public # OwnerRoot
    /\ PinnedKeysOk(ks)

\* verify_owner_signed_issuer_manifest: freshness, signature, keys.
VerifyManifest(m, minimum, t) ==
    /\ t > 0 /\ minimum < MaxGeneration
    /\ m.generation \in 1..MaxGeneration /\ m.generation > minimum
    /\ m.issued > 0 /\ m.issued <= t /\ t < m.expires
    /\ m.expires - m.issued <= MaxLifetime
    /\ m.signer = OwnerRoot
    /\ KeysOk(m.keys)

\* OwnerPinnedActorIssuers::verify_and_consume up to the assertion: the pinned
\* key is active, and both the assertion and the clock lie in its window.
PinnedFor(m, p, t) ==
    \E k \in Range(m.keys) :
        /\ k.name = p.key
        /\ k.state = "Active"
        /\ k.from <= p.issued /\ p.expires <= k.until
        /\ k.from <= t /\ t <= k.until
        /\ k.public = p.signer

\* verify_and_consume_actor_assertion: bound to this device, fresh, short.
AssertionOk(p, device, t) ==
    /\ p.device = device
    /\ p.issued <= t + MaxSkew /\ t <= p.expires
    /\ p.issued < p.expires /\ p.expires - p.issued <= MaxProofLife

-----------------------------------------------------------------------------
OwnerInit ==
    /\ committed \in {m \in Manifests : m.signer = OwnerRoot}
    /\ authority = "down"
    /\ active = NoManifest
    /\ seen = NoManifest
    /\ used = {}
    /\ now = 1

\* The owner's own tool commits a later manifest.  The store's contract keeps
\* other writers out while an authority is in use, not while it starts.
OwnerCommits(m) ==
    /\ authority # "up"
    /\ m.signer = OwnerRoot /\ m.generation > committed.generation
    /\ committed' = m
    /\ UNCHANGED <<authority, active, seen, used, now>>

\* from_trusted_store, up to the second read: the manifest on disk is the one
\* the store is bound to.
OpenAuthority(m) ==
    /\ authority = "down"
    /\ committed.generation # 0
    /\ VerifyManifest(m, committed.generation - 1, now)
    /\ m = committed
    /\ authority' = "checking"
    /\ seen' = committed
    /\ UNCHANGED <<committed, active, used, now>>

\* Variant: what the store says now is not asked again.
PublishUnchecked ==
    /\ authority = "checking"
    /\ authority' = "up" /\ active' = seen
    /\ seen' = NoManifest
    /\ UNCHANGED <<committed, used, now>>

\* from_trusted_store's second read: publish only if nothing has changed.
Publish ==
    /\ authority = "checking"
    /\ IF committed = seen
       THEN authority' = "up" /\ active' = seen
       ELSE authority' = "down" /\ active' = active
    /\ seen' = NoManifest
    /\ UNCHANGED <<committed, used, now>>

\* verify_candidate_commit_and_activate under the write lock.  The commit may
\* succeed, fail, or take effect and still report an error; any error leaves
\* the authority without a policy.
Activate(m) ==
    /\ authority = "up" /\ active # NoManifest
    /\ VerifyManifest(m, active.generation, now)
    /\ \/ committed = active /\ committed' = m /\ active' = m
       \/ committed = active /\ committed' = m /\ active' = NoManifest
       \/ committed' = committed /\ active' = NoManifest
    /\ UNCHANGED <<authority, seen, used, now>>

\* verify_actor_and_consume under the read lock.  The replay store takes each
\* assertion once.
VerifyActor(p, device) ==
    /\ authority = "up" /\ active # NoManifest
    /\ active.issued <= now /\ now < active.expires
    /\ PinnedFor(active, p, now)
    /\ AssertionOk(p, device, now)
    /\ p \notin used
    /\ used' = used \cup {p}
    /\ UNCHANGED <<committed, authority, active, seen, now>>

OwnerCrash ==
    /\ authority' = "down" /\ active' = NoManifest /\ seen' = NoManifest
    /\ UNCHANGED <<committed, used, now>>

Tick ==
    /\ now < MaxTime
    /\ now' = now + 1
    /\ UNCHANGED <<committed, authority, active, seen, used>>

OwnerStep ==
    \/ \E m \in Manifests : OwnerCommits(m) \/ OpenAuthority(m) \/ Activate(m)
    \/ Publish
    \/ Tick
=============================================================================
