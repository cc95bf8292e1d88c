----------------------------- MODULE TrustPlane -----------------------------
(***************************************************************************)
(* Device identity and owner policy in one process: an actor assertion is  *)
(* judged by the policy in use and must name the device the identity table *)
(* answers for; a crash ends both, and both come back from what is stored. *)
(***************************************************************************)
EXTENDS DeviceIdentity, OwnerPolicy

vars == <<rows, keys, pc, mine, proofs, committed, authority, active, seen, used, now>>

Init == DeviceInit /\ OwnerInit

\* verify_actor_and_consume with the local device as expected context.
VerifyRequest(p) == VerifyActor(p, Loaded(rows)) /\ UNCHANGED deviceVars

Crash == DeviceCrash /\ OwnerCrash

Next ==
    \/ \E r \in Requests : RequestStep(r) /\ UNCHANGED ownerVars
    \/ OwnerStep /\ UNCHANGED deviceVars
    \/ \E p \in Proofs : VerifyRequest(p)
    \/ Crash

Spec == Init /\ [][Next]_vars

-----------------------------------------------------------------------------
TrustTypeOK ==
    /\ rows \in Seq(Identities) /\ keys \subseteq Identities
    /\ pc \in [Requests -> {"idle", "create", "store", "insert", "sign"}]
    /\ mine \in [Requests -> Identities \cup {NoIdentity}]
    /\ proofs \subseteq [device : Identities, signer : Identities]
    /\ committed \in Manifests
    /\ authority \in {"down", "checking", "up"}
    /\ active \in Manifests \cup {NoManifest}
    /\ seen \in Manifests \cup {NoManifest}
    /\ used \subseteq Proofs
    /\ now \in Nat

\* What each request holds while it is under way.
HeldIsMine ==
    \A r \in Requests :
        /\ pc[r] \in {"store", "insert"} => mine[r] \in Identities
        /\ pc[r] = "insert" => mine[r] \in keys
        /\ pc[r] = "sign" => rows # <<>> /\ mine[r] = Loaded(rows)

\* However pairing requests, failures of the secret store or of SQLite and
\* crashes fall together, no device row exists without its private key: create
\* stores the key before it inserts the row, and only a key may be left over.
\* And every message a request has signed was signed by the key of the device
\* it names, although naming and signing load the identity separately.
IdentityIsWhole ==
    /\ \A n \in DOMAIN rows : rows[n] \in keys
    /\ \A x \in proofs : x.signer = x.device

\* Once the device has an identity it answers with that one for good, through
\* restarts and through concurrent requests that each create a row.
IdentityIsStable == [][rows # <<>> => rows' # <<>> /\ Loaded(rows') = Loaded(rows)]_vars

\* The policy in use is the one the store is bound to.
InStep ==
    /\ active # NoManifest => authority = "up" /\ active = committed
    /\ seen # NoManifest <=> authority = "checking"

\* An actor assertion is accepted only under the manifest the durable store is
\* bound to at that moment, by a key that manifest holds active, and for the
\* device's one identity: a commit that took effect but reported an error, a
\* restart with an old manifest, or a commit during start-up never lets a
\* withdrawn key answer.
AcceptedUnderCommitted ==
    [][\A p \in used' \ used :
            /\ PinnedFor(committed, p, now)
            /\ committed.issued <= now /\ now < committed.expires
            /\ p.device = Loaded(rows)]_vars

\* The store is only ever rebound to a manifest of a higher generation.
CommittedOnlyAdvances ==
    [][committed' # committed => committed'.generation > committed.generation]_vars

TrustInductive == TrustTypeOK /\ HeldIsMine /\ IdentityIsWhole /\ InStep
=============================================================================
