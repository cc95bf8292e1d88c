SPECIFICATION Spec
CONSTANTS
    Identities = {"d1", "d2"}
    Requests = {r1, r2}
    NoIdentity = "none"
    Manifests <- MCManifests
    Proofs <- MCProofs
    OwnerRoot = "owner"
    NoManifest = NoManifest
    MaxGeneration = 3
    MaxLifetime = 3
    MaxKeys = 2
    MaxProofLife = 2
    MaxSkew = 1
    MaxTime = 4
INVARIANTS
    TrustInductive
PROPERTIES
    IdentityIsStable
    AcceptedUnderCommitted
