---------------------------- MODULE MCTrustPlane ----------------------------
(***************************************************************************)
(* Two requests, two fresh identities; manifests of three generations, two *)
(* of them with the same generation, that activate, revoke and rotate one  *)
(* issuer's keys; a foreign manifest and a malformed one.                  *)
(***************************************************************************)
EXTENDS TrustPlane

Key(n, pub, from, until, st) ==
    [name |-> n, public |-> pub, from |-> from, until |-> until, state |-> st]
M(g, issued, expires, signer, ks) ==
    [generation |-> g, issued |-> issued, expires |-> expires, signer |-> signer, keys |-> ks]

MCManifests ==
    {M(1, 1, 3, "owner", <<Key("k1", "a", 1, 3, "Active")>>),
     M(2, 1, 4, "owner", <<Key("k1", "a", 1, 3, "Revoked"), Key("k2", "b", 1, 3, "Active")>>),
     M(2, 1, 3, "owner", <<Key("k1", "a", 1, 2, "Active")>>),
     M(3, 2, 4, "owner", <<Key("k2", "b", 2, 3, "Active")>>),
     M(3, 1, 3, "other", <<Key("k1", "a", 1, 3, "Active")>>),
     M(3, 1, 3, "owner", <<Key("k1", "a", 1, 3, "Active"), Key("k2", "a", 1, 3, "Active")>>)}

MCProofs ==
    {[key |-> k, signer |-> s, issued |-> 1, expires |-> e, device |-> "d1"] :
        k \in {"k1", "k2"}, s \in {"a", "b"}, e \in {2, 3}}
=============================================================================
