--------------------------- MODULE MCAccessGrants ---------------------------
(***************************************************************************)
(* The authorization records for TLC.                                      *)
(***************************************************************************)
EXTENDS AccessGrants, TLC

\* One row of each kind grant_from_legacy_session tells apart.
MCLegacy ==
  {NoRow}
    \union [status: {"connected", "pending", "active", "suspended"},
            approved: {FALSE}, wellFormed: {TRUE}]
    \union [status: {"active", "suspended", "expired", "revoked"},
            approved: {TRUE}, wellFormed: {TRUE}]
    \union [status: {"active"}, approved: {TRUE}, wellFormed: {FALSE}]

MCNoLegacy == {NoRow}

\* Subjects, scopes and connections are interchangeable.
Symmetry == Permutations(Subjects) \union Permutations(Scopes)
              \union Permutations(Deciders)
=============================================================================
