---------------------------- MODULE LeasesProofs ----------------------------
(***************************************************************************)
(* LeasesInductive holds in every reachable state, for any numbers of      *)
(* grants, leases and operations, any requests and any configuration.  The *)
(* argument is in HeldIsCurrent: between the two saves the records in hand *)
(* still have the terms of what is stored, their lease has let nothing go  *)
(* ahead yet, and neither has their grant if it is one-shot.               *)
(***************************************************************************)
EXTENDS Leases, TLAPS

\* The largest ceiling is a number above the built-in ones.
LEMMA CeilingFacts == MaxTtl \in Nat /\ MaxTtl >= 240
BY SMT DEF MaxTtl

\* effective_ttl under a valid configuration lies between a minute and the
\* largest ceiling, whatever number a request carries.
LEMMA TtlIsBounded ==
    ASSUME NEW c, TtlConfigOk(c), NEW p \in Profiles, NEW n \in Int
    PROVE  EffectiveTtl(c, p, n) \in 1..MaxTtl
<1>1. c.profile[p].minutes \in 1..MaxTtl /\ c.profile[p].risk \in Risks
    BY CeilingFacts DEF TtlConfigOk, TtlCeilingOk
<1>2. c.ceiling[c.profile[p].risk] \in 1..MaxTtl
    BY <1>1, CeilingFacts DEF TtlConfigOk, TtlCeilingOk
<1>3. AtLeastOne(n) \in Int /\ AtLeastOne(n) >= 1
    BY DEF AtLeastOne
<1>4. Lower(AtLeastOne(n), c.profile[p].minutes) \in 1..MaxTtl
    BY <1>1, <1>3, CeilingFacts DEF Lower
<1>5. QED
    BY <1>2, <1>4, CeilingFacts DEF EffectiveTtl, Lower

\* The built-in policy passes its own validation.
LEMMA DefaultIsValid == TtlConfigOk(DefaultTtl)
BY SMT, CeilingFacts DEF TtlConfigOk, TtlCeilingOk, DefaultTtl, Profiles, Risks

\* A decision leads to a status of the machine, never to or from "consumed".
LEMMA DecisionFacts ==
    ASSUME NEW st, NEW ev \in Events, GrantTransition(st, ev) # "refused"
    PROVE  GrantTransition(st, ev) \in Statuses /\ st # "consumed"
BY DEF GrantTransition, Events, Statuses, Live, Terminal

\* A new request is a row of its table, and its life is bounded.
LEMMA RequestedFacts ==
    ASSUME LeasesTypeOK, policy # Off, NEW r \in Requests
    PROVE  /\ Requested(r) \in GrantRows
           /\ Requested(r).expires > Requested(r).requested
           /\ Requested(r).expires - Requested(r).requested <= MaxTtl
<1> DEFINE ttl == EffectiveTtl(policy, r.profile, r.minutes)
<1>1. /\ r.subject \in Subjects /\ r.kind \in Kinds
      /\ r.workspaces \subseteq Workspaces
      /\ r.profile \in Profiles /\ r.custom \subseteq Capabilities
      /\ r.minutes \in Int
    BY LeasesAssumption
<1>2. ttl \in 1..MaxTtl
    BY <1>1, TtlIsBounded DEF LeasesTypeOK
<1>3. EffectiveCapabilities(r.profile, r.custom) \subseteq Capabilities
    BY <1>1 DEF EffectiveCapabilities, Capabilities, Profiles
<1>4. now + ttl \in Nat /\ now + ttl > now /\ (now + ttl) - now <= MaxTtl
    BY <1>2, CeilingFacts DEF LeasesTypeOK
<1>5. "pending" \in Statuses
    BY DEF Statuses, Live
<1> HIDE DEF ttl
<1>6. QED
    BY <1>1, <1>3, <1>4, <1>5 DEF Requested, GrantRows, LeasesTypeOK, ttl

LEMMA InitHolds == Init => LeasesInductive
<1> SUFFICES ASSUME Init PROVE LeasesInductive
    OBVIOUS
<1>1. LeasesTypeOK
    BY LeasesAssumption DEF Init, LeasesTypeOK
<1>2. Narrowing /\ HeldIsCurrent /\ SpentIsStored /\ SpentOnce
    BY DEF Init, Narrowing, HeldIsCurrent, SpentIsStored, SpentOnce, Exists
<1>3. QED
    BY <1>1, <1>2 DEF LeasesInductive

\* Steps that leave the tables and the counts alone and end or keep the call.
LEMMA QuietKeeps ==
    ASSUME LeasesInductive, UNCHANGED <<Tables, Counts>>, now' \in Nat,
           policy' = policy \/ policy' = Off \/ TtlConfigOk(policy'),
           UNCHANGED Call \/ todo' = {}
    PROVE  LeasesInductive'
<1> USE DEF LeasesInductive, Tables, Counts, Call
<1>1. LeasesTypeOK'
    BY ZenonT(60) DEF LeasesTypeOK, TtlConfigOk
<1>2. Narrowing' /\ SpentIsStored' /\ SpentOnce'
    BY DEF Narrowing, SpentIsStored, SpentOnce, Within, Exists
<1>3. HeldIsCurrent'
    BY DEF HeldIsCurrent, Within, Exists, SameTerms
<1>4. QED
    BY <1>1, <1>2, <1>3

\* Between calls, a new status of one grant that is not a way into or out of
\* "consumed".
LEMMA StatusKeeps ==
    ASSUME LeasesInductive, todo = {}, NEW g \in Grants, Exists(g),
           grants[g].status # "consumed",
           NEW st \in Statuses,
           grants' = [grants EXCEPT ![g].status = st],
           UNCHANGED <<policy, leases, Call, Counts, now>>
    PROVE  LeasesInductive'
<1> USE DEF LeasesInductive, Counts, Call
<1> DEFINE row == [grants[g] EXCEPT !.status = st]
<1>1. grants[g] \in GrantRows
    BY DEF LeasesTypeOK, Exists
<1>2. row \in GrantRows /\ SameTerms(row, grants[g]) /\ row.issued = grants[g].issued
    BY <1>1 DEF GrantRows, SameTerms
<1>3. row # NoGrant
    BY <1>2, RowsAssumption
<1>4. grants' = [grants EXCEPT ![g] = row]
    OBVIOUS
<1> HIDE DEF row
<1>5. LeasesTypeOK'
    BY <1>2, <1>4 DEF LeasesTypeOK, TtlConfigOk
<1>6. Narrowing'
    BY <1>2, <1>3, <1>4 DEF Narrowing, Within, Exists, SameTerms, LeasesTypeOK
<1>7. HeldIsCurrent'
    BY DEF HeldIsCurrent
<1>8. SpentIsStored' /\ SpentOnce'
    BY <1>2, <1>3, <1>4 DEF SpentIsStored, SpentOnce, Exists, SameTerms, LeasesTypeOK
<1>9. QED
    BY <1>5, <1>6, <1>7, <1>8

LEMMA RequestKeeps ==
    ASSUME LeasesInductive, NEW g \in Grants, NEW r \in Requests, Request(g, r)
    PROVE  LeasesInductive'
<1> USE DEF LeasesInductive, Counts, Call
<1> DEFINE row == Requested(r)
<1>1. /\ row \in GrantRows /\ row.expires > row.requested
      /\ row.expires - row.requested <= MaxTtl
    BY RequestedFacts DEF Request, Ready
<1>2. grants' = [grants EXCEPT ![g] = row] /\ grants[g] = NoGrant /\ todo = {}
    BY DEF Request, Exists, Ready
<1>3. UNCHANGED <<policy, leases, held, todo, byLease, byGrant, now>>
    BY DEF Request
<1>4. row # NoGrant
    BY <1>1, RowsAssumption
<1> HIDE DEF row
<1>5. LeasesTypeOK'
    BY <1>1, <1>2, <1>3 DEF LeasesTypeOK, TtlConfigOk
<1>6. Narrowing'
    BY <1>1, <1>2, <1>3, <1>4 DEF Narrowing, Within, Exists, LeasesTypeOK
<1>7. HeldIsCurrent'
    BY <1>2, <1>3 DEF HeldIsCurrent
<1>8. byGrant[g] = 0
    BY <1>2 DEF SpentIsStored, Exists, LeasesTypeOK
<1>9. \A l \in Leases : leases[l] # NoLease => leases[l].grant # g
    BY <1>2 DEF Narrowing, Within, Exists
<1>10. SpentIsStored' /\ SpentOnce'
    BY <1>2, <1>3, <1>4, <1>8, <1>9 DEF SpentIsStored, SpentOnce, Exists, LeasesTypeOK
<1>11. QED
    BY <1>5, <1>6, <1>7, <1>10

\* What a call returns is a pair that may be saved: rows with the terms of the
\* stored grant, whose lease has let nothing go ahead.
LEMMA ReturnsKeeps ==
    ASSUME LeasesInductive, todo = {},
           NEW g \in Grants, NEW l \in Leases, NEW grant \in GrantRows, NEW lease \in LeaseRows,
           Returns(g, l, grant, lease),
           Within(lease, g), SameTerms(grant, grants[g]),
           leases[l] # NoLease =>
               /\ leases[l].subject = lease.subject /\ leases[l].grant = g
               /\ leases[l].workspaces = lease.workspaces
               /\ leases[l].capabilities = lease.capabilities,
           byLease[l] = 0,
           grant.kind = "one_shot" => byGrant[g] = 0,
           lease.spentBy # NoOperation /\ grant.kind = "one_shot" =>
               grant.status = "consumed" /\ grant.issued = l
    PROVE  LeasesInductive'
<1> USE DEF LeasesInductive, Tables, Counts
<1>1. /\ held' = [g |-> g, l |-> l, grant |-> grant, lease |-> lease]
      /\ todo' = {"grant", "lease"}
      /\ UNCHANGED <<policy, grants, leases, byLease, byGrant, now>>
    BY DEF Returns
<1>2. LeasesTypeOK'
    BY <1>1, SMTT(60) DEF LeasesTypeOK, TtlConfigOk
<1>3. Narrowing' /\ SpentIsStored' /\ SpentOnce'
    BY <1>1, SMTT(60) DEF Narrowing, SpentIsStored, SpentOnce, Within, Exists
<1>4. /\ held'.g = g /\ held'.l = l /\ held'.grant = grant /\ held'.lease = lease
    BY <1>1, SMTT(60)
<1>5. HeldIsCurrent'
    BY <1>1, <1>4 DEF HeldIsCurrent, Within, Exists, SameTerms
<1>6. QED
    BY <1>2, <1>3, <1>5

\* A usable grant has not been consumed, so it has let nothing go ahead if it
\* is one-shot.
LEMMA UsableIsUnspent ==
    ASSUME LeasesInductive, NEW g \in Grants, Exists(g), IsUsable(grants[g])
    PROVE  /\ grants[g] \in GrantRows
           /\ grants[g].kind = "one_shot" => byGrant[g] = 0
<1>1. grants[g] \in GrantRows
    BY DEF LeasesInductive, LeasesTypeOK, Exists
<1>2. ASSUME grants[g].kind = "one_shot" PROVE ~(byGrant[g] > 0)
    BY <1>2 DEF LeasesInductive, SpentIsStored, IsUsable
<1>3. byGrant[g] \in Nat
    BY DEF LeasesInductive, LeasesTypeOK
<1>4. QED
    BY <1>1, <1>2, <1>3

LEMMA IssueLeaseKeeps ==
    ASSUME LeasesInductive, NEW g \in Grants, NEW l \in Leases, NEW q \in LeaseRequests,
           IssueLease(g, l, q)
    PROVE  LeasesInductive'
<1> DEFINE old == grants[g]
<1> DEFINE grant == [old EXCEPT !.issued = l]
<1> DEFINE lease == IssuedFor(g, old, q)
<1>1. /\ todo = {} /\ Exists(g) /\ leases[l] = NoLease
      /\ Issuable(old, q) /\ Returns(g, l, grant, lease)
    BY DEF IssueLease, Ready
<1>2. old \in GrantRows /\ (old.kind = "one_shot" => byGrant[g] = 0)
    BY <1>1, UsableIsUnspent DEF Issuable
<1>3. grant \in GrantRows /\ SameTerms(grant, old)
    BY <1>2 DEF GrantRows, SameTerms
<1>4. /\ q.workspaces \subseteq old.workspaces /\ q.capabilities \subseteq old.capabilities
      /\ q.lifetime \in Nat /\ now \in Nat /\ old.expires \in Nat
    BY <1>1, <1>2, LeasesAssumption DEF Issuable, LeasesInductive, LeasesTypeOK, GrantRows
<1>5. Lower(now + q.lifetime, old.expires) \in Nat /\ Lower(now + q.lifetime, old.expires) <= old.expires
    BY <1>4, SMTT(60) DEF Lower
<1>6. /\ lease \in LeaseRows /\ lease.spentBy = NoOperation
      /\ lease.grant = g /\ lease.subject = old.subject
      /\ lease.workspaces \subseteq old.workspaces /\ lease.capabilities \subseteq old.capabilities
      /\ lease.expires <= old.expires
    BY <1>2, <1>4, <1>5 DEF IssuedFor, LeaseRows, GrantRows
<1>7. Within(lease, g)
    BY <1>1, <1>6 DEF Within
<1>8. byLease[l] = 0
    BY <1>1 DEF LeasesInductive, LeasesTypeOK, SpentIsStored
<1>9. grant.kind = old.kind
    BY <1>3 DEF SameTerms
<1> HIDE DEF grant, lease, old
<1>10. SameTerms(grant, grants[g])
    BY <1>3 DEF old
<1>11. QED
    BY <1>1, <1>2, <1>3, <1>6, <1>7, <1>8, <1>9, <1>10, ReturnsKeeps

LEMMA ConsumeLeaseKeeps ==
    ASSUME LeasesInductive, NEW g \in Grants, NEW l \in Leases, NEW o \in Operations,
           ConsumeLease(g, l, o)
    PROVE  LeasesInductive'
<1> DEFINE old == grants[g]
<1> DEFINE grant == GrantAfter(old)
<1> DEFINE lease == [leases[l] EXCEPT !.spentBy = o]
<1>1. /\ todo = {} /\ Exists(g) /\ leases[l] # NoLease
      /\ ValidAgainst(leases[l], g, old) /\ MayConsume(old, l)
      /\ Returns(g, l, grant, lease)
    BY DEF ConsumeLease, Ready
<1>2. old \in GrantRows /\ (old.kind = "one_shot" => byGrant[g] = 0)
    BY <1>1, UsableIsUnspent DEF ValidAgainst
<1>3. leases[l] \in LeaseRows
    BY <1>1 DEF LeasesInductive, LeasesTypeOK
<1>4. grant \in GrantRows /\ SameTerms(grant, old) /\ grant.issued = old.issued
          /\ (old.kind = "one_shot" => grant.status = "consumed")
    BY <1>2 DEF GrantAfter, GrantRows, SameTerms, Statuses
<1>5. /\ lease \in LeaseRows /\ lease.subject = leases[l].subject
      /\ lease.grant = leases[l].grant /\ lease.workspaces = leases[l].workspaces
      /\ lease.capabilities = leases[l].capabilities /\ lease.expires = leases[l].expires
    BY <1>3 DEF LeaseRows
<1>6. Within(lease, g) /\ lease.grant = g
    BY <1>1, <1>5 DEF Within, ValidAgainst
<1>7. byLease[l] = 0
    BY <1>1 DEF ValidAgainst, IsValid, LeasesInductive, LeasesTypeOK, SpentIsStored
<1>8. grant.kind = old.kind /\ (grant.kind = "one_shot" => grant.issued = l)
    BY <1>1, <1>4 DEF SameTerms, MayConsume
<1> HIDE DEF grant, lease, old
<1>9. SameTerms(grant, grants[g])
    BY <1>4 DEF old
<1>10. QED
    BY <1>1, <1>2, <1>4, <1>5, <1>6, <1>7, <1>8, <1>9, ReturnsKeeps, ZenonT(60)

\* With the last save, both tables hold what the call returned; the counts may
\* then move, from nothing, and only for a lease that is stored as spent.
LEMMA LastSaveKeeps ==
    ASSUME LeasesTypeOK, HeldIsCurrent, SpentIsStored, SpentOnce, todo # {},
           LeasesTypeOK', Narrowing', todo' = {},
           grants'[held.g] = held.grant, leases'[held.l] = held.lease,
           \A g \in Grants \ {held.g} : grants'[g] = grants[g],
           \A l \in Leases \ {held.l} : leases'[l] = leases[l],
           IF held.lease.spentBy # NoOperation
           THEN /\ byLease' = [byLease EXCEPT ![held.l] = @ + 1]
                /\ byGrant' = [byGrant EXCEPT ![held.g] = @ + 1]
           ELSE UNCHANGED Counts
    PROVE  LeasesInductive'
<1> DEFINE hg == held.g
<1> DEFINE hl == held.l
<1>1. /\ hg \in Grants /\ hl \in Leases
      /\ held.grant \in GrantRows /\ held.lease \in LeaseRows
      /\ held.grant # NoGrant /\ held.lease # NoLease
    BY RowsAssumption DEF LeasesTypeOK
<1>2. /\ byLease[hl] = 0 /\ (held.grant.kind = "one_shot" => byGrant[hg] = 0)
      /\ held.lease.grant = hg
      /\ held.grant.kind = grants[hg].kind
    BY DEF HeldIsCurrent, Within, SameTerms
<1>3. held.lease.spentBy # NoOperation /\ held.grant.kind = "one_shot" =>
          held.grant.status = "consumed" /\ held.grant.issued = hl
    BY DEF HeldIsCurrent
<1>4. HeldIsCurrent'
    BY DEF HeldIsCurrent
<1>5. \A g \in Grants : byGrant'[g] = byGrant[g] \/ (g = hg /\ held.lease.spentBy # NoOperation
                                                      /\ byGrant'[g] = byGrant[g] + 1)
    BY <1>1 DEF LeasesTypeOK, Counts
<1>6. \A l \in Leases : byLease'[l] = byLease[l] \/ (l = hl /\ held.lease.spentBy # NoOperation
                                                      /\ byLease'[l] = byLease[l] + 1)
    BY <1>1 DEF LeasesTypeOK, Counts
<1>7. ASSUME NEW g \in Grants, byGrant'[g] > 0
      PROVE  Exists(g)' /\ (grants'[g].kind = "one_shot" => grants'[g].status = "consumed")
    <2>1. CASE g = hg
        BY <1>1, <1>2, <1>3, <1>5, <1>7, <2>1 DEF Exists
    <2>2. CASE g # hg
        BY <1>5, <1>7, <2>2 DEF SpentIsStored, Exists
    <2>3. QED
        BY <2>1, <2>2
<1>8. ASSUME NEW l \in Leases, byLease'[l] > 0
      PROVE  /\ leases'[l] # NoLease /\ leases'[l].spentBy # NoOperation
             /\ byGrant'[leases'[l].grant] > 0
             /\ grants'[leases'[l].grant].kind = "one_shot" => grants'[leases'[l].grant].issued = l
    <2>1. CASE l = hl
        <3>1. held.lease.spentBy # NoOperation
            BY <1>2, <1>6, <1>8, <2>1
        <3>2. byGrant'[hg] > 0
            BY <1>1, <3>1 DEF LeasesTypeOK
        <3>3. QED
            BY <1>1, <1>2, <1>3, <2>1, <3>1, <3>2
    <2>2. CASE l # hl
        <3>1. byLease[l] > 0 /\ leases'[l] = leases[l]
            BY <1>6, <1>8, <2>2
        <3>2. /\ leases[l] # NoLease /\ leases[l].spentBy # NoOperation
              /\ byGrant[leases[l].grant] > 0
              /\ grants[leases[l].grant].kind = "one_shot" => grants[leases[l].grant].issued = l
            BY <3>1, SMTT(60) DEF SpentIsStored
        <3>3. leases[l].grant \in Grants
            BY <3>2 DEF LeasesTypeOK, LeaseRows
        <3>4. byGrant'[leases[l].grant] > 0
            BY <1>5, <3>2, <3>3, SMTT(60) DEF LeasesTypeOK
        <3>5. CASE leases[l].grant # hg
            BY <3>1, <3>2, <3>3, <3>4, <3>5
        <3>6. CASE leases[l].grant = hg
            BY <3>1, <3>2, <3>4, <3>6, <1>2, SMTT(60)
        <3>7. QED
            BY <3>5, <3>6
    <2>3. QED
        BY <2>1, <2>2
<1>9. SpentIsStored'
    BY <1>7, <1>8, SMTT(60) DEF SpentIsStored
<1>10. SpentOnce'
    BY <1>1, <1>2, <1>5, <1>6 DEF SpentOnce, Exists, LeasesTypeOK
<1>11. QED
    BY <1>4, <1>9, <1>10 DEF LeasesInductive

LEMMA SaveGrantKeeps ==
    ASSUME LeasesInductive, SaveGrant
    PROVE  LeasesInductive'
<1> USE DEF LeasesInductive
<1> DEFINE hg == held.g
<1>1. /\ hg \in Grants /\ held.l \in Leases
      /\ held.grant \in GrantRows /\ held.lease \in LeaseRows /\ held.grant # NoGrant
    BY RowsAssumption DEF LeasesTypeOK, SaveGrant
<1>2. /\ grants' = [grants EXCEPT ![hg] = held.grant] /\ leases' = leases
      /\ policy' = policy /\ now' = now /\ todo' = todo \ {"grant"} /\ todo # {}
    BY DEF SaveGrant, Saved
<1>3. SameTerms(held.grant, grants[hg]) /\ Exists(hg)
    BY <1>2, SMTT(60) DEF HeldIsCurrent, Within
<1>4. Narrowing'
    BY <1>1, <1>2, <1>3 DEF Narrowing, Within, Exists, SameTerms, LeasesTypeOK
<1>5. CASE "lease" \in todo
    <2>1. todo' = {"lease"} /\ held' = held /\ UNCHANGED <<byLease, byGrant>>
        BY <1>2, <1>5, ZenonT(60) DEF LeasesTypeOK, SaveGrant, Saved, Counts
    <2>2. LeasesTypeOK'
        BY <1>1, <1>2, <2>1 DEF LeasesTypeOK, TtlConfigOk
    <2>3. grants'[hg] = held.grant
        BY <1>1, <1>2 DEF LeasesTypeOK
    <2>4. HeldIsCurrent'
        BY <1>1, <1>2, <1>3, <1>5, <2>1, <2>3 DEF HeldIsCurrent, Within, Exists, SameTerms
    <2>5. \A l \in Leases : leases[l] # NoLease => leases[l].grant \in Grants
        BY DEF LeasesTypeOK, LeaseRows
    <2>6. held.grant.kind = "one_shot" => byGrant[hg] = 0
        BY <1>2 DEF HeldIsCurrent
    <2>7. SpentIsStored'
        BY <1>1, <1>2, <1>3, <2>1, <2>5, <2>6 DEF SpentIsStored, Exists, SameTerms, LeasesTypeOK
    <2>8. SpentOnce'
        BY <1>1, <1>2, <1>3, <2>1 DEF SpentOnce, Exists, SameTerms, LeasesTypeOK
    <2>9. QED
        BY <1>4, <2>2, <2>4, <2>7, <2>8
<1>6. CASE "lease" \notin todo
    <2>1. todo' = {} /\ leases[held.l] = held.lease
        BY <1>2, <1>6 DEF LeasesTypeOK, HeldIsCurrent
    <2>2. IF held.lease.spentBy # NoOperation
          THEN /\ byLease' = [byLease EXCEPT ![held.l] = @ + 1]
               /\ byGrant' = [byGrant EXCEPT ![held.g] = @ + 1]
          ELSE UNCHANGED Counts
        BY <2>1 DEF SaveGrant, Saved
    <2>3. byLease' \in [Leases -> Nat] /\ byGrant' \in [Grants -> Nat]
        BY <1>1, <2>2 DEF LeasesTypeOK, Counts
    <2>4. LeasesTypeOK'
        BY <1>1, <1>2, <2>1, <2>3, ZenonT(60) DEF LeasesTypeOK, TtlConfigOk
    <2>5. grants'[held.g] = held.grant /\ \A g \in Grants \ {held.g} : grants'[g] = grants[g]
        BY <1>1, <1>2 DEF LeasesTypeOK
    <2>6. QED
        BY <1>2, <1>4, <2>1, <2>2, <2>4, <2>5, LastSaveKeeps
<1>7. QED
    BY <1>5, <1>6

LEMMA SaveLeaseKeeps ==
    ASSUME LeasesInductive, SaveLease
    PROVE  LeasesInductive'
<1> USE DEF LeasesInductive
<1> DEFINE hl == held.l
<1> DEFINE row == IF leases[hl] = NoLease THEN held.lease
                  ELSE [leases[hl] EXCEPT !.expires = held.lease.expires,
                                          !.spentBy = held.lease.spentBy]
<1>1. /\ held.g \in Grants /\ hl \in Leases
      /\ held.grant \in GrantRows /\ held.lease \in LeaseRows /\ held.lease # NoLease
    BY RowsAssumption DEF LeasesTypeOK, SaveLease
<1>2. /\ leases' = [leases EXCEPT ![hl] = row] /\ grants' = grants
      /\ policy' = policy /\ now' = now /\ todo' = todo \ {"lease"} /\ todo # {}
    BY DEF SaveLease, Saved
<1>3. row = held.lease
    <2>1. CASE leases[hl] # NoLease
        <3>1. leases[hl] \in LeaseRows
            BY <1>1, <2>1 DEF LeasesTypeOK
        <3>2. /\ leases[hl].subject = held.lease.subject /\ leases[hl].grant = held.lease.grant
              /\ leases[hl].workspaces = held.lease.workspaces
              /\ leases[hl].capabilities = held.lease.capabilities
            BY <1>2, <2>1 DEF HeldIsCurrent, Within
        <3>3. QED
            BY <1>1, <2>1, <3>1, <3>2, ZenonT(60) DEF LeaseRows
    <2>2. QED
        BY <2>1
<1> HIDE DEF row
<1>4. leases'[hl] = held.lease /\ \A l \in Leases \ {hl} : leases'[l] = leases[l]
    BY <1>1, <1>2, <1>3 DEF LeasesTypeOK
<1>5. Within(held.lease, held.lease.grant) /\ byLease[hl] = 0
    BY <1>2, SMTT(60) DEF HeldIsCurrent, Within
<1>6. Narrowing'
    BY <1>1, <1>2, <1>4, <1>5 DEF Narrowing, Within, Exists
<1>7. leases' \in [Leases -> LeaseRows \union {NoLease}]
    BY <1>1, <1>2, <1>3 DEF LeasesTypeOK
<1>8. CASE "grant" \in todo
    <2>1. todo' = {"grant"} /\ held' = held /\ UNCHANGED <<byLease, byGrant>>
        BY <1>2, <1>8 DEF LeasesTypeOK, SaveLease, Saved, Counts
    <2>2. LeasesTypeOK'
        BY <1>1, <1>2, <1>7, <2>1, SMTT(60) DEF LeasesTypeOK, TtlConfigOk
    <2>3. HeldIsCurrent'
        BY <1>1, <1>2, <1>4, <1>8, <2>1, SMTT(60) DEF HeldIsCurrent, Within, Exists, SameTerms
    <2>4. SpentIsStored' /\ SpentOnce'
        BY <1>1, <1>2, <1>4, <1>5, <2>1 DEF SpentIsStored, SpentOnce, Exists
    <2>5. QED
        BY <1>6, <2>2, <2>3, <2>4
<1>9. CASE "grant" \notin todo
    <2>1. todo' = {} /\ grants[held.g] = held.grant
        BY <1>2, <1>9 DEF LeasesTypeOK, HeldIsCurrent
    <2>2. IF held.lease.spentBy # NoOperation
          THEN /\ byLease' = [byLease EXCEPT ![held.l] = @ + 1]
               /\ byGrant' = [byGrant EXCEPT ![held.g] = @ + 1]
          ELSE UNCHANGED Counts
        BY <2>1 DEF SaveLease, Saved
    <2>3. byLease' \in [Leases -> Nat] /\ byGrant' \in [Grants -> Nat]
        BY <1>1, <2>2, SMTT(60) DEF LeasesTypeOK, Counts
    <2>4. LeasesTypeOK'
        BY <1>1, <1>2, <1>7, <2>1, <2>3, SMTT(60) DEF LeasesTypeOK, TtlConfigOk
    <2>5. QED
        BY <1>2, <1>4, <1>6, <2>1, <2>2, <2>4, LastSaveKeeps, SMTT(60)
<1>10. QED
    BY <1>8, <1>9

LEMMA NextKeeps == LeasesInductive /\ [Next]_vars => LeasesInductive'
<1> SUFFICES ASSUME LeasesInductive, [Next]_vars PROVE LeasesInductive'
    OBVIOUS
<1>0. now \in Nat
    BY DEF LeasesInductive, LeasesTypeOK
<1>1. CASE \E c \in Sections \union {DefaultTtl} : Load(c)
    BY <1>0, <1>1, QuietKeeps DEF Load, Tables, Counts, Call
<1>2. CASE \E g \in Grants, r \in Requests : Request(g, r)
    BY <1>2, RequestKeeps
<1>3. ASSUME NEW g \in Grants, NEW ev \in Events, Decide(g, ev) PROVE LeasesInductive'
    <2>1. GrantTransition(grants[g].status, ev) \in Statuses /\ grants[g].status # "consumed"
        BY <1>3, DecisionFacts DEF Decide
    <2>2. QED
        BY <1>3, <2>1, StatusKeeps, ZenonT(60) DEF Decide, Ready
<1>4. ASSUME NEW g \in Grants, CheckExpiry(g) PROVE LeasesInductive'
    <2>1. "expired" \in Statuses /\ grants[g].status # "consumed"
        BY <1>4 DEF CheckExpiry, Statuses, Terminal, Live
    <2>2. QED
        BY <1>4, <2>1, StatusKeeps, ZenonT(60) DEF CheckExpiry, Ready
<1>5. CASE \E g \in Grants, l \in Leases, q \in LeaseRequests : IssueLease(g, l, q)
    BY <1>5, IssueLeaseKeeps
<1>6. CASE \E g \in Grants, l \in Leases, o \in Operations : ConsumeLease(g, l, o)
    BY <1>6, ConsumeLeaseKeeps
<1>7. CASE SaveGrant \/ SaveLease
    BY <1>7, SaveGrantKeeps, SaveLeaseKeeps
<1>8. CASE SaveFails \/ Crash
    BY <1>0, <1>8, QuietKeeps DEF SaveFails, Crash, Tables, Counts, Call
<1>9. CASE \E t \in Instants : Tick(t)
    BY <1>9, QuietKeeps, LeasesAssumption DEF Tick, Tables, Counts, Call
<1>10. CASE UNCHANGED vars
    BY <1>0, <1>10, QuietKeeps DEF vars, Tables, Counts, Call
<1>11. QED
    BY <1>1, <1>2, <1>3, <1>4, <1>5, <1>6, <1>7, <1>8, <1>9, <1>10 DEF Next

\* Grants never outlive the largest ceiling, stored leases stay narrower than
\* their grants, and what went ahead is stored as spent, in every reachable
\* state.
THEOREM LeasesHold == Spec => []LeasesInductive
<1>1. Init => LeasesInductive
    BY InitHolds
<1>2. LeasesInductive /\ [Next]_vars => LeasesInductive'
    BY NextKeeps
<1>3. QED
    BY <1>1, <1>2, PTL DEF Spec

\* A lease, and a one-shot grant, lets at most one operation go ahead, however
\* save_grant and save_lease are ordered, fail or are cut short.
THEOREM SpentOnceHolds == Spec => []SpentOnce
<1>1. LeasesInductive => SpentOnce
    BY DEF LeasesInductive
<1>2. QED
    BY <1>1, LeasesHold, PTL
=============================================================================
