------------------------------- MODULE Leases -------------------------------
(***************************************************************************)
(* How long authority lasts and how it is spent.  The lifetime of a grant  *)
(* is cut to the local ceilings (config.rs, authorization_ttl.rs); leases  *)
(* are cut from a grant and spent against it (core/authorization.rs,       *)
(* grant_machine.rs), and grant and lease are then saved by two calls of   *)
(* the repository (authorization_repository.rs), in either order, with a   *)
(* storage error or the end of the process possible before each.           *)
(*                                                                         *)
(* One caller at a time works on the records.  An operation goes ahead     *)
(* once both records that consume_lease returned are saved.                *)
(***************************************************************************)
EXTENDS Integers, GrantMachine

CONSTANTS
    Grants, Leases, Operations, Workspaces, Subjects,
    NoGrant, NoLease, NoOperation, NoCall, Off,
    Sections,       \* [authorization_ttl] sections a config file may hold
    Requests,       \* access requests
    LeaseRequests,  \* scopes and lifetimes a caller may ask a lease for
    Instants        \* minutes at which something may happen

Capabilities == {"read", "write", "export"}
Profiles == {"inspect", "design", "manufacturing", "custom"}
Risks == {"low", "normal", "high", "critical"}
Kinds == {"standing", "one_shot"}
Statuses == Live \union Terminal \union {"consumed"}
MaxTtl == 525600    \* MAX_AUTHORIZATION_TTL_MINUTES

ASSUME LeasesAssumption ==
    /\ NoLease \notin Leases /\ NoOperation \notin Operations
    /\ Instants \subseteq Nat /\ 0 \in Instants
    /\ \A r \in Requests :
          /\ r.subject \in Subjects /\ r.kind \in Kinds
          /\ r.workspaces \subseteq Workspaces
          /\ r.profile \in Profiles /\ r.custom \subseteq Capabilities
          /\ r.minutes \in Int
    /\ \A q \in LeaseRequests :
          /\ q.workspaces \subseteq Workspaces /\ q.capabilities \subseteq Capabilities
          /\ q.lifetime \in Int

GrantRows ==
    [subject : Subjects, kind : Kinds, workspaces : SUBSET Workspaces,
     capabilities : SUBSET Capabilities, requested : Nat, expires : Nat,
     issued : Leases \union {NoLease}, status : Statuses]
LeaseRows ==
    [subject : Subjects, grant : Grants, workspaces : SUBSET Workspaces,
     capabilities : SUBSET Capabilities, expires : Nat,
     spentBy : Operations \union {NoOperation}]

ASSUME RowsAssumption == NoGrant \notin GrantRows /\ NoLease \notin LeaseRows

VARIABLES
    policy,     \* the lifetime policy of the running daemon, Off without one
    grants,     \* the access_grants table
    leases,     \* the authorization_leases table
    held,       \* the records a call has returned and not yet saved
    todo,       \* which of the two are still to be saved
    byLease,    \* operations that went ahead, per lease
    byGrant,    \* and per grant
    now

vars == <<policy, grants, leases, held, todo, byLease, byGrant, now>>

-----------------------------------------------------------------------------
(* Lifetimes                                                               *)

\* validated_ttl_ceiling.
TtlCeilingOk(value) == value \in Int /\ 1 <= value /\ value <= MaxTtl

\* TryFrom for AuthorizationTtlConfig and for its profiles: one bad value
\* refuses the whole section.
TtlConfigOk(c) ==
    /\ \A p \in Profiles : TtlCeilingOk(c.profile[p].minutes) /\ c.profile[p].risk \in Risks
    /\ \A r \in Risks : TtlCeilingOk(c.ceiling[r])

\* AuthorizationTtlConfig::default.
DefaultTtl ==
    [profile |-> [inspect |-> [minutes |-> 240, risk |-> "low"],
                  design |-> [minutes |-> 120, risk |-> "normal"],
                  manufacturing |-> [minutes |-> 30, risk |-> "high"],
                  custom |-> [minutes |-> 5, risk |-> "critical"]],
     ceiling |-> [low |-> 120, normal |-> 60, high |-> 15, critical |-> 1]]

Lower(a, b) == IF a <= b THEN a ELSE b
AtLeastOne(n) == IF n >= 1 THEN n ELSE 1

\* effective_ttl: the request, never below a minute, under both ceilings.
EffectiveTtl(c, profile, minutes) ==
    Lower(Lower(AtLeastOne(minutes), c.profile[profile].minutes),
          c.ceiling[c.profile[profile].risk])

\* effective_capabilities, with the capability names gathered in three groups.
EffectiveCapabilities(profile, custom) ==
    CASE profile = "inspect" -> {"read"}
      [] profile = "design" -> {"read", "write"}
      [] profile = "manufacturing" -> {"read", "write", "export"}
      [] OTHER -> custom

\* AccessGrant::requested.
Requested(r) ==
    [subject |-> r.subject, kind |-> r.kind, workspaces |-> r.workspaces,
     capabilities |-> EffectiveCapabilities(r.profile, r.custom),
     requested |-> now, expires |-> now + EffectiveTtl(policy, r.profile, r.minutes),
     issued |-> NoLease, status |-> "pending"]

-----------------------------------------------------------------------------
(* Leases                                                                  *)

\* is_usable_at.
IsUsable(grant) == grant.status = "active" /\ now < grant.expires

\* may_issue_another_lease.
MayIssueAnotherLease(grant) == grant.kind = "standing" \/ grant.issued = NoLease

\* issued_for: its refusals ...
Issuable(grant, q) ==
    /\ q.lifetime > 0 /\ q.workspaces # {}
    /\ IsUsable(grant)
    /\ MayIssueAnotherLease(grant)
    /\ q.workspaces \subseteq grant.workspaces
    /\ q.capabilities \subseteq grant.capabilities

\* Variant: the lease is not cut to the grant's own expiry.
IssuedForUnclamped(g, grant, q) ==
    [subject |-> grant.subject, grant |-> g, workspaces |-> q.workspaces,
     capabilities |-> q.capabilities, expires |-> now + q.lifetime, spentBy |-> NoOperation]

\* ... and the lease it cuts.
IssuedFor(g, grant, q) ==
    [subject |-> grant.subject, grant |-> g, workspaces |-> q.workspaces,
     capabilities |-> q.capabilities,
     expires |-> Lower(now + q.lifetime, grant.expires), spentBy |-> NoOperation]

\* is_valid_at.
IsValid(lease) == lease.spentBy = NoOperation /\ now < lease.expires

\* validate_against.
ValidAgainst(lease, g, grant) ==
    /\ lease.grant = g
    /\ IsUsable(grant)
    /\ lease.subject = grant.subject
    /\ lease.expires <= grant.expires
    /\ lease.workspaces \subseteq grant.workspaces
    /\ lease.capabilities \subseteq grant.capabilities
    /\ IsValid(lease)

\* transition on ConsumeLease: only the lease the one-shot grant remembers.
MayConsume(grant, l) == grant.kind = "one_shot" => grant.issued = l

\* The grant consume_lease returns.
GrantAfter(grant) ==
    IF grant.kind = "one_shot" THEN [grant EXCEPT !.status = "consumed"] ELSE grant

-----------------------------------------------------------------------------
Init ==
    /\ policy = Off
    /\ grants = [g \in Grants |-> NoGrant]
    /\ leases = [l \in Leases |-> NoLease]
    /\ held = NoCall /\ todo = {}
    /\ byLease = [l \in Leases |-> 0]
    /\ byGrant = [g \in Grants |-> 0]
    /\ now = 0

Tables == <<grants, leases>>
Counts == <<byLease, byGrant>>
Call == <<held, todo>>

\* load_from_sources at start-up: the section of the file, or the default.
Load(c) ==
    /\ policy = Off
    /\ TtlConfigOk(c)
    /\ policy' = c
    /\ UNCHANGED <<Tables, Call, Counts, now>>

Ready == policy # Off /\ todo = {}
Exists(g) == grants[g] # NoGrant

Request(g, r) ==
    /\ Ready /\ ~Exists(g)
    /\ grants' = [grants EXCEPT ![g] = Requested(r)]
    /\ UNCHANGED <<policy, leases, Call, Counts, now>>

\* A local decision, loaded, applied and saved.
Decide(g, ev) ==
    /\ Ready /\ Exists(g)
    /\ GrantTransition(grants[g].status, ev) # "refused"
    /\ grants' = [grants EXCEPT ![g].status = GrantTransition(grants[g].status, ev)]
    /\ UNCHANGED <<policy, leases, Call, Counts, now>>

\* transition on CheckExpiry.
CheckExpiry(g) ==
    /\ Ready /\ Exists(g)
    /\ grants[g].status \in Live /\ now >= grants[g].expires
    /\ grants' = [grants EXCEPT ![g].status = "expired"]
    /\ UNCHANGED <<policy, leases, Call, Counts, now>>

Returns(g, l, grant, lease) ==
    /\ held' = [g |-> g, l |-> l, grant |-> grant, lease |-> lease]
    /\ todo' = {"grant", "lease"}
    /\ UNCHANGED <<policy, Tables, Counts, now>>

\* issue_lease: the lease id is fresh, and the grant remembers it.
IssueLease(g, l, q) ==
    /\ Ready /\ Exists(g)
    /\ leases[l] = NoLease /\ \A h \in Grants : Exists(h) => grants[h].issued # l
    /\ Issuable(grants[g], q)
    /\ Returns(g, l, [grants[g] EXCEPT !.issued = l], IssuedFor(g, grants[g], q))

\* consume_lease, for any pair of a lease and a grant.
ConsumeLease(g, l, o) ==
    /\ Ready /\ Exists(g) /\ leases[l] # NoLease
    /\ ValidAgainst(leases[l], g, grants[g])
    /\ MayConsume(grants[g], l)
    /\ Returns(g, l, GrantAfter(grants[g]), [leases[l] EXCEPT !.spentBy = o])

\* With the last of the two saves, an operation that has a lease goes ahead.
Saved(x) ==
    /\ todo' = todo \ {x}
    /\ held' = IF todo' = {} THEN NoCall ELSE held
    /\ IF todo' = {} /\ held.lease.spentBy # NoOperation
       THEN /\ byLease' = [byLease EXCEPT ![held.l] = @ + 1]
            /\ byGrant' = [byGrant EXCEPT ![held.g] = @ + 1]
       ELSE UNCHANGED Counts

SaveGrant ==
    /\ "grant" \in todo
    /\ grants' = [grants EXCEPT ![held.g] = held.grant]
    /\ Saved("grant")
    /\ UNCHANGED <<policy, leases, now>>

\* Variant: the upsert of a row that exists updates the expiry alone.
SaveLeaseForgetsSpent ==
    /\ "lease" \in todo
    /\ leases' = [leases EXCEPT ![held.l] =
                    IF @ = NoLease THEN held.lease
                    ELSE [@ EXCEPT !.expires = held.lease.expires]]
    /\ Saved("lease")
    /\ UNCHANGED <<policy, grants, now>>

\* save_lease: a row that exists keeps its scope and its grant.
SaveLease ==
    /\ "lease" \in todo
    /\ leases' = [leases EXCEPT ![held.l] =
                    IF @ = NoLease THEN held.lease
                    ELSE [@ EXCEPT !.expires = held.lease.expires,
                                   !.spentBy = held.lease.spentBy]]
    /\ Saved("lease")
    /\ UNCHANGED <<policy, grants, now>>

\* A storage error ends the call; what is not saved is lost.
SaveFails ==
    /\ todo # {}
    /\ held' = NoCall /\ todo' = {}
    /\ UNCHANGED <<policy, Tables, Counts, now>>

\* The process ends, and may come back under another policy.
Crash ==
    /\ policy # Off
    /\ policy' = Off /\ held' = NoCall /\ todo' = {}
    /\ UNCHANGED <<Tables, Counts, now>>

Tick(t) ==
    /\ t > now
    /\ now' = t
    /\ UNCHANGED <<policy, Tables, Call, Counts>>

Next ==
    \/ \E c \in Sections \union {DefaultTtl} : Load(c)
    \/ \E g \in Grants :
          \/ \E r \in Requests : Request(g, r)
          \/ \E ev \in Events : Decide(g, ev)
          \/ CheckExpiry(g)
          \/ \E l \in Leases, q \in LeaseRequests : IssueLease(g, l, q)
          \/ \E l \in Leases, o \in Operations : ConsumeLease(g, l, o)
    \/ SaveGrant \/ SaveLease \/ SaveFails
    \/ Crash
    \/ \E t \in Instants : Tick(t)

Spec == Init /\ [][Next]_vars

-----------------------------------------------------------------------------
LeasesTypeOK ==
    /\ policy # Off => TtlConfigOk(policy)
    /\ grants \in [Grants -> GrantRows \union {NoGrant}]
    /\ leases \in [Leases -> LeaseRows \union {NoLease}]
    /\ todo \subseteq {"grant", "lease"}
    /\ todo # {} => held \in [g : Grants, l : Leases, grant : GrantRows, lease : LeaseRows]
    /\ byLease \in [Leases -> Nat] /\ byGrant \in [Grants -> Nat]
    /\ now \in Nat

\* A lease is cut from a grant that exists, for its subject, within its scope
\* and its time.
Within(lease, g) ==
    /\ Exists(g) /\ lease.grant = g
    /\ lease.subject = grants[g].subject
    /\ lease.workspaces \subseteq grants[g].workspaces
    /\ lease.capabilities \subseteq grants[g].capabilities
    /\ lease.expires <= grants[g].expires

SameTerms(a, b) ==
    /\ a.subject = b.subject /\ a.kind = b.kind /\ a.workspaces = b.workspaces
    /\ a.capabilities = b.capabilities /\ a.requested = b.requested /\ a.expires = b.expires

\* No grant lives longer than the largest ceiling a configuration may set,
\* whatever a request asks for, and every stored lease is narrower than its
\* grant and ends no later, although grant and lease are saved separately.
Narrowing ==
    /\ \A g \in Grants : Exists(g) =>
          /\ grants[g].expires > grants[g].requested
          /\ grants[g].expires - grants[g].requested <= MaxTtl
    /\ \A l \in Leases : leases[l] # NoLease => Within(leases[l], leases[l].grant)

\* A call in progress holds the terms of its grant, and what it has saved is
\* what is stored.
HeldIsCurrent ==
    todo # {} =>
        /\ Within(held.lease, held.g)
        /\ SameTerms(held.grant, grants[held.g])
        /\ leases[held.l] # NoLease =>
              /\ leases[held.l].subject = held.lease.subject
              /\ leases[held.l].grant = held.g
              /\ leases[held.l].workspaces = held.lease.workspaces
              /\ leases[held.l].capabilities = held.lease.capabilities
        /\ "lease" \notin todo => leases[held.l] = held.lease
        /\ "grant" \notin todo => grants[held.g] = held.grant
        /\ byLease[held.l] = 0
        /\ held.grant.kind = "one_shot" => byGrant[held.g] = 0
        /\ held.lease.spentBy # NoOperation /\ held.grant.kind = "one_shot" =>
              held.grant.status = "consumed" /\ held.grant.issued = held.l

\* A lease an operation went ahead with is stored as spent; a one-shot grant
\* that gave one is stored as consumed, and by the very lease it remembers.
SpentIsStored ==
    /\ \A l \in Leases : byLease[l] > 0 =>
          /\ leases[l] # NoLease /\ leases[l].spentBy # NoOperation
          /\ byGrant[leases[l].grant] > 0
          /\ grants[leases[l].grant].kind = "one_shot" => grants[leases[l].grant].issued = l
    /\ \A g \in Grants : byGrant[g] > 0 =>
          Exists(g) /\ (grants[g].kind = "one_shot" => grants[g].status = "consumed")

\* However the two saves of a lease and of its grant are ordered, fail or are
\* cut short by the end of the process, and whatever is retried afterwards, a
\* lease lets at most one operation go ahead and so does a one-shot grant,
\* even when a lost save leaves it with two stored leases.
SpentOnce ==
    /\ \A l \in Leases : byLease[l] <= 1
    /\ \A g \in Grants : Exists(g) /\ grants[g].kind = "one_shot" => byGrant[g] <= 1

LeasesInductive == LeasesTypeOK /\ Narrowing /\ HeldIsCurrent /\ SpentIsStored /\ SpentOnce
=============================================================================
