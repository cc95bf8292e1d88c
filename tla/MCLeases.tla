------------------------------ MODULE MCLeases ------------------------------
(***************************************************************************)
(* Two grants, one of each kind or two alike, two lease ids, requests      *)
(* below and above the ceilings, and sections with each kind of bad value. *)
(***************************************************************************)
EXTENDS Leases, TLC

Section(minutes, risk, high) ==
    [DefaultTtl EXCEPT !.profile.design = [minutes |-> minutes, risk |-> risk],
                       !.ceiling.high = high]
MCSections ==
    {Section(2, "high", MaxTtl), Section(0, "low", 15), Section(1, "odd", 15),
     Section(1, "low", MaxTtl + 1)}
MCRequests ==
    {[subject |-> "s", kind |-> k, workspaces |-> {"w1"}, profile |-> "design",
      custom |-> {}, minutes |-> 600000] : k \in Kinds}
    \union {[subject |-> "s", kind |-> "standing", workspaces |-> {"w1"},
             profile |-> "custom", custom |-> {"read"}, minutes |-> -1]}
MCLeaseRequests ==
    {[workspaces |-> {"w1"}, capabilities |-> c, lifetime |-> n] :
        c \in {{"read"}, {"export"}}, n \in {0, 2}}
    \union {[workspaces |-> w, capabilities |-> {"read"}, lifetime |-> 1] :
                w \in {{}, {"w1", "w2"}}}
Symmetry == Permutations(Grants) \union Permutations(Leases) \union Permutations(Operations)
=============================================================================
