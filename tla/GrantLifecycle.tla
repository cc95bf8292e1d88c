--------------------------- MODULE GrantLifecycle ---------------------------
(***************************************************************************)
(* What the authorization model promises of one access grant: it is        *)
(* created once, every later change is one legal transition of the grant   *)
(* machine applied atomically, and a terminal grant never changes again.   *)
(***************************************************************************)
EXTENDS GrantMachine

CONSTANT GrantIds

VARIABLE grants  \* status per grant id, "none" before it exists

Init == grants = [g \in GrantIds |-> "none"]

\* A remote request creates one pending grant.  The migration, or a decision
\* on a row that has not been migrated, creates grants in any state.
Create == /\ grants' \in [GrantIds -> {"none"} \union Live \union Terminal]
          /\ \A g \in GrantIds : grants'[g] # grants[g] => grants[g] = "none"

Decide(g, ev) == /\ GrantTransition(grants[g], ev) # "refused"
                 /\ grants' = [grants EXCEPT ![g] =
                                 GrantTransition(grants[g], ev)]

Next == Create \/ \E g \in GrantIds, ev \in Events : Decide(g, ev)

Spec == Init /\ [][Next]_grants
=============================================================================
