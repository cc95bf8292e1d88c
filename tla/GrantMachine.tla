---------------------------- MODULE GrantMachine ----------------------------
(***************************************************************************)
(* The two pure state machines of crates/sessions: the access grant        *)
(* (grant_machine.rs), which is the authority, and the session row         *)
(* (state_machine.rs), which mirrors it for older clients.                 *)
(***************************************************************************)

\* AuthorizationStatus; Consumed needs a one-shot grant, which no request of
\* the daemon creates (module Leases adds it).
Live == {"pending", "active", "suspended"}
Terminal == {"revoked", "expired"}

\* The local decisions that reach decide_session, by their legacy name.
Events == {"approve", "deny", "pause", "resume", "revoke"}

\* AccessGrant::transition after authorization_event_for: a terminal grant
\* refuses everything, Revoke is accepted from any other state.  Expiry is not
\* looked at: only CheckExpiry does, and no decision maps to it.
GrantTransition(st, ev) ==
  CASE st \in Live /\ ev = "revoke" -> "revoked"
    [] st = "pending" /\ ev = "approve" -> "active"
    [] st = "pending" /\ ev = "deny" -> "revoked"
    [] st = "active" /\ ev = "pause" -> "suspended"
    [] st = "suspended" /\ ev = "resume" -> "active"
    [] OTHER -> "refused"

\* Session::transition for the same events; a session that never asked for
\* access ("connected", for Unpaired to Disconnected) can still be revoked.
SessionTransition(st, ev) ==
  CASE st \in Live \union {"connected"} /\ ev = "revoke" -> "revoked"
    [] st = "pending" /\ ev = "approve" -> "active"
    [] st = "pending" /\ ev = "deny" -> "revoked"
    [] st = "active" /\ ev = "pause" -> "suspended"
    [] st = "suspended" /\ ev = "resume" -> "active"
    [] OTHER -> "refused"
=============================================================================
