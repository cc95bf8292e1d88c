---------------------------- MODULE AccessGrants ----------------------------
(***************************************************************************)
(* The authorization records of the daemon: how a remote session request   *)
(* becomes a session row and a pending access grant, how local decisions   *)
(* move both (decide_session), and what a restart's migration adds.        *)
(*                                                                         *)
(* Every repository call takes the one SQLite mutex for itself, so a       *)
(* handler that loads, decides and saves interleaves with the others       *)
(* between its calls.  Session requests come from the remote processor,    *)
(* one at a time; decisions come from any number of IPC connections.       *)
(***************************************************************************)
EXTENDS Naturals, FiniteSets, GrantMachine

CONSTANTS Subjects,       \* session ids, the subjects of grants
          Scopes,         \* device, principal, task scope, workspaces, profile
          Assurances,     \* {FALSE}, or BOOLEAN when a transport verifies
          Deciders,       \* local IPC connections that make decisions
          NoSubject,      \* no request or decision in hand
          Legacy,         \* session rows an earlier build may have left
          MaxLegacy,      \* bound on how many of them there are
          StorageFaults,  \* TRUE: a repository call may fail
          Ttl,            \* effective lifetime of a request, in clock ticks
          MaxTime,        \* bound on the clock
          MaxStarts       \* bound on daemon starts

\* A session row as an earlier build left it: its status ("connected" for
\* Unpaired to Disconnected), whether approved_at is recorded, and whether it
\* names a workspace and a positive lifetime.
LegacyRow == [status: {"none", "connected"} \union Live \union Terminal,
              approved: BOOLEAN, wellFormed: BOOLEAN]
NoRow == [status |-> "none", approved |-> FALSE, wellFormed |-> TRUE]

ASSUME AccessAssumption == /\ StorageFaults \in BOOLEAN
                           /\ Ttl \in Nat /\ MaxTime \in Nat
                           /\ MaxStarts \in Nat /\ MaxLegacy \in Nat
                           /\ NoSubject \notin Subjects
                           /\ FALSE \in Assurances /\ Assurances \subseteq BOOLEAN
                           /\ Legacy \subseteq LegacyRow
                           /\ \A r \in Legacy : r.status = "none" => r = NoRow

\* A request as find_live_request compares it; verified: its principal carries
\* transport evidence.
Request == [scope: Scopes, verified: Assurances]

\* A subject has at most two grants: its own, created by the request with a
\* fresh id, and the copy whose id is derived from the session row.
Kinds == {"own", "copy"}
GrantIds == Subjects \X Kinds
Statuses == {"none"} \union Live \union Terminal

VARIABLES
  now, phase, starts,
  \* the sessions table: status and contents of the request that made the row,
  \* the rows with an approved_at, and what the earlier build left of the row
  session, reqOf, expires, recorded, legacy,
  \* the access_grants table, and which of a subject's grants sorts first in
  \* load_grant_for_subject (issued_at, then grant_id)
  status, first,
  \* the remote processor: step and session id of the request in hand
  rpPc, rpSubject,
  \* the decisions: step, subject, event, the grant loaded, its status when
  \* loaded, and the status to mirror
  pc, subject, event, grant, loaded, mirror,
  \* history: subjects with an approval, recorded by the earlier build or saved
  \* by this one, subjects resumed without one, and subjects whose withdrawal
  \* was acknowledged and not decided since
  approved, resumed, withdrawn

daemon == <<now, phase, starts>>
rows == <<session, reqOf, expires, recorded, legacy, status, first>>
processor == <<rpPc, rpSubject>>
decisions == <<pc, subject, event, grant, loaded, mirror>>
history == <<approved, resumed, withdrawn>>
vars == <<daemon, rows, processor, decisions, history>>

\* The grant a decision computed from the one it loaded.
NextStatus(d) == GrantTransition(loaded[d], event[d])

\* Every variable has its shape, and a decision that is about to be saved is
\* one the grant machine accepted.
AccessTypeOK ==
  /\ now \in Nat /\ starts \in Nat /\ phase \in {"up", "down"}
  /\ session \in [Subjects -> Statuses \union {"connected"}]
  /\ reqOf \in [Subjects -> Request]
  /\ expires \in [Subjects -> Nat]
  /\ recorded \subseteq Subjects
  /\ legacy \in [Subjects -> Legacy]
  /\ status \in [GrantIds -> Statuses]
  /\ first \in [Subjects -> Kinds]
  /\ rpPc \in {"idle", "save_grant"}
  /\ rpSubject \in Subjects \union {NoSubject}
  /\ rpPc # "idle" => rpSubject \in Subjects
  /\ pc \in [Deciders -> {"idle", "derive", "save", "mirror", "mirror_save"}]
  /\ subject \in [Deciders -> Subjects \union {NoSubject}]
  /\ event \in [Deciders -> Events]
  /\ grant \in [Deciders -> Kinds]
  /\ loaded \in [Deciders -> Statuses]
  /\ mirror \in [Deciders -> Statuses]
  /\ \A d \in Deciders : /\ pc[d] # "idle" => subject[d] \in Subjects
                         /\ pc[d] = "save" => NextStatus(d) # "refused"
  /\ approved \subseteq Subjects
  /\ resumed \subseteq Subjects
  /\ withdrawn \subseteq Subjects

\* Rows an earlier build left behind, before any grant existed; none of them
\* is in use by the current one.
Init ==
  /\ now = 0 /\ phase = "down" /\ starts = 0
  /\ legacy \in [Subjects -> Legacy]
  /\ Cardinality({s \in Subjects : legacy[s] # NoRow}) <= MaxLegacy
  /\ session = [s \in Subjects |-> legacy[s].status]
  /\ recorded = {s \in Subjects : legacy[s].approved}
  /\ reqOf \in [Subjects -> {r \in Request : ~r.verified}]
  /\ expires = [s \in Subjects |-> Ttl]
  /\ status = [g \in GrantIds |-> "none"]
  /\ first = [s \in Subjects |-> "own"]
  /\ rpPc = "idle" /\ rpSubject = NoSubject
  /\ pc = [d \in Deciders |-> "idle"]
  /\ subject = [d \in Deciders |-> NoSubject]
  /\ event = [d \in Deciders |-> "revoke"]
  /\ grant = [d \in Deciders |-> "own"]
  /\ loaded = [d \in Deciders |-> "none"]
  /\ mirror = [d \in Deciders |-> "none"]
  /\ approved = recorded /\ resumed = {} /\ withdrawn = {}

Up == phase = "up"

-----------------------------------------------------------------------------
(* The repositories and the legacy adapter.                                *)

\* NoWorkspace, NonPositiveLifetime and ActiveWithoutApproval: the rows the
\* adapter refuses.  Rows of this build name the workspace they were loaded for
\* and a positive lifetime.
Refuses(s) == ~legacy[s].wellFormed \/ (session[s] = "active" /\ s \notin recorded)

\* Variant: an ended session becomes a new request.
FromSessionForgetsEnd(s) ==
  IF session[s] = "connected" \/ Refuses(s) THEN "none"
  ELSE IF session[s] \in Terminal THEN "pending" ELSE session[s]

\* Variant: an active row is taken for an approved one.
FromSessionTrusting(s) ==
  IF session[s] = "connected" \/ ~legacy[s].wellFormed THEN "none" ELSE session[s]

\* grant_from_legacy_session: the status a session row stands for, "none" where
\* it never carried authority or is refused (every caller drops the error).
FromSession(s) == IF session[s] = "connected" \/ Refuses(s) THEN "none" ELSE session[s]

HasGrant(s) == \E k \in Kinds : status[<<s, k>>] # "none"

\* load_grant_for_subject.
Selected(s) == IF status[<<s, "own">>] = "none" THEN "copy"
               ELSE IF status[<<s, "copy">>] = "none" THEN "own" ELSE first[s]

\* resolve_grant: what an operation of s is judged by.
Authority(s) == IF HasGrant(s) THEN status[<<s, Selected(s)>>]
                ELSE FromSession(s)

\* AccessGrant::is_usable_at.
Usable(s) == Authority(s) = "active" /\ now < expires[s]

\* The request a grant answers; the adapter drops the transport evidence.
Answers(g) == [scope |-> reqOf[g[1]].scope,
               verified |-> g[2] = "own" /\ reqOf[g[1]].verified]

\* Variant: no search for an identical live request.
FindNoRequest(r) == {}

\* find_live_request.
FindLiveRequest(r) ==
  {g \in GrantIds : status[g] \in Live /\ Answers(g) = r}

-----------------------------------------------------------------------------
(* handle_session_request_with_principal.  Requests for another device or  *)
(* an unknown workspace, and duplicates of a live grant, change nothing.   *)

RpIdle == rpPc' = "idle" /\ rpSubject' = NoSubject

\* A fresh session id is drawn, and with the grant id the order of the two.
\* The session row is saved in a second call, but nobody else can know the id
\* before that, so the two calls are one step.
RequestSaveSession(r, s) ==
  /\ Up /\ rpPc = "idle"
  /\ session[s] = "none"
  /\ FindLiveRequest(r) = {}
  /\ session' = [session EXCEPT ![s] = "pending"]
  /\ reqOf' = [reqOf EXCEPT ![s] = r]
  /\ expires' = [expires EXCEPT ![s] = now + Ttl]
  /\ \E k \in Kinds : first' = [first EXCEPT ![s] = k]
  /\ rpPc' = "save_grant" /\ rpSubject' = s
  /\ UNCHANGED <<daemon, recorded, legacy, status, decisions, history>>

\* Variant: the request is saved as approved.
SaveActiveGrant(s) == status' = [status EXCEPT ![<<s, "own">>] = "active"]

\* AccessGrant::requested: a request is never an approval.
SavePendingGrant(s) == status' = [status EXCEPT ![<<s, "own">>] = "pending"]

RequestSaveGrant ==
  /\ Up /\ rpPc = "save_grant"
  /\ SavePendingGrant(rpSubject)
  /\ RpIdle
  /\ UNCHANGED <<daemon, session, reqOf, expires, recorded, legacy, first,
                 decisions, history>>

RequestFails ==
  /\ Up /\ rpPc = "save_grant" /\ StorageFaults
  /\ RpIdle
  /\ UNCHANGED <<daemon, rows, decisions, history>>

-----------------------------------------------------------------------------
(* decide_session.  A refused transition is an error that changes nothing. *)

DecideIdle(d) ==
  /\ pc' = [pc EXCEPT ![d] = "idle"]
  /\ subject' = [subject EXCEPT ![d] = NoSubject]
  /\ event' = [event EXCEPT ![d] = "revoke"]
  /\ grant' = [grant EXCEPT ![d] = "own"]
  /\ loaded' = [loaded EXCEPT ![d] = "none"]
  /\ mirror' = [mirror EXCEPT ![d] = "none"]

\* An approval or a resumption that passes the grant machine reopens a subject.
Reopen(s, ev) ==
  withdrawn' = IF ev \in {"approve", "resume"} THEN withdrawn \ {s}
               ELSE withdrawn

\* authority_for_subject finds a persisted grant ...
DecideLoad(d, s, ev) ==
  /\ Up /\ pc[d] = "idle" /\ HasGrant(s)
  /\ GrantTransition(status[<<s, Selected(s)>>], ev) # "refused"
  /\ pc' = [pc EXCEPT ![d] = "save"]
  /\ subject' = [subject EXCEPT ![d] = s]
  /\ event' = [event EXCEPT ![d] = ev]
  /\ grant' = [grant EXCEPT ![d] = Selected(s)]
  /\ loaded' = [loaded EXCEPT ![d] = status[<<s, Selected(s)>>]]
  /\ Reopen(s, ev)
  /\ UNCHANGED <<daemon, rows, processor, mirror, approved, resumed>>

\* ... or none, and falls back to the session row in a second call.
DecideMiss(d, s, ev) ==
  /\ Up /\ pc[d] = "idle" /\ ~HasGrant(s)
  /\ pc' = [pc EXCEPT ![d] = "derive"]
  /\ subject' = [subject EXCEPT ![d] = s]
  /\ event' = [event EXCEPT ![d] = ev]
  /\ UNCHANGED <<daemon, rows, processor, grant, loaded, mirror, history>>

DecideDerive(d) ==
  /\ Up /\ pc[d] = "derive"
  /\ LET st == FromSession(subject[d]) IN
       \/ /\ GrantTransition(st, event[d]) # "refused"
          /\ pc' = [pc EXCEPT ![d] = "save"]
          /\ grant' = [grant EXCEPT ![d] = "copy"]
          /\ loaded' = [loaded EXCEPT ![d] = st]
          /\ Reopen(subject[d], event[d])
          /\ UNCHANGED <<subject, event, mirror>>
       \/ /\ GrantTransition(st, event[d]) = "refused"
          /\ DecideIdle(d)
          /\ UNCHANGED withdrawn
  /\ UNCHANGED <<daemon, rows, processor, approved, resumed>>

\* save_grant: an unconditional upsert of the row computed from the load.
DecideSave(d) ==
  /\ Up /\ pc[d] = "save"
  /\ status' = [status EXCEPT ![<<subject[d], grant[d]>>] = NextStatus(d)]
  /\ approved' = IF event[d] = "approve" THEN approved \union {subject[d]}
                 ELSE approved
  /\ resumed' = IF event[d] = "resume" THEN resumed \union ({subject[d]} \ approved)
                ELSE resumed
  /\ pc' = [pc EXCEPT ![d] = "mirror"]
  /\ UNCHANGED <<daemon, session, reqOf, expires, recorded, legacy, first, processor,
                 subject, event, grant, loaded, mirror, withdrawn>>

\* The decision is acknowledged to the local client.
Ack(d) ==
  /\ withdrawn' = IF NextStatus(d) = "revoked" THEN withdrawn \union {subject[d]}
                  ELSE withdrawn
  /\ DecideIdle(d)
  /\ UNCHANGED <<approved, resumed>>

\* The mirror: the session row is loaded, and saved only if it can follow.
DecideMirror(d) ==
  /\ Up /\ pc[d] = "mirror"
  /\ LET st == SessionTransition(session[subject[d]], event[d]) IN
       \/ /\ st # "refused"
          /\ pc' = [pc EXCEPT ![d] = "mirror_save"]
          /\ mirror' = [mirror EXCEPT ![d] = st]
          /\ UNCHANGED <<subject, event, grant, loaded, history>>
       \/ st = "refused" /\ Ack(d)
  /\ UNCHANGED <<daemon, rows, processor>>

\* Session::transition stamps approved_at on an approval and keeps it otherwise.
\* A save that brings back a row loaded before another client's approval brings
\* back a row that ended, of which nobody reads it.
Records(d) ==
  recorded' = IF event[d] = "approve" THEN recorded \union {subject[d]} ELSE recorded

\* Variant: only what gives access is mirrored, a withdrawal is not.
DecideMirrorSkipped(d) ==
  /\ Up /\ pc[d] = "mirror_save"
  /\ session' = IF mirror[d] = "revoked" THEN session
                ELSE [session EXCEPT ![subject[d]] = mirror[d]]
  /\ Records(d)
  /\ Ack(d)
  /\ UNCHANGED <<daemon, reqOf, expires, legacy, status, first, processor>>

DecideMirrorSave(d) ==
  /\ Up /\ pc[d] = "mirror_save"
  /\ session' = [session EXCEPT ![subject[d]] = mirror[d]]
  /\ Records(d)
  /\ Ack(d)
  /\ UNCHANGED <<daemon, reqOf, expires, legacy, status, first, processor>>

\* A failing read or write returns the error; what was written before stays.
DecideFails(d) ==
  /\ Up /\ pc[d] # "idle" /\ StorageFaults
  /\ DecideIdle(d)
  /\ UNCHANGED <<daemon, rows, processor, history>>

-----------------------------------------------------------------------------
(* The clock and the process.                                              *)

Tick == /\ now < MaxTime
        /\ now' = now + 1
        /\ UNCHANGED <<phase, starts, rows, processor, decisions, history>>

\* Variant: an existing copy is overwritten at every start.
MigrateOverwriting ==
  status' = [g \in GrantIds |->
               IF g[2] = "copy" THEN FromSession(g[1]) ELSE status[g]]

\* migrate_legacy_sessions: every session row that stands for authority and
\* whose derived grant id has no row gets one.
Migrate ==
  status' = [g \in GrantIds |->
               IF g[2] = "copy" /\ status[g] = "none"
               THEN FromSession(g[1]) ELSE status[g]]

Start ==
  /\ phase = "down" /\ starts < MaxStarts
  /\ phase' = "up" /\ starts' = starts + 1
  /\ Migrate
  /\ UNCHANGED <<now, session, reqOf, expires, recorded, legacy, first, processor,
                 decisions, history>>

\* The process ends at any point; its handlers are forgotten.
Halt ==
  /\ Up
  /\ phase' = "down"
  /\ RpIdle
  /\ pc' = [d \in Deciders |-> "idle"]
  /\ subject' = [d \in Deciders |-> NoSubject]
  /\ event' = [d \in Deciders |-> "revoke"]
  /\ grant' = [d \in Deciders |-> "own"]
  /\ loaded' = [d \in Deciders |-> "none"]
  /\ mirror' = [d \in Deciders |-> "none"]
  /\ UNCHANGED <<now, starts, rows, history>>

DecideStep(d) == \/ DecideDerive(d) \/ DecideSave(d) \/ DecideMirror(d)
                 \/ DecideMirrorSave(d) \/ DecideFails(d)

Next == \/ \E r \in Request, s \in Subjects : RequestSaveSession(r, s)
        \/ RequestSaveGrant \/ RequestFails
        \/ \E d \in Deciders, s \in Subjects, ev \in Events :
             DecideLoad(d, s, ev) \/ DecideMiss(d, s, ev)
        \/ \E d \in Deciders : DecideStep(d)
        \/ Tick \/ Start \/ Halt

Spec == Init /\ [][Next]_vars

-----------------------------------------------------------------------------
(* What the authorization records guarantee.                               *)

Granted == {"active", "suspended"}

\* A row the earlier build suspended without having recorded an approval: the
\* adapter asks for one of active rows only.
SuspendedUnapproved(s) == legacy[s].status = "suspended" /\ ~legacy[s].approved

\* No authority without a local approval: whatever the interleaving of
\* requests, decisions, failed writes, restarts and migrations, a subject with
\* an active or suspended grant, or with a row that stands for one, has an
\* approval, given here or recorded by the earlier build; the exception is a
\* row that was left suspended without one, and such a subject becomes active
\* by the local user's resumption only (AccessGrant::requested,
\* decide_session, migrate_legacy_sessions, grant_from_legacy_session).
ApprovalPrecedesAuthority ==
  \A s \in Subjects :
    LET held == {FromSession(s)} \union {status[<<s, k>>] : k \in Kinds} IN
      /\ held \intersect Granted # {} => s \in approved \/ SuspendedUnapproved(s)
      /\ "active" \in held => s \in approved \union resumed

\* The rows that ended before the authorization model existed, and the
\* inconsistent ones.
Ended == {s \in Subjects : legacy[s].status \in Terminal}
Refused == {s \in Subjects : \/ ~legacy[s].wellFormed
                             \/ legacy[s].status = "active" /\ ~legacy[s].approved}

\* A row that was revoked or expired before the authorization model existed
\* never stands for authority again, and "a row that is internally inconsistent
\* ... can never authorize anything" (grant_from_legacy_session, migration.rs).
LegacyFailsClosed == \A s \in Ended \union Refused : Authority(s) \notin Live

\* An acknowledged revocation or denial holds, through crashes, failed calls
\* and restarts, until the user approves or resumes the subject again
\* (decide_session as one local client sees it).
RevocationSticks == \A s \in withdrawn : ~Usable(s)

\* A replayed session request never stacks a second live grant of its own on
\* an identical one (find_live_request).
RequestsDoNotStack ==
  \A s, t \in Subjects :
    (s # t /\ status[<<s, "own">>] \in Live /\ status[<<t, "own">>] \in Live)
      => reqOf[s] # reqOf[t]

\* With one local client at a time, the stored grants follow the promised
\* lifecycle: each decision takes effect as one atomic transition although it
\* is a load and an unconditional save (decide_session, save_grant).
Lifecycle == INSTANCE GrantLifecycle WITH grants <- status
FollowsLifecycle == Lifecycle!Spec

-----------------------------------------------------------------------------
(* The inductive invariants behind them.                                   *)

\* What a decision carries from its load to its saves was approved, too, and so
\* is what the mirror rows hold.
CarriedInv ==
  /\ recorded \subseteq approved
  /\ \A s \in Subjects : session[s] \in Granted =>
       s \in approved \/ SuspendedUnapproved(s) \/ s \in Refused
  /\ \A d \in Deciders :
       /\ (pc[d] = "save" /\ loaded[d] \in Granted)
            => subject[d] \in approved \/ SuspendedUnapproved(subject[d])
       /\ (pc[d] \in {"mirror", "mirror_save"} /\ event[d] = "approve")
            => subject[d] \in approved
       /\ (pc[d] = "mirror_save" /\ mirror[d] \in Granted)
            => subject[d] \in approved \/ SuspendedUnapproved(subject[d])

\* No decision on s gets past the grant machine, and no request makes it anew.
Untouched(s) ==
  /\ status[<<s, "own">>] = "none"
  /\ rpPc = "save_grant" => rpSubject # s
  /\ \A d \in Deciders : pc[d] \in {"save", "mirror", "mirror_save"} => subject[d] # s

\* A subject that had ended gets no grant but a terminal copy, and an
\* inconsistent one gets none and keeps its row.
EndedInv ==
  /\ \A s \in Ended : /\ session[s] \in Terminal /\ Untouched(s)
                      /\ status[<<s, "copy">>] \in {"none"} \union Terminal
  /\ \A s \in Refused : /\ session[s] = legacy[s].status /\ Untouched(s)
                        /\ s \in recorded => legacy[s].approved
                        /\ status[<<s, "copy">>] = "none"

\* A decision never carries authority the user did not approve and never holds
\* a subject that had ended or was refused: what makes the first two guarantees
\* inductive.
AccessInvariant == ApprovalPrecedesAuthority /\ CarriedInv /\ EndedInv

\* With the types of the records and of the decisions under way: the inductive
\* invariant of the two tables.
AccessInductive == AccessTypeOK /\ AccessInvariant

\* With one client, the row a decision is about to save is still the row it
\* loaded (or, for a row derived from the session, not there yet), and the
\* grant a request is about to save does not exist: the read-modify-write of
\* decide_session is atomic in effect.
LoadIsCurrent ==
  /\ phase = "down" => rpPc = "idle" /\ \A d \in Deciders : pc[d] = "idle"
  /\ rpPc = "save_grant" => /\ status[<<rpSubject, "own">>] = "none"
                            /\ session[rpSubject] # "none"
  /\ \A s \in Subjects : session[s] = "none" => status[<<s, "own">>] = "none"
  /\ \A d \in Deciders : pc[d] = "save" =>
       status[<<subject[d], grant[d]>>] \in
         {loaded[d]} \union (IF grant[d] = "copy" THEN {"none"} ELSE {})
  /\ \A d \in Deciders :
       /\ pc[d] = "derive" => status[<<subject[d], "copy">>] = "none"
       /\ pc[d] = "mirror_save" => mirror[d] # "none"

\* With one client, no live grant answers the request whose own grant is still
\* to be saved: nothing that find_live_request looked at has come to life
\* since (handle_session_request_with_principal).
RequestInv ==
  rpPc = "save_grant" =>
    \A s \in Subjects \ {rpSubject} :
      status[<<s, "own">>] \in Live => reqOf[s] # reqOf[rpSubject]

\* A grant always has its session row, and an active row that the next
\* migration would still copy is backed by a grant that was decided on.
RowInv(s) ==
  /\ session[s] = "none" => status[<<s, "copy">>] = "none"
  /\ (FromSession(s) = "active" /\ status[<<s, "copy">>] = "none") =>
       \/ status[<<s, "own">>] \notin {"none", "pending"}
       \/ phase = "down" /\ status[<<s, "own">>] = "none"

\* A decision that fell back to the session row meets no grant but a newer
\* request; one past the grant machine holds the grant its subject is judged
\* by (or a newer request hides it) and, once saved, finds it as saved; and a
\* denial finds no active row that it would leave to the migration.
HeldInv(d) ==
  /\ pc[d] = "derive" => status[<<subject[d], "own">>] \in {"none", "pending"}
  /\ pc[d] \in {"save", "mirror", "mirror_save"} =>
       /\ session[subject[d]] # "none"
       /\ \/ Selected(subject[d]) = grant[d]
          \/ status[<<subject[d], Selected(subject[d])>>] = "pending"
  /\ (/\ pc[d] \in {"save", "mirror"} /\ event[d] = "deny"
      /\ status[<<subject[d], "copy">>] = "none") => FromSession(subject[d]) # "active"
  /\ pc[d] \in {"mirror", "mirror_save"} =>
       status[<<subject[d], grant[d]>>] = NextStatus(d)

\* Nothing is on its way to making a withdrawn subject active again, except by
\* an approval or a resumption, which reopen it first.
ReopenInv(d) ==
  /\ pc[d] = "derive" => subject[d] \notin withdrawn
  /\ (/\ pc[d] \in {"save", "mirror", "mirror_save"}
      /\ event[d] \in {"approve", "resume"}) => subject[d] \notin withdrawn
  /\ (pc[d] = "mirror_save" /\ mirror[d] = "active") =>
       event[d] \in {"approve", "resume"}

\* A withdrawn subject is judged by a grant that is not active, with no active
\* row left to be migrated.
NotActive(s) == /\ HasGrant(s) /\ status[<<s, Selected(s)>>] # "active"
                /\ status[<<s, "copy">>] = "none" => FromSession(s) # "active"

\* With one client, what decide_session leaves behind a withdrawal.
WithdrawalInv == /\ \A s \in Subjects : RowInv(s)
                 /\ \A d \in Deciders : HeldInv(d) /\ ReopenInv(d)
                 /\ \A s \in withdrawn : NotActive(s)

-----------------------------------------------------------------------------
(* Claims made in the repository that the code does not keep.              *)

\* "Approved and inside its own expiry. The only status that carries
\* authority." (AuthorizationStatus::Active): a row left suspended without an
\* approval is migrated as it is and can be resumed.
ActiveIsApproved ==
  \A s \in Subjects, k \in Kinds : status[<<s, k>>] = "active" => s \in approved

\* "Withdrawn locally. Terminal and irreversible for this grant id."
\* (AuthorizationStatus::Revoked).
RevokedIsIrreversible ==
  [][\A g \in GrantIds : status[g] = "revoked" => status'[g] = "revoked"]_vars

\* "a pending request that outlives its TTL can never be approved afterwards"
\* (session-lifecycle.md): no approval is accepted once the deadline passed.
NoApprovalAfterExpiry ==
  [][\A d \in Deciders :
       (pc[d] # "save" /\ pc'[d] = "save" /\ event'[d] = "approve")
         => now < expires[subject'[d]]]_vars

\* "A terminal grant never matches, so a genuinely new request after a
\* revoke/expiry is still honoured." (find_live_request).
ExpiredDoesNotBlock ==
  \A r \in Request :
    FindLiveRequest(r) # {} =>
      \E g \in FindLiveRequest(r) : now < expires[g[1]]

\* "re-running the migration updates the same grant instead of forking a second
\* copy of the same authority" (migration.rs).
NoForkedGrant ==
  \A s \in Subjects : ~ \A k \in Kinds : status[<<s, k>>] \in Live

\* "A revocation therefore survives any number of restarts."
\* (session-lifecycle.md).
RevocationSurvivesRestart ==
  [][\A s \in Subjects :
       (phase = "down" /\ Authority(s) = "revoked")
         => Authority(s)' = "revoked"]_vars
=============================================================================
