--------------------------- MODULE OperationGate ---------------------------
(***************************************************************************)
(* The operation gate of the daemon: how one remote `operation.request`    *)
(* becomes an audit row, a refusal, an entry of the pending queue or a     *)
(* `tools/call` at kicad-mcp-pro, and what the local user's approve, deny  *)
(* and revoke decisions do to it (apps/daemon/src/remote_processor.rs,     *)
(* crates/audit/src/repository.rs, and the end of decide_session in        *)
(* apps/daemon/src/handlers.rs).                                           *)
(*                                                                         *)
(* The remote processor handles one envelope at a time.  Every local IPC   *)
(* connection is a task of its own.  A step below is what runs between two *)
(* lock acquisitions or awaits; the audit store and the pending queue each *)
(* sit behind a mutex that is held for a single call.                      *)
(***************************************************************************)
EXTENDS Naturals

CONSTANTS Ops,            \* operation ids
          Sessions,       \* session ids, the subjects of access grants
          Clients,        \* local IPC connections
          NoSession,      \* the subject of no row, the target of no revocation
          NoEnv,          \* the remote processor is waiting for an envelope
          StorageFaults,  \* TRUE: any repository call may fail
          Crashes,        \* TRUE: the daemon may stop or die, and restart
          Overwrites      \* TRUE: a late save may overwrite a revocation

Envelope == [op: Ops, session: Sessions, high: BOOLEAN, bound: BOOLEAN]

ASSUME GateAssumption == /\ StorageFaults \in BOOLEAN
                         /\ Crashes \in BOOLEAN
                         /\ Overwrites \in BOOLEAN
                         /\ NoSession \notin Sessions
                         /\ NoEnv \notin Envelope

VARIABLES
  \* the audit_events table, by column; "absent" is a row not yet inserted
  result, subject, approval, exec,
  pending,    \* DaemonState::pending_operations (its keys)
  calls,      \* tools/call requests kicad-mcp-pro received, per id
  \* the remote processor: step, envelope, policy decision
  rpPc, env, decision,
  \* the IPC tasks: step, operations taken from the queue, session to revoke
  pc, held, target,
  authority,  \* what the grant store and the workspace store answer
  row,        \* what the session row would stand for
  transport,  \* DaemonState::transport is Some
  phase,      \* the daemon process
  \* history: ids the user denied, ids already authorized when their session
  \* was revoked
  denied, cleared

audit == <<result, subject, approval, exec>>
processor == <<rpPc, env, decision>>
tasks == <<pc, held, target>>
daemon == <<authority, row, transport, phase>>
history == <<denied, cleared>>
vars == <<audit, pending, calls, processor, tasks, daemon, history>>

ApprovePcs == {"revalidate", "persist", "persist_stale", "stale", "call",
               "finish"}
DenyPcs == {"deny_record", "deny_finish"}
RevokePcs == {"mirror", "invalidate", "finalize"}

\* Every variable has its shape; in particular a row carries only the states
\* the audit schema knows.
TypeOK ==
  /\ result \in [Ops -> {"absent", "allow", "deny", "require_approval"}]
  /\ subject \in [Ops -> Sessions \union {NoSession}]
  /\ approval \in [Ops -> {"none", "allow_once", "denied"}]
  /\ exec \in [Ops -> {"not_executed", "success", "failed"}]
  /\ pending \subseteq Ops
  /\ calls \in [Ops -> Nat]
  /\ rpPc \in {"idle", "evaluate", "record", "queue", "call", "finish"}
  /\ env \in Envelope \union {NoEnv}
  /\ rpPc # "idle" => env \in Envelope
  /\ decision \in {"allow", "deny", "require_approval"}
  /\ pc \in [Clients -> {"idle"} \union ApprovePcs \union DenyPcs
                          \union RevokePcs]
  /\ held \in [Clients -> SUBSET Ops]
  /\ target \in [Clients -> Sessions \union {NoSession}]
  /\ authority \in [Sessions -> {"live", "suspended", "revoked"}]
  /\ row \in [Sessions -> {"live", "suspended", "revoked"}]
  /\ transport \in BOOLEAN
  /\ phase \in {"up", "stopping", "down"}
  /\ denied \subseteq Ops
  /\ cleared \subseteq Ops

Init ==
  /\ result = [o \in Ops |-> "absent"]
  /\ subject = [o \in Ops |-> NoSession]
  /\ approval = [o \in Ops |-> "none"]
  /\ exec = [o \in Ops |-> "not_executed"]
  /\ pending = {}
  /\ calls = [o \in Ops |-> 0]
  /\ rpPc = "idle" /\ env = NoEnv /\ decision = "deny"
  /\ pc = [c \in Clients |-> "idle"]
  /\ held = [c \in Clients |-> {}]
  /\ target = [c \in Clients |-> NoSession]
  /\ authority \in [Sessions -> {"live", "suspended"}]
  /\ row = authority
  /\ transport = FALSE
  /\ phase = "up"
  /\ denied = {} /\ cleared = {}

Running == phase # "down"

-----------------------------------------------------------------------------
(* The audit store: one INSERT and two UPDATEs, each a single statement.   *)

\* Variant: an INSERT OR REPLACE.
RecordAcceptsReplace(o) == TRUE

\* operation_id is the PRIMARY KEY and record is a plain INSERT.
RecordAccepts(o) == result[o] = "absent"

\* build_audit_event and record.
Record(o, s, d) ==
  /\ result' = [result EXCEPT ![o] = d]
  /\ subject' = [subject EXCEPT ![o] = s]
  /\ approval' = [approval EXCEPT ![o] = "none"]
  /\ exec' = [exec EXCEPT ![o] = "not_executed"]

\* Variant: the outcome is not written.
UpdateExecutionForgotten(o, status) == UNCHANGED audit

\* update_execution: an unconditional UPDATE of an existing row that either
\* commits or, when the store fails, leaves it as it was.  Every caller only
\* logs the failure.
UpdateExecution(o, status) ==
  /\ \/ exec' = [exec EXCEPT ![o] = status]
     \/ StorageFaults /\ UNCHANGED exec
  /\ UNCHANGED <<result, subject, approval>>

\* update_approval_decision: an unconditional UPDATE of an existing row.
UpdateApproval(o, kind) ==
  /\ approval' = [approval EXCEPT ![o] = kind]
  /\ UNCHANGED <<result, subject, exec>>

\* list_incomplete: what the reconciliation at the next start reports.
ListIncomplete ==
  {o \in Ops : result[o] = "allow" /\ exec[o] = "not_executed"}

-----------------------------------------------------------------------------
(* The remote processor: handle_operation_request_with_principal.          *)

\* evaluate_operation_request: no usable authority is a denial, high risk
\* needs the local user, anything else is allowed.
Policy(standing, high) == IF standing # "live" THEN "deny"
                          ELSE IF high THEN "require_approval" ELSE "allow"

RpIdle == rpPc' = "idle" /\ env' = NoEnv /\ decision' = "deny"

\* An envelope that is malformed, of another protocol version, for another
\* device or for an unknown session is dropped with no effect; the others enter
\* here.
RpReceive(e) ==
  /\ Running /\ transport /\ rpPc = "idle"
  /\ rpPc' = "evaluate"
  /\ env' = e
  /\ UNCHANGED <<audit, pending, calls, decision, tasks, daemon, history>>

\* A verified principal the grant does not accept turns any decision into Deny,
\* and so does a workspace that cannot be read.  A grant that cannot be read is
\* taken for a missing one: the session row decides, and it binds no principal.
RpEvaluate ==
  /\ Running /\ rpPc = "evaluate"
  /\ rpPc' = "record"
  /\ \/ decision' = IF env.bound THEN Policy(authority[env.session], env.high)
                    ELSE "deny"
     \/ StorageFaults /\ decision' \in {Policy(row[env.session], env.high), "deny"}
  /\ UNCHANGED <<audit, pending, calls, env, tasks, daemon, history>>

\* Neither grant nor session row could be read: no device to compare with, the
\* request is dropped without an answer and without an audit row.
RpDrop ==
  /\ Running /\ rpPc = "evaluate" /\ StorageFaults
  /\ RpIdle
  /\ UNCHANGED <<audit, pending, calls, tasks, daemon, history>>

RpRecord ==
  /\ Running /\ rpPc = "record" /\ RecordAccepts(env.op)
  /\ Record(env.op, env.session, decision)
  /\ \/ decision = "allow" /\ rpPc' = "call" /\ UNCHANGED <<env, decision>>
     \/ decision = "require_approval" /\ rpPc' = "queue"
        /\ UNCHANGED <<env, decision>>
     \/ decision = "deny" /\ RpIdle
  /\ UNCHANGED <<pending, calls, tasks, daemon, history>>

\* Fail closed: no durable row, no execution and no queue entry; the caller is
\* told `executed: false`.
RpRefuse ==
  /\ Running /\ rpPc = "record"
  /\ ~RecordAccepts(env.op) \/ StorageFaults
  /\ RpIdle
  /\ UNCHANGED <<audit, pending, calls, tasks, daemon, history>>

RpQueue ==
  /\ Running /\ rpPc = "queue"
  /\ pending' = pending \union {env.op}
  /\ RpIdle
  /\ UNCHANGED <<audit, calls, tasks, daemon, history>>

\* The request of call_tool leaves the daemon.
Call(o) == calls' = [calls EXCEPT ![o] = @ + 1]

\* execute_and_respond up to the await of call_tool ...
RpCall ==
  /\ Running /\ rpPc = "call"
  /\ Call(env.op)
  /\ rpPc' = "finish"
  /\ UNCHANGED <<audit, pending, env, decision, tasks, daemon, history>>

\* ... and from its result (an error or a timeout is a failed call) to the end.
RpFinish ==
  /\ Running /\ rpPc = "finish"
  /\ \E status \in {"success", "failed"} : UpdateExecution(env.op, status)
  /\ RpIdle
  /\ UNCHANGED <<pending, calls, tasks, daemon, history>>

-----------------------------------------------------------------------------
(* approve_pending_operation, one IPC task.                                *)

At(c, o, p) == Running /\ pc[c] = p /\ o \in held[c]

Become(c, p) == pc' = [pc EXCEPT ![c] = p] /\ UNCHANGED <<held, target>>

Done(c) == /\ pc' = [pc EXCEPT ![c] = "idle"]
           /\ held' = [held EXCEPT ![c] = {}]
           /\ target' = [target EXCEPT ![c] = NoSession]

\* Variant: the entry is looked up and left in the map.
RemoveIgnored(O) == UNCHANGED pending

\* HashMap::remove and HashMap::retain, under the pending mutex.
Remove(O) == pending' = pending \ O

\* The request of an idle connection takes o out of the queue.
Take(c, o, p) ==
  /\ phase = "up" /\ pc[c] = "idle" /\ o \in pending
  /\ Remove({o})
  /\ pc' = [pc EXCEPT ![c] = p]
  /\ held' = [held EXCEPT ![c] = {o}]
  /\ UNCHANGED target

ApproveTake(c, o) ==
  /\ Take(c, o, "revalidate")
  /\ UNCHANGED <<audit, calls, processor, daemon, history>>

\* Variant: the decision made at queueing time is trusted.
StillAuthorizedAssumed(o) == TRUE

\* The policy can answer RequireApproval again, with the authority of this
\* moment or, when the grant cannot be read, with the session row.
StillAuthorized(o) == \/ authority[subject[o]] = "live"
                      \/ StorageFaults /\ row[subject[o]] = "live"

ApproveRevalidate(c, o) ==
  /\ At(c, o, "revalidate")
  /\ \/ StillAuthorized(o) /\ Become(c, "persist")
     \/ authority[subject[o]] # "live" /\ Become(c, "persist_stale")
     \/ StorageFaults /\ Become(c, "persist_stale")
  /\ UNCHANGED <<audit, pending, calls, processor, daemon, history>>

\* The approval is persisted first, whatever the revalidation said.
ApprovePersist(c, o) ==
  /\ \/ At(c, o, "persist") /\ Become(c, "call")
     \/ At(c, o, "persist_stale") /\ Become(c, "stale")
  /\ UpdateApproval(o, "allow_once")
  /\ UNCHANGED <<pending, calls, processor, daemon, history>>

\* Variant: an approval that cannot be persisted is only logged.
ApproveBestEffort(c, o) ==
  /\ At(c, o, "persist")
  /\ StorageFaults
  /\ Become(c, "call")
  /\ UNCHANGED <<audit, pending, calls, processor, daemon, history>>

\* requeue_pending_operation: the approval could not be persisted.
ApproveRequeue(c, o) ==
  /\ At(c, o, "persist") \/ At(c, o, "persist_stale")
  /\ StorageFaults
  /\ pending' = pending \union {o}
  /\ Done(c)
  /\ UNCHANGED <<audit, calls, processor, daemon, history>>

ApproveStale(c, o) ==
  /\ At(c, o, "stale")
  /\ UpdateExecution(o, "failed")
  /\ Done(c)
  /\ UNCHANGED <<pending, calls, processor, daemon, history>>

ApproveCall(c, o) ==
  /\ At(c, o, "call") /\ transport
  /\ Call(o)
  /\ Become(c, "finish")
  /\ UNCHANGED <<audit, pending, processor, daemon, history>>

\* No transport to answer on: the call is skipped and the approval still
\* returns Ok.
ApproveNoTransport(c, o) ==
  /\ At(c, o, "call") /\ ~transport
  /\ Done(c)
  /\ UNCHANGED <<audit, pending, calls, processor, daemon, history>>

ApproveFinish(c, o) ==
  /\ At(c, o, "finish")
  /\ \E status \in {"success", "failed"} : UpdateExecution(o, status)
  /\ Done(c)
  /\ UNCHANGED <<pending, calls, processor, daemon, history>>

-----------------------------------------------------------------------------
(* deny_pending_operation.                                                 *)

DenyTake(c, o) ==
  /\ Take(c, o, "deny_record")
  /\ denied' = denied \union {o}
  /\ UNCHANGED <<audit, calls, processor, daemon, cleared>>

\* Variant: a denial that cannot be persisted is re-queued, like an approval.
DenyRequeueing(c, o) ==
  /\ At(c, o, "deny_record")
  /\ StorageFaults
  /\ pending' = pending \union {o}
  /\ Done(c)
  /\ UNCHANGED <<audit, calls, processor, daemon, history>>

\* A denial that cannot be persisted is still a denial: nothing is re-queued.
DenyRecord(c, o) ==
  /\ At(c, o, "deny_record")
  /\ UpdateApproval(o, "denied") \/ (StorageFaults /\ UNCHANGED audit)
  /\ Become(c, "deny_finish")
  /\ UNCHANGED <<pending, calls, processor, daemon, history>>

DenyFinish(c, o) ==
  /\ At(c, o, "deny_finish")
  /\ UpdateExecution(o, "failed")
  /\ Done(c)
  /\ UNCHANGED <<pending, calls, processor, daemon, history>>

-----------------------------------------------------------------------------
(* decide_session(Revoke) and invalidate_pending_for_session, as far as    *)
(* operations are concerned.  AccessGrants models the decision itself.     *)

\* Operations of session s whose evaluation said go and whose call is next.
Authorized(s) ==
  {o \in Ops : \/ /\ rpPc \in {"record", "call"} /\ decision = "allow"
                  /\ env.session = s /\ env.op = o
               \/ \E c \in Clients : /\ pc[c] \in {"persist", "call"}
                                     /\ o \in held[c] /\ subject[o] = s}

\* No decision is taken on a revoked session, but one that loaded it earlier
\* saves over the revocation: the save of decide_session is unconditional.
MaySave(standing) == standing # "revoked" \/ Overwrites

RevokeSave(c, s) ==
  /\ phase = "up" /\ pc[c] = "idle" /\ MaySave(authority[s])
  /\ authority' = [authority EXCEPT ![s] = "revoked"]
  /\ cleared' = cleared \union Authorized(s)
  /\ pc' = [pc EXCEPT ![c] = "mirror"]
  /\ target' = [target EXCEPT ![c] = s]
  /\ UNCHANGED <<audit, pending, calls, processor, held, row, transport, phase,
                 denied>>

\* The session row is mirrored before the queue is cleaned.  A row that is
\* missing or has ended is left as it is; an error of the write returns early.
RevokeMirror(c) ==
  /\ Running /\ pc[c] = "mirror"
  /\ \/ /\ row' = [row EXCEPT ![target[c]] = "revoked"]
        /\ cleared' = cleared \union Authorized(target[c])
        /\ Become(c, "invalidate")
     \/ row[target[c]] # "live" /\ Become(c, "invalidate")
        /\ UNCHANGED <<row, cleared>>
     \/ StorageFaults /\ Done(c) /\ UNCHANGED <<row, cleared>>
  /\ UNCHANGED <<audit, pending, calls, processor, authority, transport, phase,
                 denied>>

OfSession(s) == {o \in pending : subject[o] = s}

RevokeInvalidate(c) ==
  /\ Running /\ pc[c] = "invalidate"
  /\ Remove(OfSession(target[c]))
  /\ pc' = [pc EXCEPT ![c] = "finalize"]
  /\ held' = [held EXCEPT ![c] = OfSession(target[c])]
  /\ UNCHANGED <<audit, calls, processor, target, daemon, history>>

RevokeFinalize(c, o) ==
  /\ At(c, o, "finalize")
  /\ UpdateExecution(o, "failed")
  /\ held' = [held EXCEPT ![c] = @ \ {o}]
  /\ UNCHANGED <<pending, calls, processor, pc, target, daemon, history>>

RevokeDone(c) ==
  /\ Running /\ pc[c] = "finalize" /\ held[c] = {}
  /\ Done(c)
  /\ UNCHANGED <<audit, pending, calls, processor, daemon, history>>

-----------------------------------------------------------------------------
(* The environment of the gate.                                            *)

\* Approve, pause, resume, expiry, and adding or removing the workspace.  The
\* grant and the session row are saved by statements of their own.
AuthorityChanges(s) ==
  /\ Running
  /\ \E standing \in {"live", "suspended"} :
       \/ /\ MaySave(authority[s])
          /\ authority' = [authority EXCEPT ![s] = standing]
          /\ UNCHANGED row
       \/ /\ MaySave(row[s])
          /\ row' = [row EXCEPT ![s] = standing]
          /\ UNCHANGED authority
  /\ UNCHANGED <<audit, pending, calls, processor, tasks, transport, phase,
                 history>>

\* run_remote_processor publishes the transport on entry; the lifecycle loop
\* clears it after the processor returned, which it does between envelopes.
TransportUp ==
  /\ phase = "up" /\ ~transport
  /\ transport' = TRUE
  /\ UNCHANGED <<audit, pending, calls, processor, tasks, authority, row,
                 phase, history>>

TransportDown ==
  /\ Running /\ transport /\ rpPc = "idle"
  /\ transport' = FALSE
  /\ UNCHANGED <<audit, pending, calls, processor, tasks, authority, row,
                 phase, history>>

Shutdown ==
  /\ Crashes /\ phase = "up"
  /\ phase' = "stopping"
  /\ UNCHANGED <<audit, pending, calls, processor, tasks, authority, row,
                 transport, history>>

\* abort_all drops a connection's future at its await; a decision runs on the
\* blocking pool and is not aborted.
Abort(c) ==
  /\ phase = "stopping" /\ pc[c] \in {"revalidate", "call", "finish"}
  /\ Done(c)
  /\ UNCHANGED <<audit, pending, calls, processor, daemon, history>>

\* The process ends, in order or not: only SQLite survives.
Halt ==
  /\ Crashes /\ Running
  /\ phase' = "down"
  /\ transport' = FALSE
  /\ pending' = {}
  /\ RpIdle
  /\ pc' = [c \in Clients |-> "idle"]
  /\ held' = [c \in Clients |-> {}]
  /\ target' = [c \in Clients |-> NoSession]
  /\ UNCHANGED <<audit, calls, authority, row, history>>

Start ==
  /\ phase = "down"
  /\ phase' = "up"
  /\ UNCHANGED <<audit, pending, calls, processor, tasks, authority, row,
                 transport, history>>

-----------------------------------------------------------------------------
RpStep == \/ RpEvaluate \/ RpDrop \/ RpRecord \/ RpRefuse \/ RpQueue \/ RpCall
          \/ RpFinish

ApproveStep(c, o) ==
  \/ ApproveRevalidate(c, o) \/ ApprovePersist(c, o) \/ ApproveRequeue(c, o)
  \/ ApproveStale(c, o) \/ ApproveCall(c, o) \/ ApproveNoTransport(c, o)
  \/ ApproveFinish(c, o)

DenyStep(c, o) == DenyRecord(c, o) \/ DenyFinish(c, o)

RevokeStep(c) == \/ RevokeMirror(c) \/ RevokeInvalidate(c) \/ RevokeDone(c)
                 \/ \E o \in Ops : RevokeFinalize(c, o)

ClientStep(c) == \/ \E o \in Ops : ApproveStep(c, o) \/ DenyStep(c, o)
                 \/ RevokeStep(c)

Next == \/ \E e \in Envelope : RpReceive(e)
        \/ RpStep
        \/ \E c \in Clients, o \in Ops : ApproveTake(c, o) \/ DenyTake(c, o)
        \/ \E c \in Clients, s \in Sessions : RevokeSave(c, s)
        \/ \E c \in Clients : ClientStep(c) \/ Abort(c)
        \/ \E s \in Sessions : AuthorityChanges(s)
        \/ TransportUp \/ TransportDown \/ Shutdown \/ Halt \/ Start

Spec == Init /\ [][Next]_vars

\* Tokio polls every ready task, so a handler that has started keeps running;
\* call_tool has a request timeout, so its await ends.
FairSpec == /\ Spec
            /\ WF_vars(RpStep)
            /\ \A c \in Clients : WF_vars(ClientStep(c))

-----------------------------------------------------------------------------
(* What the gate guarantees.                                               *)

Recorded(o) == result[o] # "absent"

\* No call without its evidence: whatever crashed, was replayed or failed to
\* be written, every tools/call is preceded by a durable row that allowed it,
\* and for a high-risk operation by a durable AllowOnce (the fail-closed gate
\* of handle_operation_request and approve_pending_operation).
AuditedExecution ==
  \A o \in Ops : calls[o] > 0 =>
    \/ result[o] = "allow"
    \/ result[o] = "require_approval" /\ approval[o] = "allow_once"

\* An operation id is executed at most once, over replays of the envelope,
\* concurrent approvals, re-queued approvals and restarts (the PRIMARY KEY of
\* audit_events and the atomic remove from the pending queue).
ExecutedAtMostOnce == \A o \in Ops : calls[o] <= 1

\* Once the local user denied an operation it is never called and never
\* returns to the queue, even when the denial could not be written
\* (deny_pending_operation).
DenialIsFinal == \A o \in denied : calls[o] = 0 /\ o \notin pending

\* The grant is revoked, and so is the row, or no read falls back to it.
CutOff(s) == authority[s] = "revoked" /\ (row[s] = "revoked" \/ ~StorageFaults)

CallsOnlyCleared ==
  \A o \in Ops, s \in Sessions :
    (calls'[o] > calls[o] /\ subject[o] = s /\ CutOff(s)) => o \in cleared

\* After a session is revoked, the only calls still made for it are those that
\* had passed their evaluation before the revocation was saved
\* (evaluate_operation_request, and the revalidation of an approval).  When
\* reads may fail, the revocation includes its mirror on the session row.
RevocationCutsOff == [][CallsOnlyCleared]_vars

RowsOnlyProgress ==
  \A o \in Ops : Recorded(o) =>
    /\ result'[o] = result[o]
    /\ subject'[o] = subject[o]
    /\ approval[o] # "none" => approval'[o] = approval[o]
    /\ exec[o] # "not_executed" => exec'[o] = exec[o]

\* A row is never removed and never changes its subject or policy result, an
\* approval decision is written at most once and an execution outcome is never
\* overwritten, though both UPDATEs of the audit store are unconditional.
RowIsFinal == [][RowsOnlyProgress]_vars

\* Where an operation is in its life, by its row, its calls and the user's
\* denial (which holds whether or not it could be written).
Stage(o) ==
  IF ~Recorded(o) THEN "new"
  ELSE IF exec[o] # "not_executed" THEN exec[o]
  ELSE IF calls[o] > 0 THEN "called"
  ELSE IF o \in denied \/ result[o] = "deny" THEN "refused"
  ELSE IF result[o] = "allow" \/ approval[o] = "allow_once" THEN "approved"
  ELSE "waiting"

Stages == [o \in Ops |-> Stage(o)]
Life == INSTANCE OperationLife WITH stage <- Stages

\* Over replays, concurrent decisions, re-queued approvals, faults and
\* restarts, each operation id lives one life: judged once, called at most once
\* and only after a durable approval, never called after a denial or a recorded
\* end, and told a success only if its call was made (record,
\* approve_pending_operation, deny_pending_operation, execute_and_respond).
LivesOnce == Life!Spec

\* With a working store and no crash, every allowed operation and every denied
\* one ends with a recorded outcome: no row stays ambiguous.
Settles ==
  \A o \in Ops : (result[o] = "allow" \/ o \in denied)
                   ~> exec[o] # "not_executed"

-----------------------------------------------------------------------------
(* The inductive invariant behind them: an operation with a row belongs to *)
(* at most one of the pending queue, the remote processor and the IPC      *)
(* tasks, and its row and its call count are those of its owner's step.    *)

QueueInv ==
  \A o \in pending : /\ result[o] = "require_approval"
                     /\ approval[o] = "none"
                     /\ exec[o] = "not_executed"
                     /\ calls[o] = 0

HeldInv ==
  \A c \in Clients : \A o \in held[c] :
    /\ pc[c] # "idle"
    /\ o \notin pending
    /\ result[o] = "require_approval"
    /\ exec[o] = "not_executed"
    /\ pc[c] \in {"revalidate", "persist", "persist_stale", "deny_record",
                  "finalize"} => approval[o] = "none"
    /\ pc[c] \in {"stale", "call", "finish"} => approval[o] = "allow_once"
    /\ calls[o] = IF pc[c] = "finish" THEN 1 ELSE 0

\* Only a revocation holds more than one operation, and no two tasks share one.
OwnerInv ==
  \A c \in Clients :
    /\ pc[c] # "finalize" => \A o, p \in held[c] : o = p
    /\ pc[c] \in RevokePcs => target[c] \in Sessions
    /\ pc[c] \in {"mirror", "invalidate"} => held[c] = {}
    /\ \A d \in Clients : \A o \in held[c] : o \in held[d] => c = d

RpOwns(o) == rpPc \in {"queue", "call", "finish"} /\ o = env.op

RpInv ==
  \A o \in Ops : RpOwns(o) =>
    /\ o \notin pending
    /\ \A c \in Clients : o \notin held[c]
    /\ subject[o] = env.session
    /\ approval[o] = "none"
    /\ exec[o] = "not_executed"
    /\ result[o] = decision
    /\ decision = IF rpPc = "queue" THEN "require_approval" ELSE "allow"
    /\ calls[o] = IF rpPc = "finish" THEN 1 ELSE 0

\* A denied operation has a row, so a replay of it is refused, and only a
\* denial still holds it.
DenyInv ==
  \A o \in denied :
    /\ Recorded(o)
    /\ calls[o] = 0
    /\ o \notin pending
    /\ ~RpOwns(o)
    /\ \A c \in Clients : o \in held[c] => pc[c] \in DenyPcs

\* Whoever is about to call for a revoked session was cleared before it.
ClearInv ==
  \A s \in Sessions : CutOff(s) => Authorized(s) \subseteq cleared

\* An operation is in one place, and its row tells which: the ownership
\* discipline of the pending queue, the remote processor and the IPC tasks
\* that the guarantees above rest on.
GateInvariant == /\ AuditedExecution /\ ExecutedAtMostOnce /\ QueueInv
                 /\ HeldInv /\ OwnerInv /\ RpInv /\ DenyInv /\ ClearInv

\* With the types of the rows, the queue and the tasks: the inductive
\* invariant of the gate.
GateInductive == TypeOK /\ GateInvariant

-----------------------------------------------------------------------------
(* Claims made in the repository that the code does not keep.              *)

\* "Allow once: approves exactly one pending high-risk operation and executes
\* it" (approve_pending_operation): an approval that returned Ok was executed.
ApprovedIsExecuted ==
  [][\A c \in Clients, o \in Ops :
        ApproveFinish(c, o) \/ ApproveNoTransport(c, o) => calls[o] = 1]_vars

\* "durable audit record could not be persisted; operation was not executed"
\* (audit_refusal_envelope): an id so answered has not been executed.
RefusalIsTruthful == [][RpRefuse => calls[env.op] = 0]_vars

\* "Operations whose audit row records an authorization but no execution
\* outcome" (list_incomplete): after a stop, all of them are reported.
RecoveryReportsAll ==
  phase = "down" =>
    {o \in Ops : /\ exec[o] = "not_executed"
                 /\ result[o] = "allow" \/ approval[o] = "allow_once"}
      \subseteq ListIncomplete

\* "Removes all pending high-risk operations belonging to a revoked session"
\* (invalidate_pending_for_session): when no revocation is under way, nothing
\* of a revoked session is pending.
RevokedQueueIsEmpty ==
  \A s \in Sessions :
    (authority[s] = "revoked" /\ \A c \in Clients : target[c] # s)
      => OfSession(s) = {}

\* "Revoked or expired sessions immediately stop processing requests."
\* (README): no request of a revoked session passes its evaluation.
RevokedIsNotServed ==
  [][rpPc = "evaluate" /\ rpPc' = "record" /\ decision' # "deny"
       => authority[env.session] # "revoked"]_vars
=============================================================================
