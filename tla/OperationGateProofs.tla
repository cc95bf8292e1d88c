------------------------ MODULE OperationGateProofs ------------------------
(***************************************************************************)
(* The safety of the operation gate for any sets of operations, sessions   *)
(* and connections, with or without storage faults and crashes.            *)
(*                                                                         *)
(* GateInvariant is inductive relative to TypeOK.  Its core is ownership:  *)
(* the PRIMARY KEY lets an id enter once, the pending mutex hands it to    *)
(* one task at a time, and each step of the owner fixes what the row says. *)
(***************************************************************************)
EXTENDS OperationGate, TLAPS

\* Every step of the gate keeps the shape of its state.
LEMMA TypeStep == TypeOK /\ [Next]_vars => TypeOK'
<1> SUFFICES ASSUME TypeOK, [Next]_vars PROVE TypeOK'
  OBVIOUS
<1> USE GateAssumption DEF TypeOK, audit, processor, tasks, daemon, history,
        Envelope, ApprovePcs, DenyPcs, RevokePcs, UpdateExecution,
        UpdateApproval, Become, Done, At, Remove, Take, Call, RpIdle
<1>1. ASSUME NEW e \in Envelope, RpReceive(e) PROVE TypeOK'
  BY <1>1 DEF RpReceive
<1>2. CASE RpEvaluate \/ RpDrop
  BY <1>2 DEF RpEvaluate, RpDrop, Policy
<1>3. CASE RpRecord
  BY <1>3 DEF RpRecord, Record
<1>4. CASE RpRefuse
  BY <1>4 DEF RpRefuse
<1>5. CASE RpQueue
  BY <1>5 DEF RpQueue
<1>6. CASE RpCall
  BY <1>6 DEF RpCall
<1>7. CASE RpFinish
  BY <1>7 DEF RpFinish
<1>8. ASSUME NEW c \in Clients, NEW o \in Ops, ApproveTake(c, o) \/ DenyTake(c, o)
      PROVE TypeOK'
  BY <1>8, SMTT(60) DEF ApproveTake, DenyTake
<1>9. ASSUME NEW c \in Clients, NEW o \in Ops, ApproveStep(c, o) PROVE TypeOK'
  BY <1>9 DEF ApproveStep, ApproveRevalidate, ApprovePersist, ApproveRequeue,
              ApproveStale, ApproveCall, ApproveNoTransport, ApproveFinish
<1>10. ASSUME NEW c \in Clients, NEW o \in Ops, DenyStep(c, o) PROVE TypeOK'
  BY <1>10, SMTT(60) DEF DenyStep, DenyRecord, DenyFinish
<1>11. ASSUME NEW c \in Clients, NEW s \in Sessions, RevokeSave(c, s)
       PROVE TypeOK'
  BY <1>11 DEF RevokeSave, Authorized
<1>12. ASSUME NEW c \in Clients, RevokeStep(c) PROVE TypeOK'
  <2>1. CASE RevokeMirror(c)
    BY <2>1 DEF RevokeMirror, Authorized
  <2>2. CASE ~RevokeMirror(c)
    BY <1>12, <2>2 DEF RevokeStep, RevokeInvalidate, RevokeDone, RevokeFinalize,
                       OfSession
  <2> QED
    BY <2>1, <2>2
<1>13. ASSUME NEW c \in Clients, Abort(c) PROVE TypeOK'
  BY <1>13 DEF Abort
<1>14. ASSUME NEW s \in Sessions, AuthorityChanges(s) PROVE TypeOK'
  BY <1>14 DEF AuthorityChanges
<1>15. CASE TransportUp \/ TransportDown \/ Shutdown \/ Start
  <2>1. CASE TransportUp \/ TransportDown
    <3>1. transport' \in BOOLEAN
      BY <2>1, ZenonT(60) DEF TransportUp, TransportDown
    <3>2. UNCHANGED <<audit, pending, calls, processor, tasks, authority, row,
                      phase, history>>
      BY <2>1 DEF TransportUp, TransportDown
    <3> QED
      BY <3>1, <3>2
  <2>2. CASE Shutdown \/ Start
    BY <2>2 DEF Shutdown, Start
  <2> QED
    BY <1>15, <2>1, <2>2
<1>16. CASE Halt
  <2>1. pc' \in [Clients -> {"idle"}] /\ held' \in [Clients -> SUBSET Ops]
        /\ target' \in [Clients -> {NoSession}]
    BY <1>16 DEF Halt
  <2> QED
    BY <1>16, <2>1, ZenonT(60) DEF Halt
<1>17. CASE UNCHANGED vars
  BY <1>17 DEF vars
<1> HIDE DEF TypeOK
<1> QED
  BY SMTT(60), <1>1, <1>2, <1>3, <1>4, <1>5, <1>6, <1>7, <1>8, <1>9, <1>10, <1>11, <1>12,
     <1>13, <1>14, <1>15, <1>16, <1>17 DEF Next, RpStep, ClientStep

\* The steps of the remote processor preserve the invariant: an id it records
\* had no row, so nobody owned it.
LEMMA RemoteStepInv ==
  ASSUME TypeOK, TypeOK', GateInvariant, (\E e \in Envelope : RpReceive(e)) \/ RpStep
  PROVE GateInvariant'
<1> USE GateAssumption DEF TypeOK, Envelope, audit, processor, tasks, daemon, history,
        ApprovePcs, DenyPcs, RevokePcs, GateInvariant, AuditedExecution,
        ExecutedAtMostOnce, QueueInv, HeldInv, OwnerInv, RpInv, DenyInv, ClearInv, CutOff,
        RpOwns, Recorded, Authorized
<1>1. CASE \E e \in Envelope : RpReceive(e)
  BY <1>1, SMTT(60) DEF RpReceive
<1>2. CASE RpEvaluate \/ RpDrop
  BY <1>2, SMTT(60) DEF RpEvaluate, RpDrop, RpIdle, Policy
<1>3. CASE RpRecord
  BY <1>3, SMTT(60) DEF RpRecord, Record, RecordAccepts, RpIdle
<1>4. CASE RpRefuse
  BY <1>4, SMTT(60) DEF RpRefuse, RpIdle
<1>5. CASE RpQueue
  BY <1>5, SMTT(60) DEF RpQueue, RpIdle
<1>6. CASE RpCall
  BY <1>6, SMTT(60) DEF RpCall, Call
<1>7. CASE RpFinish
  BY <1>7, SMTT(60) DEF RpFinish, UpdateExecution, RpIdle
<1> HIDE DEF TypeOK, GateInvariant
<1> QED
  BY <1>1, <1>2, <1>3, <1>4, <1>5, <1>6, <1>7, SMTT(60) DEF RpStep

\* The steps of an approval preserve the invariant: the task that removed the
\* id from the queue is its only owner until it is done or re-queues it.
LEMMA ApproveStepInv ==
  ASSUME TypeOK, TypeOK', GateInvariant, NEW c \in Clients, NEW o \in Ops, ApproveTake(c, o) \/ ApproveStep(c, o)
  PROVE GateInvariant'
<1> USE GateAssumption DEF TypeOK, Envelope, audit, processor, tasks, daemon, history,
        ApprovePcs, DenyPcs, RevokePcs, GateInvariant, AuditedExecution,
        ExecutedAtMostOnce, QueueInv, HeldInv, OwnerInv, RpInv, DenyInv, ClearInv, CutOff,
        RpOwns, Recorded, Authorized
<1>1. CASE ApproveTake(c, o)
  BY <1>1, SMTT(60) DEF ApproveTake, Take, Remove
<1>2. CASE ApproveRevalidate(c, o)
  BY <1>2, SMTT(60) DEF ApproveRevalidate, At, Become, StillAuthorized, Policy
<1>3. CASE ApprovePersist(c, o)
  BY <1>3, SMTT(60) DEF ApprovePersist, At, Become, UpdateApproval
<1>4. CASE ApproveRequeue(c, o)
  BY <1>4, SMTT(60) DEF ApproveRequeue, At, Done
<1>5. CASE ApproveStale(c, o)
  BY <1>5, SMTT(60) DEF ApproveStale, At, Done, UpdateExecution
<1>6. CASE ApproveCall(c, o)
  BY <1>6, SMTT(60) DEF ApproveCall, At, Become, Call
<1>7. CASE ApproveNoTransport(c, o)
  BY <1>7, SMTT(60) DEF ApproveNoTransport, At, Done
<1>8. CASE ApproveFinish(c, o)
  BY <1>8, SMTT(60) DEF ApproveFinish, At, Done, UpdateExecution
<1> HIDE DEF TypeOK, GateInvariant
<1> QED
  BY <1>1, <1>2, <1>3, <1>4, <1>5, <1>6, <1>7, <1>8, ZenonT(60) DEF ApproveStep

\* The steps of a denial preserve the invariant: a denied id never goes back
\* to the queue, whether or not the denial was persisted.
LEMMA DenyStepInv ==
  ASSUME TypeOK, TypeOK', GateInvariant, NEW c \in Clients, NEW o \in Ops, DenyTake(c, o) \/ DenyStep(c, o)
  PROVE GateInvariant'
<1> USE GateAssumption DEF TypeOK, Envelope, audit, processor, tasks, daemon, history,
        ApprovePcs, DenyPcs, RevokePcs, GateInvariant, AuditedExecution,
        ExecutedAtMostOnce, QueueInv, HeldInv, OwnerInv, RpInv, DenyInv, ClearInv, CutOff,
        RpOwns, Recorded, Authorized
<1>1. CASE DenyTake(c, o)
  BY <1>1, SMTT(60) DEF DenyTake, Take, Remove
<1>2. CASE DenyRecord(c, o)
  BY <1>2, SMTT(60) DEF DenyRecord, At, Become, UpdateApproval
<1>3. CASE DenyFinish(c, o)
  BY <1>3, SMTT(60) DEF DenyFinish, At, Done, UpdateExecution
<1> HIDE DEF TypeOK, GateInvariant
<1> QED
  BY <1>1, <1>2, <1>3, SMTT(60) DEF DenyStep

\* The steps of a revocation preserve the invariant: what it removes from the
\* queue it owns, and whoever was past its evaluation becomes cleared.
LEMMA RevokeStepInv ==
  ASSUME TypeOK, TypeOK', GateInvariant, NEW c \in Clients, (\E s \in Sessions : RevokeSave(c, s)) \/ RevokeStep(c)
  PROVE GateInvariant'
<1> USE GateAssumption DEF TypeOK, Envelope, audit, processor, tasks, daemon, history,
        ApprovePcs, DenyPcs, RevokePcs, GateInvariant, AuditedExecution,
        ExecutedAtMostOnce, QueueInv, HeldInv, OwnerInv, RpInv, DenyInv, ClearInv, CutOff,
        RpOwns, Recorded, Authorized
<1>1. CASE \E s \in Sessions : RevokeSave(c, s)
  BY <1>1, SMTT(60) DEF RevokeSave, MaySave
<1>2. CASE RevokeMirror(c)
  <2>1. CASE Become(c, "invalidate")
    BY <1>2, <2>1, SMTT(60) DEF RevokeMirror, Become
  <2>2. CASE StorageFaults /\ Done(c)
    BY <1>2, <2>2, SMTT(60) DEF RevokeMirror, Done
  <2> HIDE DEF TypeOK, GateInvariant
  <2> QED
    BY <1>2, <2>1, <2>2, SMTT(60) DEF RevokeMirror
<1>3. CASE RevokeInvalidate(c)
  BY <1>3, SMTT(60) DEF RevokeInvalidate, Remove, OfSession
<1>4. CASE RevokeDone(c)
  BY <1>4, SMTT(60) DEF RevokeDone, Done
<1>5. CASE \E o \in Ops : RevokeFinalize(c, o)
  BY <1>5, SMTT(60) DEF RevokeFinalize, At, UpdateExecution
<1> HIDE DEF TypeOK, GateInvariant
<1> QED
  BY <1>1, <1>2, <1>3, <1>4, <1>5, SMTT(60) DEF RevokeStep

\* What happens around the gate preserves the invariant: a restart leaves no
\* owner at all, an aborted task no longer owns what it took.
LEMMA EnvironmentStepInv ==
  ASSUME TypeOK, TypeOK', GateInvariant,
         \/ \E s \in Sessions : AuthorityChanges(s)
         \/ TransportUp \/ TransportDown \/ Shutdown \/ Start
         \/ \E c \in Clients : Abort(c)
         \/ Halt
         \/ UNCHANGED vars
  PROVE GateInvariant'
<1> USE GateAssumption DEF TypeOK, Envelope, audit, processor, tasks, daemon, history,
        ApprovePcs, DenyPcs, RevokePcs, GateInvariant, AuditedExecution,
        ExecutedAtMostOnce, QueueInv, HeldInv, OwnerInv, RpInv, DenyInv, ClearInv, CutOff,
        RpOwns, Recorded, Authorized
<1>1. CASE \E s \in Sessions : AuthorityChanges(s)
  BY <1>1, SMTT(60) DEF AuthorityChanges, MaySave
<1>2. CASE TransportUp \/ TransportDown \/ Shutdown \/ Start
  BY <1>2, SMTT(60) DEF TransportUp, TransportDown, Shutdown, Start
<1>3. CASE \E c \in Clients : Abort(c)
  BY <1>3, SMTT(60) DEF Abort, Done
<1>4. CASE Halt
  BY <1>4, SMTT(60) DEF Halt, RpIdle
<1>5. CASE UNCHANGED vars
  BY <1>5, SMTT(60) DEF vars
<1> QED
  BY <1>1, <1>2, <1>3, <1>4, <1>5, ZenonT(60) DEF vars

\* Every step of the daemon preserves the ownership discipline.
LEMMA InvStep ==
  TypeOK /\ TypeOK' /\ GateInvariant /\ [Next]_vars => GateInvariant'
BY RemoteStepInv, ApproveStepInv, DenyStepInv, RevokeStepInv, EnvironmentStepInv
   DEF Next, ClientStep

\* Nothing is owned, called or denied at the start.
LEMMA InitInv == Init => TypeOK /\ GateInvariant
<1> SUFFICES ASSUME Init PROVE TypeOK /\ GateInvariant
  OBVIOUS
<1>1. TypeOK
  BY GateAssumption, ZenonT(60) DEF Init, TypeOK
<1>2. GateInvariant
  BY DEF Init, GateInvariant, AuditedExecution, ExecutedAtMostOnce, QueueInv,
         HeldInv, OwnerInv, RpInv, DenyInv, ClearInv, CutOff, RpOwns, RevokePcs
<1> QED
  BY <1>1, <1>2

\* Type correctness: rows, queue, processor and tasks keep their shape, for
\* every set of operations, sessions and connections.
THEOREM TypeCorrect == Spec => []TypeOK
<1>1. Init => TypeOK
  BY InitInv
<1> QED
  BY <1>1, TypeStep, PTL DEF Spec

\* The ownership discipline of operations holds in every reachable state.
THEOREM OwnershipHolds == Spec => []GateInvariant
<1>1. Init => GateInvariant
  BY InitInv
<1> QED
  BY <1>1, InvStep, TypeCorrect, PTL DEF Spec

\* Types and ownership together: the inductive invariant of the gate.
THEOREM GateHolds == Spec => []GateInductive
BY TypeCorrect, OwnershipHolds, PTL DEF GateInductive

\* Fail-closed: no tools/call ever happens without its durable authorization.
THEOREM ExecutionIsAudited == Spec => []AuditedExecution
<1>1. GateInvariant => AuditedExecution
  BY DEF GateInvariant
<1> QED
  BY <1>1, OwnershipHolds, PTL

\* At most one tools/call per operation id, over replays, concurrent local
\* decisions, storage faults and restarts.
THEOREM AtMostOnce == Spec => []ExecutedAtMostOnce
<1>1. GateInvariant => ExecutedAtMostOnce
  BY SMTT(60) DEF GateInvariant
<1> QED
  BY <1>1, OwnershipHolds, PTL

\* A denied operation is never called and never queued again.
THEOREM DenialHolds == Spec => []DenialIsFinal
<1>1. GateInvariant => DenialIsFinal
  BY DEF GateInvariant, DenyInv, DenialIsFinal
<1> QED
  BY <1>1, OwnershipHolds, PTL

\* Only the two calling steps touch the call counts, and both call an id that
\* was evaluated as authorized.
LEMMA CallStep ==
  ASSUME TypeOK, GateInvariant, [Next]_vars PROVE CallsOnlyCleared
<1> SUFFICES ASSUME NEW o \in Ops, NEW s \in Sessions,
                    calls'[o] > calls[o], subject[o] = s,
                    CutOff(s)
             PROVE  o \in cleared
  BY SMTT(60) DEF CallsOnlyCleared
<1>1. CASE RpCall
  <2>1. o = env.op /\ rpPc = "call"
    BY <1>1, SMTT(60) DEF RpCall, Call, TypeOK, Envelope
  <2>2. decision = "allow" /\ env.session = s
    BY <2>1, SMTT(60) DEF GateInvariant, RpInv, RpOwns
  <2> QED
    BY <2>1, <2>2, SMTT(60) DEF GateInvariant, ClearInv, Authorized
<1>2. ASSUME NEW c \in Clients, NEW p \in Ops, ApproveCall(c, p)
      PROVE  o \in cleared
  <2>1. o = p /\ pc[c] = "call" /\ o \in held[c]
    BY <1>2, SMTT(60) DEF ApproveCall, Call, At, TypeOK
  <2> QED
    BY <2>1, SMTT(60) DEF GateInvariant, ClearInv, Authorized
<1>3. ASSUME UNCHANGED calls PROVE FALSE
  BY <1>3, SMTT(60) DEF TypeOK
<1>4. CASE UNCHANGED vars
  BY <1>3, <1>4 DEF vars
<1> QED
  BY <1>1, <1>2, <1>3, <1>4, ZenonT(60)
     DEF Next, RpReceive, RpStep, RpEvaluate, RpDrop, RpRecord, RpRefuse, RpQueue,
         RpFinish, ApproveTake, DenyTake, RevokeSave, ClientStep, ApproveStep,
         ApproveRevalidate, ApprovePersist, ApproveRequeue, ApproveStale,
         ApproveNoTransport, ApproveFinish, DenyStep, DenyRecord, DenyFinish,
         RevokeStep, RevokeMirror, RevokeInvalidate, RevokeDone,
         RevokeFinalize, Abort, AuthorityChanges, TransportUp, TransportDown,
         Shutdown, Halt, Start

\* A revocation cuts a session off: only operations that had already passed
\* their evaluation when it was saved are still called.
THEOREM RevocationHolds == Spec => RevocationCutsOff
<1>1. TypeOK /\ GateInvariant /\ [Next]_vars => [CallsOnlyCleared]_vars
  BY CallStep, SMTT(60)
<1> QED
  BY <1>1, TypeCorrect, OwnershipHolds, PTL DEF Spec, RevocationCutsOff

\* Each write of the audit store meets the row in the state it expects: the
\* INSERT no row, the UPDATEs a row whose column is still unset.
LEMMA RowStep ==
  ASSUME TypeOK, GateInvariant, [Next]_vars PROVE RowsOnlyProgress
<1> USE DEF TypeOK, audit, Envelope, RowsOnlyProgress, Recorded
<1>1. CASE RpRecord
  BY <1>1 DEF RpRecord, Record, RecordAccepts
<1>2. CASE RpFinish
  BY <1>2 DEF RpFinish, UpdateExecution, GateInvariant, RpInv, RpOwns
<1>3. ASSUME NEW c \in Clients, NEW o \in Ops,
             \/ ApprovePersist(c, o) \/ ApproveStale(c, o)
             \/ ApproveFinish(c, o) \/ DenyStep(c, o) \/ RevokeFinalize(c, o)
      PROVE  RowsOnlyProgress
  BY <1>3, SMTT(60) DEF ApprovePersist, ApproveStale, ApproveFinish, DenyStep,
              DenyRecord, DenyFinish, RevokeFinalize, At, UpdateExecution,
              UpdateApproval, GateInvariant, HeldInv
<1>4. ASSUME UNCHANGED audit PROVE RowsOnlyProgress
  BY <1>4, SMTT(60)
<1>5. CASE UNCHANGED vars
  BY <1>4, <1>5 DEF vars
<1> QED
  BY <1>1, <1>2, <1>3, <1>4, <1>5, ZenonT(60)
     DEF Next, RpReceive, RpStep, RpEvaluate, RpDrop, RpRefuse, RpQueue, RpCall,
         ApproveTake, DenyTake, RevokeSave, ClientStep, ApproveStep,
         ApproveRevalidate, ApproveRequeue, ApproveCall, ApproveNoTransport,
         RevokeStep, RevokeMirror, RevokeInvalidate, RevokeDone, Abort,
         AuthorityChanges, TransportUp, TransportDown, Shutdown, Halt, Start

\* Audit rows are append-only in effect: no decision and no outcome is ever
\* overwritten, though the store's UPDATEs are unconditional.
THEOREM RowsHold == Spec => RowIsFinal
<1>1. TypeOK /\ GateInvariant /\ [Next]_vars => [RowsOnlyProgress]_vars
  BY RowStep
<1> QED
  BY <1>1, TypeCorrect, OwnershipHolds, PTL DEF Spec, RowIsFinal

-----------------------------------------------------------------------------
\* An operation whose row, calls and denial do not change stays where it is.
LEMMA StageStays ==
  ASSUME NEW o \in Ops, result'[o] = result[o], approval'[o] = approval[o],
         exec'[o] = exec[o], calls'[o] = calls[o], o \in denied' <=> o \in denied
  PROVE  Stage(o)' = Stage(o)
BY Zenon DEF Stage, Recorded

\* A step that moves no operation is invisible in their lives.
LEMMA NobodyMoves ==
  ASSUME UNCHANGED calls, \A o \in Ops : Stage(o)' = Stage(o)
  PROVE  UNCHANGED <<Stages, calls>>
BY DEF Stages

\* A step that leaves rows, calls and denials alone moves no operation.
LEMMA QuietLife ==
  ASSUME UNCHANGED audit, UNCHANGED calls, UNCHANGED denied
  PROVE  UNCHANGED <<Stages, calls>>
<1>1. \A o \in Ops : Stage(o)' = Stage(o)
  BY StageStays, Zenon DEF audit
<1> QED
  BY <1>1, NobodyMoves, Zenon

\* A step that moves one operation along without a call is one of its life.
LEMMA OneMoves ==
  ASSUME NEW o \in Ops, UNCHANGED calls,
         \A p \in Ops \ {o} : Stage(p)' = Stage(p),
         Stage(o)' \in Life!After[Stage(o)] \/ Stage(o)' = Stage(o)
  PROVE  [Life!Next]_<<Stages, calls>>
<1>1. CASE Stage(o)' = Stage(o)
  BY <1>1, NobodyMoves, Zenon
<1>2. CASE Stage(o)' \in Life!After[Stage(o)]
  <2>1. Stages' = [Stages EXCEPT ![o] = Stage(o)']
    BY Zenon DEF Stages
  <2>2. Stages[o] = Stage(o)
    BY DEF Stages
  <2>3. Life!Pass(o)
    BY <1>2, <2>1, <2>2, Zenon DEF Life!Pass
  <2> QED
    BY <2>3, Zenon DEF Life!Next
<1> QED
  BY <1>1, <1>2

\* A call of an approved operation is one step of its life.
LEMMA OneIsCalled ==
  ASSUME NEW o \in Ops, Call(o), Stage(o) = "approved", Stage(o)' = "called",
         \A p \in Ops \ {o} : Stage(p)' = Stage(p)
  PROVE  Life!Next
<1>1. Stages' = [Stages EXCEPT ![o] = "called"]
  BY Zenon DEF Stages
<1>2. Stages[o] = "approved"
  BY DEF Stages
<1>3. Life!Call(o)
  BY <1>1, <1>2, Zenon DEF Life!Call, Call
<1> QED
  BY <1>3, Zenon DEF Life!Next

\* So is the call of an operation that has a durable approval, no call, no
\* outcome and no denial.
LEMMA CallLife ==
  ASSUME TypeOK, NEW o \in Ops, Call(o), UNCHANGED audit, UNCHANGED denied,
         \/ result[o] = "allow"
         \/ result[o] = "require_approval" /\ approval[o] = "allow_once",
         exec[o] = "not_executed", calls[o] = 0, o \notin denied
  PROVE  Life!Next
<1>1. calls'[o] = 1 /\ \A p \in Ops \ {o} : calls'[p] = calls[p]
  BY DEF Call, TypeOK
<1>2. \A p \in Ops \ {o} : Stage(p)' = Stage(p)
  BY <1>1, StageStays, ZenonT(60) DEF audit
<1>3. Stage(o) = "approved"
  BY SMTT(60) DEF Stage, Recorded
<1>4. Stage(o)' = "called"
  BY <1>1, SMTT(60) DEF Stage, Recorded, audit
<1> QED
  BY <1>2, <1>3, <1>4, OneIsCalled, Zenon

\* An outcome written for an operation that has none ends its life, as a
\* success only after its call.
LEMMA EndsLife ==
  ASSUME TypeOK, NEW o \in Ops, NEW status \in {"success", "failed"},
         Recorded(o), exec[o] = "not_executed", calls[o] \in {0, 1},
         status = "success" => calls[o] = 1,
         UpdateExecution(o, status), UNCHANGED calls, UNCHANGED denied
  PROVE  [Life!Next]_<<Stages, calls>>
<1>1. \A p \in Ops \ {o} : Stage(p)' = Stage(p)
  <2>1. \A p \in Ops \ {o} : exec'[p] = exec[p]
    BY DEF UpdateExecution, TypeOK
  <2> QED
    BY <2>1, StageStays, Zenon DEF UpdateExecution
<1>2. CASE UNCHANGED exec
  BY <1>2, QuietLife, Zenon DEF UpdateExecution, audit
<1>3. CASE exec' = [exec EXCEPT ![o] = status]
  <2>1. Stage(o)' = status
    BY <1>3 DEF Stage, Recorded, UpdateExecution, TypeOK
  <2>2. /\ calls[o] = 1 => Stage(o) = "called"
        /\ calls[o] = 0 => Stage(o) \in {"refused", "approved", "waiting"}
    BY SMTT(60) DEF Stage
  <2>3. Stage(o)' \in Life!After[Stage(o)]
    BY <2>1, <2>2 DEF Life!After
  <2> QED
    BY <1>1, <2>3, OneMoves, Zenon
<1> QED
  BY <1>2, <1>3, Zenon DEF UpdateExecution

\* The remote processor: a new id is judged, an allowed one called, a called
\* one told its outcome.
LEMMA RemoteLife ==
  ASSUME TypeOK, GateInvariant, RpStep
  PROVE  [Life!Next]_<<Stages, calls>>
<1>1. rpPc # "idle" => env.op \in Ops
  BY DEF TypeOK, Envelope
<1>2. CASE RpRecord
  <2>0. PICK o \in Ops : o = env.op
    BY <1>1, <1>2 DEF RpRecord
  <2>1. /\ ~Recorded(o) /\ UNCHANGED calls /\ UNCHANGED denied
        /\ Record(o, env.session, decision)
    BY <2>0, <1>2 DEF RpRecord, RecordAccepts, Recorded, history
  <2>2. \A p \in Ops \ {o} : Stage(p)' = Stage(p)
    <3>1. \A p \in Ops \ {o} : /\ result'[p] = result[p] /\ approval'[p] = approval[p]
                               /\ exec'[p] = exec[p]
      BY <2>1 DEF Record, TypeOK
    <3> QED
      BY <2>1, <3>1, StageStays, Zenon
  <2>3. /\ result'[o] = decision /\ approval'[o] = "none"
        /\ exec'[o] = "not_executed" /\ calls'[o] = 0 /\ o \notin denied'
        /\ decision \in {"allow", "deny", "require_approval"}
    <3>1. calls[o] = 0
      BY <2>1 DEF GateInvariant, AuditedExecution, Recorded, TypeOK
    <3>2. o \notin denied
      BY <2>1, Zenon DEF GateInvariant, DenyInv
    <3> QED
      BY <2>1, <3>1, <3>2 DEF Record, TypeOK
  <2>4. Stage(o) = "new" /\ Stage(o)' \in {"waiting", "approved", "refused"}
    BY <2>1, <2>3, SMTT(60) DEF Stage, Recorded
  <2>5. Stage(o)' \in Life!After[Stage(o)]
    BY <2>4 DEF Life!After
  <2> QED
    BY <2>1, <2>2, <2>5, OneMoves, Zenon
<1>3. CASE RpCall
  <2>0. PICK o \in Ops : o = env.op
    BY <1>1, <1>3 DEF RpCall
  <2>1. /\ RpOwns(o) /\ Call(o) /\ UNCHANGED audit /\ UNCHANGED denied
        /\ rpPc = "call"
    BY <2>0, <1>3, SMTT(60) DEF RpCall, RpOwns, history
  <2>2. /\ result[o] = "allow" /\ exec[o] = "not_executed" /\ calls[o] = 0
        /\ o \notin denied
    BY <2>1 DEF GateInvariant, RpInv, DenyInv
  <2> QED
    BY <2>1, <2>2, CallLife, Zenon
<1>4. CASE RpFinish
  <2>0. PICK o \in Ops : o = env.op
    BY <1>1, <1>4 DEF RpFinish
  <2>1. /\ RpOwns(o) /\ UNCHANGED calls /\ UNCHANGED denied
        /\ rpPc = "finish"
    BY <2>0, <1>4 DEF RpFinish, RpOwns, history
  <2>2. PICK status \in {"success", "failed"} : UpdateExecution(o, status)
    BY <2>0, <1>4, Zenon DEF RpFinish
  <2>3. Recorded(o) /\ exec[o] = "not_executed" /\ calls[o] = 1
    BY <2>1 DEF GateInvariant, RpInv, Recorded
  <2> QED
    BY <2>1, <2>2, <2>3, EndsLife
<1>5. CASE RpEvaluate \/ RpDrop \/ RpRefuse \/ RpQueue
  BY <1>5, QuietLife, Zenon DEF RpEvaluate, RpDrop, RpRefuse, RpQueue, history
<1> QED
  BY <1>2, <1>3, <1>4, <1>5, Zenon DEF RpStep

\* The local user's decisions: an approval makes a waiting operation callable
\* once it is durable, a denial refuses it at once.
LEMMA ApproveLife ==
  ASSUME TypeOK, GateInvariant, NEW c \in Clients, NEW o \in Ops, ApproveStep(c, o)
  PROVE  [Life!Next]_<<Stages, calls>>
<1>0. /\ result[o] = "require_approval" /\ exec[o] = "not_executed" /\ Recorded(o)
      /\ pc[c] \in {"persist", "persist_stale"} => approval[o] = "none"
      /\ pc[c] \in {"stale", "call", "finish"} => approval[o] = "allow_once"
      /\ calls[o] = IF pc[c] = "finish" THEN 1 ELSE 0
      /\ pc[c] \in ApprovePcs => o \notin denied
  <2>1. o \in held[c]
    BY Zenon DEF ApproveStep, ApproveRevalidate, ApprovePersist, ApproveRequeue,
       ApproveStale, ApproveCall, ApproveNoTransport, ApproveFinish, At
  <2> QED
    BY <2>1 DEF GateInvariant, HeldInv, DenyInv, Recorded, ApprovePcs, DenyPcs
<1>1. CASE ApprovePersist(c, o)
  <2>1. /\ pc[c] \in {"persist", "persist_stale"} /\ UpdateApproval(o, "allow_once")
        /\ UNCHANGED calls /\ UNCHANGED denied
    BY <1>1, SMTT(60) DEF ApprovePersist, At, history
  <2>2. approval[o] = "none" /\ calls[o] = 0 /\ o \notin denied
    BY <1>0, <2>1 DEF ApprovePcs
  <2>3. approval'[o] = "allow_once" /\ \A p \in Ops \ {o} : approval'[p] = approval[p]
    BY <2>1 DEF UpdateApproval, TypeOK
  <2>4. \A p \in Ops \ {o} : Stage(p)' = Stage(p)
    BY <2>1, <2>3, StageStays, ZenonT(60) DEF UpdateApproval
  <2>5. Stage(o) = "waiting" /\ Stage(o)' = "approved"
    BY <1>0, <2>1, <2>2, <2>3, SMTT(60) DEF Stage, Recorded, UpdateApproval
  <2>6. Stage(o)' \in Life!After[Stage(o)]
    BY <2>5, SMTT(60) DEF Life!After
  <2> QED
    BY <2>1, <2>4, <2>6, OneMoves, ZenonT(60)
<1>2. CASE ApproveStale(c, o)
  <2>1. /\ pc[c] = "stale" /\ UpdateExecution(o, "failed")
        /\ UNCHANGED calls /\ UNCHANGED denied
    BY <1>2 DEF ApproveStale, At, history
  <2> QED
    BY <1>0, <2>1, EndsLife
<1>3. CASE ApproveCall(c, o)
  <2>1. pc[c] = "call" /\ Call(o) /\ UNCHANGED audit /\ UNCHANGED denied
    BY <1>3, Zenon DEF ApproveCall, At, history
  <2>2. approval[o] = "allow_once" /\ calls[o] = 0 /\ o \notin denied
    BY <1>0, <2>1, Zenon DEF ApprovePcs
  <2> QED
    BY <1>0, <2>1, <2>2, CallLife, Zenon
<1>4. CASE ApproveFinish(c, o)
  <2>1. pc[c] = "finish" /\ UNCHANGED calls /\ UNCHANGED denied
    BY <1>4, Zenon DEF ApproveFinish, At, history
  <2>2. PICK status \in {"success", "failed"} : UpdateExecution(o, status)
    BY <1>4, Zenon DEF ApproveFinish
  <2> QED
    BY <1>0, <2>1, <2>2, EndsLife
<1>5. CASE ApproveRevalidate(c, o) \/ ApproveRequeue(c, o) \/ ApproveNoTransport(c, o)
  BY <1>5, QuietLife, Zenon
     DEF ApproveRevalidate, ApproveRequeue, ApproveNoTransport, history
<1> QED
  BY <1>1, <1>2, <1>3, <1>4, <1>5, ZenonT(60) DEF ApproveStep

\* A denial refuses a waiting operation when it takes it, and writes it down
\* afterwards.
LEMMA DenyLife ==
  ASSUME TypeOK, GateInvariant, NEW c \in Clients, NEW o \in Ops,
         DenyTake(c, o) \/ DenyStep(c, o)
  PROVE  [Life!Next]_<<Stages, calls>>
<1>1. CASE DenyTake(c, o)
  <2>1. /\ o \in pending /\ UNCHANGED audit /\ UNCHANGED calls
        /\ denied' = denied \union {o}
    BY <1>1 DEF DenyTake, Take
  <2>2. /\ result[o] = "require_approval" /\ approval[o] = "none"
        /\ exec[o] = "not_executed" /\ calls[o] = 0 /\ o \notin denied
    BY <2>1, Zenon DEF GateInvariant, QueueInv, DenyInv
  <2>3. \A p \in Ops \ {o} : Stage(p)' = Stage(p)
    <3>1. \A p \in Ops \ {o} : p \in denied' <=> p \in denied
      BY <2>1, Zenon
    <3> QED
      BY <2>1, <3>1, StageStays, Zenon DEF audit
  <2>4. Stage(o) = "waiting" /\ Stage(o)' = "refused"
    BY <2>1, <2>2, SMTT(60) DEF Stage, Recorded, audit
  <2>5. Stage(o)' \in Life!After[Stage(o)]
    BY <2>4 DEF Life!After
  <2> QED
    BY <2>1, <2>3, <2>5, OneMoves, Zenon
<1>2. CASE DenyRecord(c, o)
  <2>1. /\ o \in held[c] /\ pc[c] = "deny_record" /\ UNCHANGED <<calls, denied>>
        /\ UpdateApproval(o, "denied") \/ UNCHANGED audit
    BY <1>2 DEF DenyRecord, At, history
  <2>2. CASE UNCHANGED audit
    BY <2>1, <2>2, QuietLife, Zenon
  <2>3. CASE UpdateApproval(o, "denied")
    <3>1. approval[o] = "none" /\ result[o] = "require_approval"
      BY <2>1, SMTT(60) DEF GateInvariant, HeldInv
    <3>2. approval'[o] = "denied" /\ \A p \in Ops \ {o} : approval'[p] = approval[p]
      BY <2>3 DEF UpdateApproval, TypeOK
    <3>3. \A p \in Ops \ {o} : Stage(p)' = Stage(p)
      BY <2>1, <2>3, <3>2, StageStays, ZenonT(60) DEF UpdateApproval
    <3>4. Stage(o)' = Stage(o)
      BY <2>1, <2>3, <3>1, <3>2, Zenon DEF Stage, Recorded, UpdateApproval
    <3> QED
      BY <2>1, <3>3, <3>4, OneMoves, ZenonT(60)
  <2> QED
    BY <2>1, <2>2, <2>3, ZenonT(60)
<1>3. CASE DenyFinish(c, o)
  <2>1. /\ o \in held[c] /\ pc[c] = "deny_finish" /\ UpdateExecution(o, "failed")
        /\ UNCHANGED calls /\ UNCHANGED denied
    BY <1>3, SMTT(60) DEF DenyFinish, At, history
  <2>2. Recorded(o) /\ exec[o] = "not_executed" /\ calls[o] = 0
    BY <2>1 DEF GateInvariant, HeldInv, Recorded
  <2> QED
    BY <2>1, <2>2, EndsLife, Zenon
<1> QED
  BY <1>1, <1>2, <1>3, Zenon DEF DenyStep

\* A revocation ends the operations it took from the queue.
LEMMA RevokeLife ==
  ASSUME TypeOK, GateInvariant, NEW c \in Clients, RevokeStep(c)
  PROVE  [Life!Next]_<<Stages, calls>>
<1>1. ASSUME NEW o \in Ops, RevokeFinalize(c, o)
      PROVE  [Life!Next]_<<Stages, calls>>
  <2>1. /\ o \in held[c] /\ pc[c] = "finalize" /\ UpdateExecution(o, "failed")
        /\ UNCHANGED calls /\ UNCHANGED denied
    BY <1>1 DEF RevokeFinalize, At, history
  <2>2. Recorded(o) /\ exec[o] = "not_executed" /\ calls[o] = 0
    BY <2>1 DEF GateInvariant, HeldInv, Recorded
  <2> QED
    BY <2>1, <2>2, EndsLife
<1>2. CASE RevokeMirror(c) \/ RevokeInvalidate(c) \/ RevokeDone(c)
  BY <1>2, QuietLife, Zenon DEF RevokeMirror, RevokeInvalidate, RevokeDone, history
<1> QED
  BY <1>1, <1>2, ZenonT(60) DEF RevokeStep

\* Every step of the gate is one step of one operation's life, or of none.
LEMMA LifeStep ==
  ASSUME TypeOK, GateInvariant, [Next]_vars
  PROVE  [Life!Next]_<<Stages, calls>>
<1>1. ASSUME UNCHANGED audit, UNCHANGED calls, UNCHANGED denied
      PROVE  [Life!Next]_<<Stages, calls>>
  BY <1>1, QuietLife, Zenon
<1>2. ASSUME NEW e \in Envelope, RpReceive(e)
      PROVE  [Life!Next]_<<Stages, calls>>
  BY <1>1, <1>2, Zenon DEF RpReceive, history
<1>3. ASSUME NEW c \in Clients, NEW o \in Ops, ApproveTake(c, o)
      PROVE  [Life!Next]_<<Stages, calls>>
  BY <1>1, <1>3, Zenon DEF ApproveTake, history
<1>4. ASSUME NEW c \in Clients, NEW s \in Sessions, RevokeSave(c, s)
      PROVE  [Life!Next]_<<Stages, calls>>
  BY <1>1, <1>4, Zenon DEF RevokeSave
<1>5. ASSUME NEW c \in Clients, Abort(c)
      PROVE  [Life!Next]_<<Stages, calls>>
  BY <1>1, <1>5, Zenon DEF Abort, history
<1>6. CASE \/ \E s \in Sessions : AuthorityChanges(s)
           \/ TransportUp \/ TransportDown \/ Shutdown \/ Halt \/ Start
  BY <1>1, <1>6, Zenon DEF AuthorityChanges, TransportUp, TransportDown, Shutdown,
     Halt, Start, history
<1>7. CASE UNCHANGED vars
  BY <1>1, <1>7, Zenon DEF vars, history
<1> QED
  BY <1>2, <1>3, <1>4, <1>5, <1>6, <1>7, RemoteLife, ApproveLife, DenyLife, RevokeLife,
     Zenon DEF Next, ClientStep

\* Whatever is replayed, raced, re-queued, lost or restarted, each operation id
\* lives the one life of OperationLife, for every set of operations, sessions
\* and connections.
THEOREM LivesHold == Spec => LivesOnce
<1>1. Init => Life!Init
  <2> SUFFICES ASSUME Init PROVE Life!Init
    OBVIOUS
  <2>1. \A o \in Ops : Stage(o) = "new"
    BY Zenon DEF Init, Stage, Recorded
  <2>2. Stages = [o \in Ops |-> "new"]
    BY <2>1 DEF Stages
  <2> QED
    BY <2>2, Zenon DEF Init, Life!Init
<1>2. TypeOK /\ GateInvariant /\ [Next]_vars
        => [Life!Next]_<<Stages, calls>>
  BY LifeStep, Zenon
<1> QED
  BY <1>1, <1>2, TypeCorrect, OwnershipHolds, PTL DEF Spec, LivesOnce, Life!Spec
=============================================================================
