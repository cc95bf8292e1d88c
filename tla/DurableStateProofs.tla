-------------------------- MODULE DurableStateProofs --------------------------
(***************************************************************************)
(* Proofs about what the daemon keeps on disk besides its tables of        *)
(* authority: the device identity and the owner policy (TrustPlane), for   *)
(* any number of requests, identities, manifests and assertions; and the   *)
(* snapshots of a workspace (CheckpointStore), for any files, contents,    *)
(* checkpoints and places of checkpoints_root.  The two share no state.    *)
(***************************************************************************)
EXTENDS TrustPlane, CheckpointStore, TLAPS

-----------------------------------------------------------------------------
(* Identity and policy: TrustInductive is inductive, and the action        *)
(* properties follow from it step by step.                                 *)

\* A step of a request keeps the invariant: the key is stored before the row
\* is inserted, and the first row never changes.
LEMMA RequestKeeps ==
    ASSUME TrustInductive, NEW r \in Requests, RequestStep(r), UNCHANGED ownerVars
    PROVE  TrustInductive'
<1> USE IdentityAssumption DEF TrustInductive, TrustTypeOK, ownerVars
<1>0. InStep'
    BY DEF InStep
<1>1. CASE BeginPairing(r)
    BY <1>0, <1>1, SMTT(60) DEF BeginPairing, Goto, HeldIsMine, IdentityIsWhole, Loaded
<1>2. CASE Create(r)
    <2>1. CASE Loaded(rows) # NoIdentity
        BY <1>0, <1>2, <2>1, SMTT(60) DEF Create, Goto, HeldIsMine, IdentityIsWhole, Loaded
    <2>2. CASE Loaded(rows) = NoIdentity
        <3>1. PICK i \in Identities : Goto(r, "store", i)
            BY <1>2, <2>2, SMTT(60) DEF Create
        <3>2. QED
            BY <1>0, <1>2, <3>1, SMTT(60) DEF Create, Goto, HeldIsMine, IdentityIsWhole, Loaded
    <2>3. QED
        BY <2>1, <2>2, SMTT(60)
<1>3. CASE StoreDeviceKey(r)
    <2>1. mine[r] \in Identities
        BY <1>3, SMTT(60) DEF StoreDeviceKey, HeldIsMine
    <2>2. QED
        BY <1>0, <1>3, <2>1, SMTT(60) DEF StoreDeviceKey, Goto, HeldIsMine, IdentityIsWhole, Loaded
<1>4. CASE InsertDevice(r)
    <2>1. mine[r] \in Identities /\ mine[r] \in keys
        BY <1>4, SMTT(60) DEF InsertDevice, HeldIsMine
    <2>2. rows' \in Seq(Identities) /\ \A n \in DOMAIN rows' : rows'[n] \in keys
        <3>1. CASE rows' = rows
            BY <3>1 DEF IdentityIsWhole
        <3>2. CASE rows' = Append(rows, mine[r])
            <4>1. rows' \in Seq(Identities) /\ DOMAIN rows' = 1..Len(rows) + 1
                BY <2>1, <3>2, SMTT(60)
            <4>2. rows'[Len(rows) + 1] = mine[r] /\ \A n \in 1..Len(rows) : rows'[n] = rows[n]
                BY <2>1, <3>2, SMTT(60)
            <4>3. QED
                BY <2>1, <4>1, <4>2, SMTT(60) DEF IdentityIsWhole
        <3>3. QED
            BY <1>4, <3>1, <3>2, SMTT(60) DEF InsertDevice
    <2>3. rows # <<>> => rows' # <<>> /\ Loaded(rows') = Loaded(rows)
        BY <1>4, <2>1, SMTT(60) DEF InsertDevice, Loaded
    <2>4. HeldIsMine'
        BY <1>4, <2>3, SMTT(60) DEF InsertDevice, Goto, HeldIsMine
    <2>5. IdentityIsWhole'
        BY <1>4, <2>2, SMTT(60) DEF InsertDevice, IdentityIsWhole
    <2>6. QED
        BY <1>0, <1>4, <2>2, <2>4, <2>5, SMTT(60) DEF InsertDevice, Goto
<1>5. CASE BeginProof(r)
    <2>1. rows # <<>> /\ Loaded(rows) \in Identities
        BY <1>5, SMTT(60) DEF BeginProof, Loaded
    <2>2. QED
        BY <1>0, <1>5, <2>1, SMTT(60) DEF BeginProof, Goto, HeldIsMine, IdentityIsWhole
<1>6. CASE Sign(r)
    <2>1. rows # <<>> /\ mine[r] = Loaded(rows)
        BY <1>6 DEF Sign, HeldIsMine
    <2>2. mine[r] \in Identities
        BY <2>1, SMTT(60) DEF Loaded
    <2>3. proofs' \subseteq [device : Identities, signer : Identities]
              /\ \A x \in proofs' : x.signer = x.device
        BY <1>6, <2>1, <2>2, SMTT(60) DEF Sign, HasDeviceKey, IdentityIsWhole
    <2>4. HeldIsMine'
        BY <1>6, SMTT(60) DEF Sign, Goto, HeldIsMine
    <2>5. QED
        BY <1>0, <1>6, <2>3, <2>4, SMTT(60) DEF Sign, Goto, IdentityIsWhole
<1>7. QED
    BY <1>1, <1>2, <1>3, <1>4, <1>5, <1>6, SMTT(60) DEF RequestStep

\* A step of the authority keeps the policy in use equal to the stored one.
LEMMA OwnerKeeps ==
    ASSUME TrustInductive, OwnerStep, UNCHANGED deviceVars
    PROVE  TrustInductive'
<1> USE OwnerAssumption DEF TrustInductive, TrustTypeOK, deviceVars
<1>0. HeldIsMine' /\ IdentityIsWhole'
    BY DEF HeldIsMine, IdentityIsWhole
<1>1. ASSUME NEW m \in Manifests, OwnerCommits(m) PROVE TrustInductive'
    BY <1>0, <1>1, SMTT(60) DEF OwnerCommits, InStep
<1>2. ASSUME NEW m \in Manifests, OpenAuthority(m) PROVE TrustInductive'
    BY <1>0, <1>2, SMTT(60) DEF OpenAuthority, InStep
<1>3. ASSUME NEW m \in Manifests, Activate(m) PROVE TrustInductive'
    BY <1>0, <1>3, SMTT(60) DEF Activate, InStep
<1>4. CASE Publish
    BY <1>0, <1>4, SMTT(60) DEF Publish, InStep
<1>5. CASE Tick
    BY <1>0, <1>5, SMTT(60) DEF Tick, InStep
<1>6. QED
    BY <1>1, <1>2, <1>3, <1>4, <1>5, SMTT(60) DEF OwnerStep

LEMMA StepKeeps == TrustInductive /\ [Next]_vars => TrustInductive'
<1> SUFFICES ASSUME TrustInductive, [Next]_vars PROVE TrustInductive'
    OBVIOUS
<1>1. ASSUME NEW r \in Requests, RequestStep(r), UNCHANGED ownerVars PROVE TrustInductive'
    BY <1>1, RequestKeeps, SMTT(60)
<1>2. CASE OwnerStep /\ UNCHANGED deviceVars
    BY <1>2, OwnerKeeps, SMTT(60)
<1>3. ASSUME NEW p \in Proofs, VerifyRequest(p) PROVE TrustInductive'
    BY <1>3, SMTT(60) DEF VerifyRequest, VerifyActor, deviceVars, TrustInductive, TrustTypeOK,
        HeldIsMine, IdentityIsWhole, InStep
<1>4. CASE Crash
    BY <1>4, OwnerAssumption, IdentityAssumption, SMTT(60) DEF Crash, DeviceCrash, OwnerCrash,
        TrustInductive, TrustTypeOK, HeldIsMine, IdentityIsWhole, InStep
<1>5. CASE UNCHANGED vars
    BY <1>5 DEF vars, TrustInductive, TrustTypeOK, HeldIsMine, IdentityIsWhole, InStep
<1>6. QED
    BY <1>1, <1>2, <1>3, <1>4, <1>5, SMTT(60) DEF Next

\* No device row without its key, no message signed by another device's key,
\* and no policy in use but the stored one, in every reachable state.
THEOREM TrustHolds == Spec => []TrustInductive
<1>1. Init => TrustInductive
    <2> SUFFICES ASSUME Init PROVE TrustInductive
        OBVIOUS
    <2>1. TrustTypeOK
        BY IdentityAssumption, OwnerAssumption, SMTT(60) DEF Init, DeviceInit, OwnerInit, TrustTypeOK
    <2>2. QED
        BY <2>1, OwnerAssumption, SMTT(60) DEF Init, DeviceInit, OwnerInit, TrustInductive, HeldIsMine,
            IdentityIsWhole, InStep
<1>2. QED
    BY <1>1, StepKeeps, PTL DEF Spec

\* The device answers with its first identity for good.
THEOREM IdentityStays == Spec => IdentityIsStable
<1>1. ASSUME TrustInductive, [Next]_vars, rows # <<>>
      PROVE  rows' # <<>> /\ Loaded(rows') = Loaded(rows)
    <2> USE <1>1 DEF TrustInductive, TrustTypeOK
    <2>1. CASE UNCHANGED rows
        BY <2>1, SMTT(60)
    <2>2. ASSUME NEW r \in Requests, InsertDevice(r)
          PROVE  rows' # <<>> /\ Loaded(rows') = Loaded(rows)
        BY <2>2, SMTT(60) DEF InsertDevice, Loaded, HeldIsMine
    <2>3. UNCHANGED rows \/ \E r \in Requests : InsertDevice(r)
        BY DEF Next, RequestStep, BeginPairing, Create, StoreDeviceKey, BeginProof, Sign,
            deviceVars, VerifyRequest, Crash, DeviceCrash, vars
    <2>4. QED
        BY <2>1, <2>2, <2>3, SMTT(60)
<1>2. QED
    BY <1>1, TrustHolds, PTL DEF Spec, IdentityIsStable

\* An assertion is accepted only under the manifest the store is bound to.
THEOREM AcceptedIsCommitted == Spec => AcceptedUnderCommitted
<1>1. ASSUME TrustInductive, [Next]_vars, NEW p \in used' \ used
      PROVE  /\ PinnedFor(committed, p, now)
             /\ committed.issued <= now /\ now < committed.expires
             /\ p.device = Loaded(rows)
    <2>1. UNCHANGED used \/ \E q \in Proofs : VerifyRequest(q)
        BY <1>1 DEF Next, RequestStep, OwnerStep, OwnerCommits, OpenAuthority, Activate, Publish,
            Tick, ownerVars, Crash, OwnerCrash, vars
    <2>2. PICK q \in Proofs : VerifyRequest(q)
        BY <1>1, <2>1, SMTT(60)
    <2>3. p = q /\ active # NoManifest /\ PinnedFor(active, q, now) /\ AssertionOk(q, Loaded(rows), now)
              /\ active.issued <= now /\ now < active.expires
        BY <1>1, <2>2, SMTT(60) DEF VerifyRequest, VerifyActor
    <2>4. active = committed
        BY <1>1, <2>3, SMTT(60) DEF TrustInductive, InStep
    <2>5. QED
        BY <2>3, <2>4, SMTT(60) DEF AssertionOk
<1>2. TrustInductive /\ [Next]_vars =>
        \A p \in used' \ used :
            /\ PinnedFor(committed, p, now)
            /\ committed.issued <= now /\ now < committed.expires
            /\ p.device = Loaded(rows)
    BY <1>1
<1>3. QED
    BY <1>2, TrustHolds, PTL DEF Spec, AcceptedUnderCommitted

\* The store is rebound only to higher generations.
THEOREM CommittedAdvances == Spec => CommittedOnlyAdvances
<1>1. ASSUME TrustInductive, [Next]_vars, committed' # committed
      PROVE  committed'.generation > committed.generation
    <2>1. \E m \in Manifests : OwnerCommits(m) \/ Activate(m)
        BY <1>1, SMTT(60) DEF Next, RequestStep, OwnerStep, OpenAuthority, Publish, Tick, ownerVars, Crash,
            OwnerCrash, VerifyRequest, VerifyActor, vars
    <2>2. PICK m \in Manifests : OwnerCommits(m) \/ Activate(m)
        BY <2>1
    <2>3. CASE OwnerCommits(m)
        BY <2>3, SMTT(60) DEF OwnerCommits
    <2>4. CASE Activate(m)
        BY <1>1, <2>4 DEF Activate, VerifyManifest
    <2>5. QED
        BY <2>2, <2>3, <2>4, SMTT(60)
<1>2. QED
    BY <1>1, TrustHolds, PTL DEF Spec, CommittedOnlyAdvances

-----------------------------------------------------------------------------
(* Checkpoints                                                             *)

(* One file of one snapshot changes.                                      *)
LEMMA OneFile ==
  ASSUME NEW S \in [Checkpoints -> Tree], NEW k \in Checkpoints,
         NEW f \in Files, NEW v \in Contents \cup {Absent, Torn}
  PROVE  [S EXCEPT ![k][f] = v] \in [Checkpoints -> Tree]
<1>1. S[k] \in Tree
  OBVIOUS
<1>2. [S[k] EXCEPT ![f] = v] \in Tree
  BY <1>1 DEF Tree
<1> QED  BY <1>2

(* A half-written file is a file.                                         *)
LEMMA HalfWrittenType ==
  ASSUME CheckpointTypeOK, CheckpointInvariant, HalfWritten
  PROVE  work' \in Tree /\ snap' \in [Checkpoints -> Tree]
<1> USE DEF CheckpointTypeOK, CheckpointInvariant
<1>1. CASE UNCHANGED <<work, snap>>
  BY <1>1
<1>2. ASSUME NEW f \in left, op = "create",
             snap' = [snap EXCEPT ![cur][f] = Torn], UNCHANGED work
      PROVE  work' \in Tree /\ snap' \in [Checkpoints -> Tree]
  <2>1. cur \in Checkpoints /\ f \in Files
    BY <1>2
  <2> QED  BY <1>2, <2>1, OneFile, ZenonT(60)
<1>3. ASSUME NEW f \in left, work' = [work EXCEPT ![f] = Torn],
             UNCHANGED snap
      PROVE  work' \in Tree /\ snap' \in [Checkpoints -> Tree]
  BY <1>3 DEF Tree
<1> QED  BY <1>1, <1>2, <1>3 DEF HalfWritten

(* Every action keeps the types.                                          *)
LEMMA CheckpointTypeStep == CheckpointTypeOK /\ CheckpointInvariant /\ [CheckpointNext]_checkpointVars
                    => CheckpointTypeOK'
<1> SUFFICES ASSUME CheckpointTypeOK, CheckpointInvariant, [CheckpointNext]_checkpointVars
             PROVE  CheckpointTypeOK'
  OBVIOUS
<1> USE DEF CheckpointTypeOK, CheckpointInvariant, Begin, Finish, Advance,
        disk, walk, history
<1>0. CASE UNCHANGED checkpointVars
  BY <1>0 DEF checkpointVars
<1>1. ASSUME NEW k \in Checkpoints, CreateCheckpoint(k) PROVE CheckpointTypeOK'
  BY <1>1 DEF CreateCheckpoint
<1>2. ASSUME NEW k \in Checkpoints, Restore(k) \/ Delete(k)
      PROVE  CheckpointTypeOK'
  BY <1>2 DEF Restore, Delete
<1>3. ASSUME NEW k \in Checkpoints, ClearNested(k) PROVE CheckpointTypeOK'
  <2>1. Nothing \in Tree
    BY DEF Nothing, Tree
  <2> QED  BY <1>3, <2>1 DEF ClearNested
<1>4. ASSUME NEW f \in Files, CreateCopy(f) PROVE CheckpointTypeOK'
  <2>1. cur \in Checkpoints /\ work[f] \in Contents \cup {Absent, Torn}
    BY <1>4 DEF CreateCopy, Tree
  <2>2. snap' \in [Checkpoints -> Tree]
    BY <1>4, <2>1, OneFile, SMTT(60) DEF CreateCopy
  <2> QED  BY <1>4, <2>2 DEF CreateCopy
<1>5. ASSUME NEW f \in Files, RemoveFile(f) PROVE CheckpointTypeOK'
  <2>1. cur \in Checkpoints
    BY <1>5 DEF RemoveFile
  <2>2. snap' \in [Checkpoints -> Tree]
    BY <1>5, <2>1, OneFile, ZenonT(60) DEF RemoveFile
  <2> QED  BY <1>5, <2>2 DEF RemoveFile
<1>6. ASSUME NEW f \in Files, ClearFile(f) \/ CopyBack(f)
      PROVE  CheckpointTypeOK'
  BY <1>6 DEF ClearFile, CopyBack, Tree
<1>7. ASSUME NEW f \in Files, NEW v \in Contents \cup {Absent}, Edit(f, v)
      PROVE  CheckpointTypeOK'
  BY <1>7 DEF Edit, Tree
<1>8. CASE InsertRow \/ ClearDone \/ RestoreDone \/ RemoveDir \/ DeleteRow
           \/ Start
  BY <1>8, ZenonT(60) DEF InsertRow, ClearDone, RestoreDone, RemoveDir, DeleteRow, Start
<1>9. CASE OperationFails
  BY <1>9, HalfWrittenType DEF OperationFails
<1>10. CASE CheckpointCrash
  BY <1>10, HalfWrittenType, ZenonT(60) DEF CheckpointCrash
<1> QED
  BY <1>0, <1>1, <1>2, <1>3, <1>4, <1>5, <1>6, <1>7, <1>8, <1>9, <1>10
     DEF CheckpointNext

(* Every action keeps the inductive invariant.                            *)
LEMMA CheckpointInvStep == CheckpointTypeOK /\ CheckpointInvariant /\ [CheckpointNext]_checkpointVars
                   => CheckpointInvariant'
<1> SUFFICES ASSUME CheckpointTypeOK, CheckpointInvariant, [CheckpointNext]_checkpointVars
             PROVE  CheckpointInvariant'
  OBVIOUS
<1> USE CheckpointConstants
<1> USE DEF CheckpointTypeOK, CheckpointInvariant, Begin, Finish, Advance,
        disk, walk, history, Tree, RowsAreRestorable, CreateSoFar,
        RestoreSoFar, Intact
<1>0. CASE UNCHANGED checkpointVars
  BY <1>0 DEF checkpointVars
<1>1. ASSUME NEW k \in Checkpoints, CreateCheckpoint(k) PROVE CheckpointInvariant'
  BY <1>1 DEF CreateCheckpoint
<1>2. ASSUME NEW k \in Checkpoints, Restore(k) PROVE CheckpointInvariant'
  BY <1>2 DEF Restore
<1>3. ASSUME NEW k \in Checkpoints, Delete(k) PROVE CheckpointInvariant'
  BY <1>3 DEF Delete
<1>4. ASSUME NEW k \in Checkpoints, ClearNested(k) PROVE CheckpointInvariant'
  BY <1>4 DEF ClearNested
<1>5. ASSUME NEW f \in Files, CreateCopy(f) PROVE CheckpointInvariant'
  <2>1. cur \notin recorded /\ cur \in Checkpoints /\ op = "create" /\ op' = "create"
    BY <1>5 DEF CreateCopy
  <2>2. \A k \in recorded : snap'[k] = snap[k]
    BY <1>5, <2>1 DEF CreateCopy
  <2>3. RowsAreRestorable'
    BY <1>5, <2>2 DEF CreateCopy
  <2>4. CreateSoFar'
    BY <1>5, <2>1, SMTT(60) DEF CreateCopy
  <2> QED
    BY <1>5, <2>1, <2>3, <2>4 DEF CreateCopy
<1>6. CASE InsertRow
  BY <1>6 DEF InsertRow
<1>7. ASSUME NEW f \in Files, ClearFile(f) PROVE CheckpointInvariant'
  BY <1>7 DEF ClearFile
<1>8. CASE ClearDone
  BY <1>8 DEF ClearDone
<1>9. ASSUME NEW f \in Files, CopyBack(f) PROVE CheckpointInvariant'
  BY <1>9 DEF CopyBack
<1>10. ASSUME NEW f \in Files, RemoveFile(f) PROVE CheckpointInvariant'
  BY <1>10, SMTT(60) DEF RemoveFile
<1>11. CASE RestoreDone \/ RemoveDir \/ DeleteRow \/ Start
  BY <1>11, SMTT(60) DEF RestoreDone, RemoveDir, DeleteRow, Start, UnusableSnapshots
<1>12. ASSUME NEW f \in Files, NEW v \in Contents \cup {Absent}, Edit(f, v)
       PROVE  CheckpointInvariant'
  BY <1>12, SMTT(60) DEF Edit
<1>13. CASE OperationFails
  BY <1>13, SMTT(60) DEF OperationFails, HalfWritten
<1>14. CASE CheckpointCrash
  BY <1>14, SMTT(60) DEF CheckpointCrash, HalfWritten
<1> QED
  BY ZenonT(60), <1>0, <1>1, <1>2, <1>3, <1>4, <1>5, <1>6, <1>7, <1>8, <1>9, <1>10,
     <1>11, <1>12, <1>13, <1>14 DEF CheckpointNext

(* The initial state satisfies both.                                      *)
LEMMA CheckpointInitFacts == CheckpointInit => CheckpointTypeOK /\ CheckpointInvariant
<1> SUFFICES ASSUME CheckpointInit PROVE CheckpointTypeOK /\ CheckpointInvariant
  OBVIOUS
<1>1. CheckpointTypeOK
  <2>1. work \in Tree /\ Nothing \in Tree
    BY DEF CheckpointInit, Tree, Nothing
  <2> QED  BY <2>1 DEF CheckpointInit, CheckpointTypeOK
<1>2. RowsAreRestorable
  BY DEF CheckpointInit, RowsAreRestorable
<1>3. CreateSoFar /\ RestoreSoFar
  BY DEF CheckpointInit, CreateSoFar, RestoreSoFar
<1> QED
  BY <1>1, <1>2, <1>3, CheckpointConstants DEF CheckpointInit, CheckpointInvariant

-----------------------------------------------------------------------------
(* The inductive invariant of the store, with its types, for every        *)
(* instance.                                                              *)
THEOREM CheckpointInvariantHolds == CheckpointSpec => [](CheckpointTypeOK /\ CheckpointInvariant)
BY CheckpointInitFacts, CheckpointTypeStep, CheckpointInvStep, PTL DEF CheckpointSpec

(* The same under the name the model checker knows it by.                 *)
THEOREM CheckpointHolds == CheckpointSpec => []CheckpointInductive
BY CheckpointInvariantHolds, PTL DEF CheckpointInductive

(* Types, for every instance.                                             *)
THEOREM CheckpointTypeCorrect == CheckpointSpec => []CheckpointTypeOK
BY CheckpointInvariantHolds, PTL

(* FilesystemCheckpointStore: a row the store wrote stays restorable      *)
(* until it is itself deleted, over crashes, I/O errors and edits, for    *)
(* any number of files and checkpoints, unless checkpoints_root is        *)
(* nested inside the workspace.                                           *)
THEOREM CheckpointsSurvive == CheckpointSpec => []RowsAreRestorable
<1>1. CheckpointInvariant => RowsAreRestorable
  BY DEF CheckpointInvariant
<1> QED  BY <1>1, CheckpointInvariantHolds, PTL

(* A restore that succeeds restores every file nobody was editing, also   *)
(* after an earlier restore was cut short.                                *)
THEOREM RestoreHolds == CheckpointSpec => RestoreIsExact
<1>1. CheckpointTypeOK /\ CheckpointInvariant /\ [CheckpointNext]_checkpointVars
        => [Restored]_checkpointVars
  <2> SUFFICES ASSUME CheckpointTypeOK, CheckpointInvariant,
                      op = "copy", left = {}, cur \notin doomed,
                      NEW f \in Files \ (dirty \cup blurred[cur])
               PROVE  work[f] = taken[cur][f]
    BY DEF Restored
  <2>1. cur \in recorded \ relative /\ work[f] = snap[cur][f]
    BY DEF CheckpointInvariant, RestoreSoFar
  <2>2. place # "nested"
    BY DEF CheckpointInvariant, RestoreSoFar
  <2> QED  BY <2>1, <2>2 DEF CheckpointInvariant, RowsAreRestorable, Intact
<1> QED  BY <1>1, CheckpointInvariantHolds, PTL DEF CheckpointSpec, RestoreIsExact
=============================================================================
