------------------------- MODULE ActorReplayProofs -------------------------
(***************************************************************************)
(* TLAPS proofs about ActorReplay, for any callers, challenges, channels,  *)
(* assertions, clock range and capacity.                                   *)
(***************************************************************************)
EXTENDS ActorReplay, FiniteSetTheorems, TLAPS

(* The default request has the type of a request.                         *)
LEMMA NoRequestType == NoRequest \in Requests
BY ReplayConstants DEF NoRequest, Requests, Times

(* The fields of a request.                                               *)
LEMMA RequestType ==
  \A r \in Requests : /\ r.claim \in Claims /\ r.challenge \in Challenges
                      /\ r.channel \in Channels
                      /\ r.issued \in Nat /\ r.now \in Nat
BY ReplayConstants DEF Requests, Times

(* Only requests are admitted.                                            *)
LEMMA AdmittedType == Admitted \subseteq Requests
BY DEF Admitted

(* One more element.                                                      *)
LEMMA AddOne ==
  ASSUME NEW S, IsFiniteSet(S), NEW x
  PROVE  /\ IsFiniteSet(S \cup {x})
         /\ Cardinality(S \cup {x}) <= Cardinality(S) + 1
<1>1. Cardinality(S) \in Nat
  BY FS_CardinalityType
<1>2. /\ IsFiniteSet(S \cup {x})
      /\ Cardinality(S \cup {x}) =
           IF x \in S THEN Cardinality(S) ELSE Cardinality(S) + 1
  BY FS_AddElement
<1> QED  BY <1>1, <1>2

(* What the checks before the lock establish.                             *)
LEMMA AdmittedFacts ==
  \A r \in Admitted :
    /\ r.now > 0
    /\ r.kind = "prove" => /\ r.challenge = r.claim.challenge
                           /\ r.now <= r.issued + Lifetime
BY DEF Admitted, Admissible

(* Every action keeps the types.                                          *)
LEMMA TypeStep == ReplayTypeOK /\ [Next]_vars => ReplayTypeOK'
<1> SUFFICES ASSUME ReplayTypeOK, [Next]_vars PROVE ReplayTypeOK'
  OBVIOUS
<1> USE ReplayConstants, NoRequestType, AdmittedType
<1> USE DEF ReplayTypeOK, Steps, InTransaction
<1>0. CASE UNCHANGED vars
  BY <1>0 DEF vars
<1>1. ASSUME NEW c \in Callers, NEW r \in Admitted, Begin(c, r)
      PROVE  ReplayTypeOK'
  BY <1>1 DEF Begin
<1>2. ASSUME NEW c \in Callers, Lock(c) PROVE ReplayTypeOK'
  BY <1>2 DEF Lock
<1>3. ASSUME NEW c \in Callers, Rollback(c) PROVE ReplayTypeOK'
  BY <1>3 DEF Rollback
<1>4. ASSUME NEW c \in Callers, NEW d \in Database, NEW step \in Steps,
             Proceed(c, d, step)
      PROVE  ReplayTypeOK'
  BY <1>4 DEF Proceed
<1>5. ASSUME NEW c \in Callers, RequireNondecreasingLocalClock(c)
      PROVE  ReplayTypeOK'
  <2>0. req[c].now \in Nat
    BY RequestType
  <2>1. [tx EXCEPT !.hw = req[c].now] \in Database
    BY <2>0, SMTT(60) DEF Database
  <2> QED  BY <1>3, <1>4, <1>5, <2>1 DEF RequireNondecreasingLocalClock
<1>6. ASSUME NEW c \in Callers, Count(c) PROVE ReplayTypeOK'
  BY <1>3, <1>4, <1>6 DEF Count
<1>7. ASSUME NEW c \in Callers, Claim(c) PROVE ReplayTypeOK'
  <2>1. [tx EXCEPT !.spent = @ \cup {req[c].challenge}] \in Database
    BY SMTT(60) DEF Database, Requests
  <2> QED  BY <1>3, <1>4, <1>7, <2>1 DEF Claim
<1>8. ASSUME NEW c \in Callers, InsertChallenge(c) PROVE ReplayTypeOK'
  <2>0. req[c] \in Requests
    OBVIOUS
  <2>1. [tx EXCEPT !.issued[req[c].challenge] = req[c].now,
                   !.channel[req[c].challenge] = req[c].channel] \in Database
    BY <2>0, RequestType, ZenonT(60) DEF Database
  <2> QED  BY <1>3, <1>4, <1>8, <2>1 DEF InsertChallenge
<1>9. ASSUME NEW c \in Callers, InsertProof(c) PROVE ReplayTypeOK'
  <2>1. [tx EXCEPT !.proofs = @ \cup {req[c].claim}] \in Database
    BY SMTT(60) DEF Database, Requests
  <2> QED  BY <1>3, <1>4, <1>9, <2>1 DEF InsertProof
<1>10. ASSUME NEW c \in Callers, Commit(c) PROVE ReplayTypeOK'
  BY <1>10 DEF Commit
<1>11. ASSUME NEW c \in Callers, Return(c) PROVE ReplayTypeOK'
  BY <1>11 DEF Return, Requests
<1>12. ASSUME NEW c \in Callers, StatementFails(c) PROVE ReplayTypeOK'
  BY <1>12, <1>3 DEF StatementFails
<1>13. ASSUME Crash PROVE ReplayTypeOK'
  BY <1>13 DEF Crash
<1> QED
  BY <1>0, <1>1, <1>2, <1>5, <1>6, <1>7, <1>8, <1>9, <1>10, <1>11, <1>12,
     <1>13 DEF Next, Step

(* A request before its transaction touches no table.                       *)
LEMMA BeginInv ==
  ASSUME NEW c \in Callers, NEW r \in Admitted, Begin(c, r),
         ReplayTypeOK, ReplayInvariant
  PROVE  ReplayInvariant'
<1> USE ReplayConstants, RequestType, AdmittedType
<1> USE DEF ReplayTypeOK, ReplayInvariant, InTransaction
<1>1. Mutex'
  BY DEF Begin, Mutex
<1>2. Extends'
  BY DEF Begin, Mutex, Extends, Rows
<1>3. Progress'
  BY SMTT(60) DEF Begin, Mutex, Progress, Proved, Extends
<1>4. SpentHaveProofs'
  BY DEF Begin, Mutex, SpentHaveProofs, Progress, HasProof, Proved
<1>5. Counted'
  BY DEF Begin, Counted, Full, Mutex, Rows
<1>6. IdentityOnce'
  BY DEF Begin, IdentityOnce
<1>7. BothOrNeither'
  BY DEF Begin, BothOrNeither
<1>8. TablesAreBounded'
  BY DEF Begin, TablesAreBounded, Rows
<1>9. HandedIsDurable'
  BY DEF Begin, HandedIsDurable, Rows
<1> QED  BY <1>1, <1>2, <1>3, <1>4, <1>5, <1>6, <1>7, <1>8, <1>9

(* Taking the mutex opens a transaction that sees the committed tables.    *)
LEMMA LockInv ==
  ASSUME NEW c \in Callers, Lock(c),
         ReplayTypeOK, ReplayInvariant
  PROVE  ReplayInvariant'
<1> USE ReplayConstants, RequestType, AdmittedType
<1> USE DEF ReplayTypeOK, ReplayInvariant, InTransaction
<1>1. Mutex'
  BY DEF Lock, Mutex
<1>2. Extends'
  BY SMTT(60) DEF Lock, Mutex, Extends, Rows
<1>3. Progress'
  BY SMTT(60) DEF Lock, Mutex, Progress, Proved, Extends
<1>4. SpentHaveProofs'
  BY DEF Lock, Mutex, SpentHaveProofs, Progress, HasProof, Proved
<1>5. Counted'
  BY DEF Lock, Counted, Full, Mutex, Rows
<1>6. IdentityOnce'
  BY DEF Lock, IdentityOnce
<1>7. BothOrNeither'
  BY DEF Lock, BothOrNeither
<1>8. TablesAreBounded'
  BY DEF Lock, TablesAreBounded, Rows
<1>9. HandedIsDurable'
  BY DEF Lock, HandedIsDurable, Rows
<1> QED  BY <1>1, <1>2, <1>3, <1>4, <1>5, <1>6, <1>7, <1>8, <1>9, SMTT(60)

(* A rollback returns to the committed tables.                             *)
LEMMA RollbackInv ==
  ASSUME NEW c \in Callers, pc[c] \in InTransaction, Rollback(c),
         ReplayTypeOK, ReplayInvariant
  PROVE  ReplayInvariant'
<1> USE ReplayConstants, RequestType, AdmittedType
<1> USE DEF ReplayTypeOK, ReplayInvariant, InTransaction
<1>1. Mutex'
  BY DEF Rollback, Mutex
<1>2. Extends'
  BY SMTT(60) DEF Rollback, Mutex, Extends, Rows, Database
<1>3. Progress'
  BY SMTT(60) DEF Rollback, Mutex, Progress, Proved, Extends
<1>4. SpentHaveProofs'
  BY DEF Rollback, Mutex, SpentHaveProofs, Progress, HasProof, Proved
<1>5. Counted'
  <2>1. Rows(db) \subseteq Rows(tx) /\ db.proofs \subseteq tx.proofs
    BY DEF Extends, Rows
  <2>2. IsFiniteSet(Rows(db)) /\ IsFiniteSet(db.proofs)
    BY <2>1, FS_Subset DEF Counted
  <2>3. Rows(tx)' = Rows(db) /\ tx'.proofs = db.proofs
    BY DEF Rollback, Rows
  <2>4. \A d \in Callers : pc'[d] \notin {"claim", "insert"}
    BY DEF Rollback, Mutex
  <2> QED  BY <2>2, <2>3, <2>4 DEF Counted, TablesAreBounded
<1>6. IdentityOnce'
  BY DEF Rollback, IdentityOnce
<1>7. BothOrNeither'
  BY DEF Rollback, BothOrNeither
<1>8. TablesAreBounded'
  BY DEF Rollback, TablesAreBounded, Rows
<1>9. HandedIsDurable'
  BY DEF Rollback, HandedIsDurable, Rows
<1> QED  BY <1>1, <1>2, <1>3, <1>4, <1>5, <1>6, <1>7, <1>8, <1>9, SMTT(60)

(* The high-water mark moves inside the transaction.                       *)
LEMMA ClockInv ==
  ASSUME NEW c \in Callers, pc[c] = "clock", tx.hw <= req[c].now,
         Proceed(c, [tx EXCEPT !.hw = req[c].now], "count"),
         ReplayTypeOK, ReplayInvariant
  PROVE  ReplayInvariant'
<1> USE ReplayConstants, RequestType, AdmittedType
<1> USE DEF ReplayTypeOK, ReplayInvariant, InTransaction
<1>1. Mutex'
  BY DEF Proceed, Database, Mutex
<1>2. Extends'
  <2>1. tx.spent = db.spent
    BY DEF Progress
  <2> QED  BY <2>1 DEF Proceed, Database, Extends, Rows
<1>3. Progress'
  BY DEF Proceed, Database, Mutex, Progress, Proved, Extends
<1>4. SpentHaveProofs'
  BY DEF Proceed, Database, Mutex, SpentHaveProofs, Progress, HasProof, Proved
<1>5. Counted'
  BY DEF Proceed, Database, Counted, Full, Mutex, Rows
<1>6. IdentityOnce'
  BY DEF Proceed, Database, IdentityOnce
<1>7. BothOrNeither'
  BY DEF Proceed, Database, BothOrNeither
<1>8. TablesAreBounded'
  BY DEF Proceed, Database, TablesAreBounded, Rows
<1>9. HandedIsDurable'
  BY DEF Proceed, Database, HandedIsDurable, Rows
<1> QED  BY <1>1, <1>2, <1>3, <1>4, <1>5, <1>6, <1>7, <1>8, <1>9, SMTT(60)


(* A table with room stays so until the insert.                            *)
LEMMA CountInv ==
  ASSUME NEW c \in Callers, Count(c), ~Full(req[c]),
         Proceed(c, tx, IF req[c].kind = "prove" THEN "claim" ELSE "insert"),
         ReplayTypeOK, ReplayInvariant
  PROVE  ReplayInvariant'
<1> USE ReplayConstants, RequestType, AdmittedType
<1> USE DEF ReplayTypeOK, ReplayInvariant, InTransaction
<1>1. Mutex'
  BY SMTT(60) DEF Count, Proceed, Mutex
<1>2. Extends'
  BY SMTT(60) DEF Count, Proceed, Mutex, Extends, Rows
<1>3. Progress'
  BY SMTT(60) DEF Count, Proceed, Mutex, Progress, Proved, Extends
<1>4. SpentHaveProofs'
  BY SMTT(60) DEF Count, Proceed, Mutex, SpentHaveProofs, Progress, HasProof, Proved
<1>5. Counted'
  BY ZenonT(60) DEF Count, Proceed, Counted, Full, Mutex, Rows
<1>6. IdentityOnce'
  BY DEF Count, Proceed, IdentityOnce
<1>7. BothOrNeither'
  BY DEF Count, Proceed, BothOrNeither
<1>8. TablesAreBounded'
  BY DEF Count, Proceed, TablesAreBounded, Rows
<1>9. HandedIsDurable'
  BY DEF Count, Proceed, HandedIsDurable, Rows
<1> QED  BY <1>1, <1>2, <1>3, <1>4, <1>5, <1>6, <1>7, <1>8, <1>9, SMTT(60)

(* The claim consumes an unexpired challenge inside the transaction.       *)
LEMMA ClaimInv ==
  ASSUME NEW c \in Callers, pc[c] = "claim", Claimable(req[c]),
         Proceed(c, [tx EXCEPT !.spent = @ \cup {req[c].challenge}],
                 "insert"),
         ReplayTypeOK, ReplayInvariant
  PROVE  ReplayInvariant'
<1> USE ReplayConstants, RequestType, AdmittedType
<1> USE DEF ReplayTypeOK, ReplayInvariant, InTransaction
<1>1. Mutex'
  BY DEF Proceed, Claimable, Database, Mutex
<1>2. Extends'
  <2>1. req[c] \in Admitted /\ req[c].kind = "prove" /\ tx.hw = req[c].now
                                                /\ tx.spent = db.spent
    BY DEF Progress, Proved
  <2>2. req[c].now <= req[c].issued + Lifetime
    BY <2>1, AdmittedFacts
  <2>3. db.issued[req[c].challenge] = req[c].issued
    BY <2>1 DEF Progress, Proved, Claimable
  <2>4. tx.hw <= db.issued[req[c].challenge] + Lifetime
    BY <2>1, <2>2, <2>3 DEF Database
  <2>5. tx'.hw = tx.hw /\ tx'.spent = tx.spent \cup {req[c].challenge}
    BY SMTT(60) DEF Proceed, Database
  <2> QED  BY <2>1, <2>4, <2>5 DEF Proceed, Extends, Rows, Database
<1>3. Progress'
  BY DEF Proceed, Claimable, Database, Mutex, Progress, Proved, Extends
<1>4. SpentHaveProofs'
  BY DEF Proceed, Claimable, Database, Mutex, SpentHaveProofs, Progress, HasProof, Proved
<1>5. Counted'
  <2>1. Rows(tx)' = Rows(tx) /\ tx'.proofs = tx.proofs
    BY DEF Proceed, Rows, Database
  <2> QED  BY <2>1, ZenonT(60) DEF Proceed, Counted, Full, Mutex
<1>6. IdentityOnce'
  BY DEF Proceed, Claimable, Database, IdentityOnce
<1>7. BothOrNeither'
  BY DEF Proceed, Claimable, Database, BothOrNeither
<1>8. TablesAreBounded'
  BY DEF Proceed, Claimable, Database, TablesAreBounded, Rows
<1>9. HandedIsDurable'
  BY DEF Proceed, Claimable, Database, HandedIsDurable, Rows
<1> QED  BY <1>1, <1>2, <1>3, <1>4, <1>5, <1>6, <1>7, <1>8, <1>9

(* A new challenge row.                                                    *)
LEMMA InsertChallengeInv ==
  ASSUME NEW c \in Callers, pc[c] = "insert", req[c].kind = "issue",
         req[c].challenge \notin Rows(tx),
         Proceed(c, [tx EXCEPT !.issued[req[c].challenge] = req[c].now,
                               !.channel[req[c].challenge] = req[c].channel],
                 "commit"),
         ReplayTypeOK, ReplayInvariant
  PROVE  ReplayInvariant'
<1> USE ReplayConstants, RequestType, AdmittedType
<1> USE DEF ReplayTypeOK, ReplayInvariant, InTransaction
<1>1. Mutex'
  BY DEF Proceed, Database, Mutex
<1>2. Extends'
  BY DEF Proceed, Database, Mutex, Extends, Rows
<1>3. Progress'
  <2>1. req[c].now # 0
    BY AdmittedFacts DEF Progress
  <2>2. req[c].challenge \in Rows(tx)'
    BY <2>1 DEF Proceed, Rows, Database
  <2> QED  BY <2>2 DEF Proceed, Database, Mutex, Progress, Proved, Rows
<1>4. SpentHaveProofs'
  BY DEF Proceed, Database, Mutex, SpentHaveProofs, Progress, HasProof, Proved
<1>5. Counted'
  <2>0. req[c].now # 0
    BY AdmittedFacts DEF Progress
  <2>1. Rows(tx)' = Rows(tx) \cup {req[c].challenge}
    BY <2>0 DEF Proceed, Rows, Database
  <2>2. /\ IsFiniteSet(Rows(tx) \cup {req[c].challenge})
        /\ Cardinality(Rows(tx) \cup {req[c].challenge}) <= Cardinality(Rows(tx)) + 1
    BY AddOne, ZenonT(60) DEF Counted
  <2>3. Cardinality(Rows(tx)) < Capacity
    BY FS_CardinalityType DEF Counted, Full
  <2>4. tx'.proofs = tx.proofs
    BY DEF Proceed, Rows, Database
  <2>5. \A d \in Callers : pc'[d] \notin {"claim", "insert"}
    BY DEF Proceed, Mutex
  <2>6. Cardinality(Rows(tx) \cup {req[c].challenge}) <= Capacity
    BY <2>2, <2>3, FS_CardinalityType DEF Counted
  <2> QED  BY <2>1, <2>2, <2>4, <2>5, <2>6, SMTT(60) DEF Counted
<1>6. IdentityOnce'
  BY DEF Proceed, Database, IdentityOnce
<1>7. BothOrNeither'
  BY DEF Proceed, Database, BothOrNeither
<1>8. TablesAreBounded'
  BY DEF Proceed, Database, TablesAreBounded, Rows
<1>9. HandedIsDurable'
  BY DEF Proceed, Database, HandedIsDurable, Rows
<1> QED  BY <1>1, <1>2, <1>3, <1>4, <1>5, <1>6, <1>7, <1>8, <1>9

(* A new proof row collides with no other.                                 *)
LEMMA InsertProofInv ==
  ASSUME NEW c \in Callers, pc[c] = "insert", req[c].kind # "issue",
         ~Repeats(req[c].claim),
         Proceed(c, [tx EXCEPT !.proofs = @ \cup {req[c].claim}], "commit"),
         ReplayTypeOK, ReplayInvariant
  PROVE  ReplayInvariant'
<1> USE ReplayConstants, RequestType, AdmittedType
<1> USE DEF ReplayTypeOK, ReplayInvariant, InTransaction
<1>1. Mutex'
  BY DEF Proceed, Repeats, Collide, Database, Mutex
<1>2. Extends'
  BY SMTT(60) DEF Proceed, Repeats, Collide, Database, Mutex, Extends, Rows
<1>3. Progress'
  BY DEF Proceed, Repeats, Collide, Database, Mutex, Progress, Proved, Extends
<1>4. SpentHaveProofs'
  <2>1. req[c].kind = "prove" => req[c].challenge = req[c].claim.challenge
    BY AdmittedFacts DEF Progress
  <2>2. tx'.spent = tx.spent /\ tx'.proofs = tx.proofs \cup {req[c].claim}
    BY DEF Proceed, Database
  <2>3. \A d \in Callers : pc[d] = "insert" => d = c
    BY DEF Mutex
  <2>4. db' = db
    BY DEF Proceed
  <2> QED  BY <2>1, <2>2, <2>3, <2>4, SMTT(60) DEF SpentHaveProofs, HasProof, Proved
<1>5. Counted'
  <2>1. tx'.proofs = tx.proofs \cup {req[c].claim}
    BY DEF Proceed, Database
  <2>2. /\ IsFiniteSet(tx.proofs \cup {req[c].claim})
        /\ Cardinality(tx.proofs \cup {req[c].claim}) <= Cardinality(tx.proofs) + 1
    BY AddOne, ZenonT(60) DEF Counted
  <2>3. Cardinality(tx.proofs) < Capacity
    BY FS_CardinalityType DEF Counted, Full
  <2>4. Rows(tx)' = Rows(tx)
    BY DEF Proceed, Rows, Database
  <2>5. \A d \in Callers : pc'[d] \notin {"claim", "insert"}
    BY DEF Proceed, Mutex
  <2>6. Cardinality(tx.proofs \cup {req[c].claim}) <= Capacity
    BY <2>2, <2>3, FS_CardinalityType DEF Counted
  <2> QED  BY <2>1, <2>2, <2>4, <2>5, <2>6 DEF Counted
<1>6. IdentityOnce'
  BY DEF Proceed, Repeats, Collide, Database, IdentityOnce
<1>7. BothOrNeither'
  BY DEF Proceed, Repeats, Collide, Database, BothOrNeither
<1>8. TablesAreBounded'
  BY DEF Proceed, Repeats, Collide, Database, TablesAreBounded, Rows
<1>9. HandedIsDurable'
  BY DEF Proceed, Repeats, Collide, Database, HandedIsDurable, Rows
<1> QED  BY <1>1, <1>2, <1>3, <1>4, <1>5, <1>6, <1>7, <1>8, <1>9

(* The commit publishes the transaction as a whole.                        *)
LEMMA CommitInv ==
  ASSUME NEW c \in Callers, Commit(c),
         ReplayTypeOK, ReplayInvariant
  PROVE  ReplayInvariant'
<1> USE ReplayConstants, RequestType, AdmittedType
<1> USE DEF ReplayTypeOK, ReplayInvariant, InTransaction
<1>1. Mutex'
  BY SMTT(60) DEF Commit, Mutex
<1>2. Extends'
  BY SMTT(60) DEF Commit, Mutex, Extends, Rows, Database
<1>3. Progress'
  <2>1. \A d \in Callers \ {c} : pc[d] \notin InTransaction
    BY DEF Commit, Mutex
  <2>2. /\ pc' = [pc EXCEPT ![c] = "return"]
        /\ db' = tx /\ tx' = tx /\ req' = req /\ returned' = returned
    BY SMTT(60) DEF Commit
  <2>3. db.proofs \subseteq tx.proofs /\ db.spent \subseteq tx.spent
    BY SMTT(60) DEF Extends
  <2>4. Rows(db) \subseteq Rows(tx)
    BY SMTT(60) DEF Extends, Rows
  <2>5. Proved(c) => returned[req[c].claim] = 0
    BY SMTT(60) DEF Commit, Progress, BothOrNeither
  <2>6. ASSUME NEW d \in Callers \ {c}, pc[d] = "return", Proved(d), Proved(c)
        PROVE  req[d].claim # req[c].claim
    BY <2>6, ZenonT(60) DEF Commit, Progress
  <2> QED  BY <2>1, <2>2, <2>3, <2>4, <2>5, <2>6, SMTT(60)
           DEF Commit, Progress, Proved, Rows
<1>4. SpentHaveProofs'
  BY SMTT(60) DEF Commit, Mutex, SpentHaveProofs, Progress, HasProof, Proved
<1>5. Counted'
  BY DEF Commit, Counted, Full, Mutex, Rows
<1>6. IdentityOnce'
  BY SMTT(60) DEF Commit, IdentityOnce
<1>7. BothOrNeither'
  <2>1. \A d \in Callers : pc[d] # "insert"
    BY SMTT(60) DEF Commit, Mutex
  <2>2. \A ch \in tx.spent : HasProof(tx, ch)
    BY <2>1, SMTT(60) DEF SpentHaveProofs
  <2> QED  BY <2>2, SMTT(60) DEF Commit, Extends, BothOrNeither, HasProof
<1>8. TablesAreBounded'
  BY SMTT(60) DEF Commit, Counted, TablesAreBounded, Rows
<1>9. HandedIsDurable'
  BY ZenonT(60) DEF Commit, Extends, HandedIsDurable, Rows
<1> QED  BY <1>1, <1>2, <1>3, <1>4, <1>5, <1>6, <1>7, <1>8, <1>9

(* Only what is committed is handed out.                                   *)
LEMMA ReturnInv ==
  ASSUME NEW c \in Callers, Return(c),
         ReplayTypeOK, ReplayInvariant
  PROVE  ReplayInvariant'
<1> USE ReplayConstants, RequestType, AdmittedType
<1> USE DEF ReplayTypeOK, ReplayInvariant, InTransaction
<1>1. Mutex'
  BY SMTT(60) DEF Return, Mutex
<1>2. Extends'
  BY ZenonT(60) DEF Return, Mutex, Extends, Rows
<1>3. Progress'
  BY SMTT(60) DEF Return, Mutex, Progress, Proved, Extends
<1>4. SpentHaveProofs'
  BY SMTT(60) DEF Return, Mutex, SpentHaveProofs, Progress, HasProof, Proved
<1>5. Counted'
  BY SMTT(60) DEF Return, Counted, Full, Mutex, Rows
<1>6. IdentityOnce'
  <2>1. CASE ~Proved(c)
    BY <2>1, SMTT(60) DEF Return, IdentityOnce, Proved, Progress
  <2>2. CASE Proved(c)
    <3> DEFINE p == req[c].claim
    <3>1. p \in Claims /\ p \in db.proofs /\ returned[p] = 0
      BY <2>2, SMTT(60) DEF Return, Progress
    <3>2. returned' = [returned EXCEPT ![p] = 1]
      BY <2>2, <3>1, SMTT(60) DEF Return, Proved
    <3>3. \A q \in Claims : returned'[q] > 0 => q \in db.proofs
      BY <3>1, <3>2, SMTT(60) DEF BothOrNeither
    <3>4. \A q, r \in db.proofs : Collide(q, r) => q = r
      BY SMTT(60) DEF Extends
    <3>5. \A q \in Claims : returned'[q] <= 1
      BY <3>1, <3>2, SMTT(60) DEF IdentityOnce
    <3> QED  BY <3>3, <3>4, <3>5, ZenonT(60) DEF IdentityOnce
  <2> QED  BY <2>1, <2>2, ZenonT(60)
<1>7. BothOrNeither'
  <2>1. req[c].kind = "prove" => req[c].challenge = req[c].claim.challenge
    BY AdmittedFacts, SMTT(60) DEF Return, Progress
  <2> QED  BY <2>1, ZenonT(60) DEF Return, BothOrNeither, Progress, Proved
<1>8. TablesAreBounded'
  BY ZenonT(60) DEF Return, TablesAreBounded, Rows
<1>9. HandedIsDurable'
  BY SMTT(60) DEF Return, HandedIsDurable, Progress, Rows
<1> QED  BY <1>1, <1>2, <1>3, <1>4, <1>5, <1>6, <1>7, <1>8, <1>9

(* A crash returns to the committed tables.                                *)
LEMMA CrashInv ==
  ASSUME Crash,
         ReplayTypeOK, ReplayInvariant
  PROVE  ReplayInvariant'
<1> USE ReplayConstants, RequestType, AdmittedType
<1> USE DEF ReplayTypeOK, ReplayInvariant, InTransaction
<1>1. Mutex'
  BY SMTT(60) DEF Crash, Mutex
<1>2. Extends'
  BY SMTT(60) DEF Crash, Mutex, Extends, Rows, Database
<1>3. Progress'
  BY ZenonT(60) DEF Crash, Mutex, Progress, Proved, Extends
<1>4. SpentHaveProofs'
  BY SMTT(60) DEF Crash, Mutex, SpentHaveProofs, Progress, HasProof, Proved
<1>5. Counted'
  <2>1. Rows(db) \subseteq Rows(tx) /\ db.proofs \subseteq tx.proofs
    BY SMTT(60) DEF Extends, Rows
  <2>2. IsFiniteSet(Rows(db)) /\ IsFiniteSet(db.proofs)
    BY <2>1, FS_Subset, SMTT(60) DEF Counted
  <2>3. Rows(tx)' = Rows(db) /\ tx'.proofs = db.proofs
    BY SMTT(60) DEF Crash, Rows
  <2>4. \A d \in Callers : pc'[d] \notin {"claim", "insert"}
    BY SMTT(60) DEF Crash
  <2> QED  BY <2>2, <2>3, <2>4, SMTT(60) DEF Counted, TablesAreBounded
<1>6. IdentityOnce'
  BY DEF Crash, IdentityOnce
<1>7. BothOrNeither'
  BY SMTT(60) DEF Crash, BothOrNeither
<1>8. TablesAreBounded'
  BY SMTT(60) DEF Crash, TablesAreBounded, Rows
<1>9. HandedIsDurable'
  BY DEF Crash, HandedIsDurable, Rows
<1> QED  BY <1>1, <1>2, <1>3, <1>4, <1>5, <1>6, <1>7, <1>8, <1>9, ZenonT(60)


(* Every step keeps the inductive invariant.                              *)
LEMMA InvStep ==
  ReplayTypeOK /\ ReplayInvariant /\ [Next]_vars => ReplayInvariant'
<1> SUFFICES ASSUME ReplayTypeOK, ReplayInvariant, [Next]_vars
             PROVE  ReplayInvariant'
  BY ZenonT(60)
<1>0. CASE UNCHANGED vars
  <2>1. /\ db' = db /\ tx' = tx /\ holder' = holder /\ pc' = pc /\ req' = req
        /\ returned' = returned /\ handed' = handed
    BY <1>0, Zenon DEF vars
  <2>2. Mutex' /\ Extends' /\ TablesAreBounded'
    BY <2>1, ZenonT(60)
       DEF ReplayInvariant, Mutex, Extends, TablesAreBounded, Rows
  <2>3. Progress'
    BY <2>1, ZenonT(60) DEF ReplayInvariant, Progress, Proved, Rows
  <2>4. SpentHaveProofs' /\ Counted'
    <3>1. SpentHaveProofs'
      BY <2>1, ZenonT(60) DEF ReplayInvariant, SpentHaveProofs, HasProof, Proved
    <3>2. Counted'
      BY <2>1, ZenonT(60) DEF ReplayInvariant, Counted, Full, Rows
    <3> QED  BY <3>1, <3>2, Zenon
  <2>5. IdentityOnce' /\ BothOrNeither' /\ HandedIsDurable'
    BY <2>1, ZenonT(60) DEF ReplayInvariant, IdentityOnce, BothOrNeither,
       HandedIsDurable, HasProof, Proved, Rows
  <2> QED  BY <2>2, <2>3, <2>4, <2>5, Zenon DEF ReplayInvariant
<1>1. ASSUME NEW c \in Callers, RequireNondecreasingLocalClock(c)
      PROVE  ReplayInvariant'
  BY <1>1, ClockInv, RollbackInv, ZenonT(60)
     DEF RequireNondecreasingLocalClock, InTransaction
<1>2. ASSUME NEW c \in Callers, Count(c) PROVE ReplayInvariant'
  BY <1>2, CountInv, RollbackInv DEF Count, InTransaction
<1>3. ASSUME NEW c \in Callers, Claim(c) PROVE ReplayInvariant'
  BY <1>3, ClaimInv, RollbackInv, SMTT(60) DEF Claim, InTransaction
<1>4. ASSUME NEW c \in Callers, InsertChallenge(c) PROVE ReplayInvariant'
  BY <1>4, InsertChallengeInv, RollbackInv, ZenonT(60) DEF InsertChallenge, InTransaction
<1>5. ASSUME NEW c \in Callers, InsertProof(c) PROVE ReplayInvariant'
  BY <1>5, InsertProofInv, RollbackInv DEF InsertProof, InTransaction
<1>6. ASSUME NEW c \in Callers, StatementFails(c) PROVE ReplayInvariant'
  BY <1>6, RollbackInv, SMTT(60) DEF StatementFails
<1> QED
  BY <1>0, <1>1, <1>2, <1>3, <1>4, <1>5, <1>6, BeginInv, LockInv, CommitInv,
     ReturnInv, CrashInv, SMTT(60) DEF Next, Step

(* A migrated database satisfies the invariant.                           *)
LEMMA InitFacts == Init => ReplayTypeOK /\ ReplayInvariant
<1> SUFFICES ASSUME Init PROVE ReplayTypeOK /\ ReplayInvariant
  BY SMTT(60)
<1> USE ReplayConstants
<1>1. PICK spent \in SUBSET OldChallenges, channel \in Channels :
        \E h \in Expiries(Old(spent, channel, 0)) :
          db = Old(spent, channel, h)
  BY SMTT(60) DEF Init
<1>2. PICK h \in Expiries(Old(spent, channel, 0)) :
        db = Old(spent, channel, h)
  BY <1>1, SMTT(60)
<1>3. h \in Nat
  BY <1>2, SMTT(60) DEF Expiries, Old, Rows
<1>4. db \in Database
  BY <1>2, <1>3, SMTT(60) DEF Old, Database
<1>5. ReplayTypeOK
  BY <1>4, NoRequestType, SMTT(60) DEF Init, ReplayTypeOK, Steps
<1>6. Rows(db) = OldChallenges /\ db.proofs \subseteq OldProofs
  BY <1>2, SMTT(60) DEF Old, Rows
<1>7. /\ IsFiniteSet(Rows(db)) /\ IsFiniteSet(db.proofs)
      /\ Cardinality(Rows(db)) <= Capacity
      /\ Cardinality(db.proofs) <= Capacity
  <2>1. /\ IsFiniteSet(db.proofs)
        /\ Cardinality(db.proofs) <= Cardinality(OldProofs)
    BY <1>6, FS_Subset, SMTT(60)
  <2>2. Cardinality(db.proofs) \in Nat /\ Cardinality(OldProofs) \in Nat
    BY <2>1, FS_CardinalityType, SMTT(60)
  <2> QED  BY <1>6, <2>1, <2>2, SMTT(60)
<1>8. \A ch \in db.spent : HasProof(db, ch)
  BY <1>2, SMTT(60) DEF Old, HasProof
<1>9. /\ tx = db /\ holder = NoCaller /\ handed = {}
      /\ pc = [c \in Callers |-> "idle"]
      /\ returned = [p \in Claims |-> 0]
  BY SMTT(60) DEF Init
<1>10. \A p, q \in db.proofs : Collide(p, q) => p = q
  BY <1>6, SMTT(60)
<1>11. Mutex /\ Extends
  BY <1>4, <1>9, <1>10, SMTT(60) DEF Mutex, Extends, Database, InTransaction
<1>12. Progress
  BY <1>9, ZenonT(60) DEF Progress, InTransaction
<1>13. SpentHaveProofs /\ Counted
  BY <1>7, <1>8, <1>9, SMTT(60) DEF SpentHaveProofs, Counted
<1>14. IdentityOnce /\ BothOrNeither /\ TablesAreBounded /\ HandedIsDurable
  BY <1>7, <1>8, <1>9 DEF IdentityOnce, BothOrNeither, TablesAreBounded,
     HandedIsDurable, HasProof
<1> QED  BY <1>5, <1>11, <1>12, <1>13, <1>14 DEF ReplayInvariant

-----------------------------------------------------------------------------
(* Only the holder is inside a transaction.                                *)
LEMMA OneInside ==
  ASSUME ReplayInvariant, NEW c \in Callers, NEW d \in Callers,
         pc[c] \in InTransaction, pc[d] \in InTransaction
  PROVE  d = c
BY DEF ReplayInvariant, Mutex

(* A statement that succeeds at caller c leaves the committed tables and   *)
(* every other caller alone, so that only c's own writes need following.   *)
LEMMA ProceedFrame ==
  ASSUME ReplayTypeOK, ReplayInvariant, NEW c \in Callers, NEW d, NEW step,
         Proceed(c, d, step), pc[c] \in InTransaction
  PROVE  /\ db' = db /\ req' = req /\ tx' = d
         /\ pc'[c] = step
         /\ Written(c)' /\ Found(c)' => ExactTransaction'
<1>1. /\ db' = db /\ req' = req /\ tx' = d /\ pc'[c] = step
      /\ \A e \in Callers \ {c} : pc'[e] = pc[e]
  BY DEF Proceed, ReplayTypeOK
<1>2. \A e \in Callers : pc'[e] \in InTransaction => e = c
  BY <1>1, OneInside, Zenon
<1> QED  BY <1>1, <1>2, Zenon DEF ExactTransaction

(* With nobody inside a transaction nothing is written.                    *)
LEMMA NobodyInside ==
  ASSUME \A e \in Callers : pc'[e] \notin InTransaction
  PROVE  ExactTransaction'
BY Zenon DEF ExactTransaction

(* A rollback leaves nobody inside.                                        *)
LEMMA RollbackExact ==
  ASSUME ReplayTypeOK, ReplayInvariant, NEW c \in Callers, Rollback(c),
         pc[c] \in InTransaction
  PROVE  ExactTransaction'
<1>1. \A e \in Callers : pc'[e] \notin InTransaction
  BY OneInside DEF Rollback, ReplayTypeOK, InTransaction
<1> QED  BY <1>1, NobodyInside, Zenon

(* The clock statement dates the transaction, and found no later date.     *)
LEMMA ClockExact ==
  ASSUME ReplayTypeOK, ReplayInvariant, ExactTransaction,
         NEW c \in Callers, pc[c] = "clock", tx.hw <= req[c].now,
         Proceed(c, [tx EXCEPT !.hw = req[c].now], "count")
  PROVE  ExactTransaction'
<1>1. pc[c] \in InTransaction
  BY Zenon DEF InTransaction
<1>2. /\ db' = db /\ req' = req /\ tx' = [tx EXCEPT !.hw = req[c].now]
      /\ pc'[c] = "count" /\ (Written(c)' /\ Found(c)' => ExactTransaction')
  BY <1>1, ProceedFrame, Zenon
<1>3. Written(c)
  BY <1>1, Zenon DEF ExactTransaction
<1>4. tx'.hw = req[c].now /\ tx'.issued = tx.issued /\ tx'.channel = tx.channel
      /\ tx'.spent = tx.spent /\ tx'.proofs = tx.proofs
  BY <1>2 DEF ReplayTypeOK, Database
<1>5. Written(c)'
  BY <1>2, <1>3, <1>4 DEF Written
<1>6. Found(c)'
  BY <1>2, <1>3 DEF Found, Written
<1> QED  BY <1>2, <1>5, <1>6, Zenon

(* The count is of a committed table.                                      *)
LEMMA CountExact ==
  ASSUME ReplayTypeOK, ReplayInvariant, ExactTransaction,
         NEW c \in Callers, pc[c] = "count", ~Full(req[c]),
         Proceed(c, tx, IF req[c].kind = "prove" THEN "claim" ELSE "insert")
  PROVE  ExactTransaction'
<1>1. pc[c] \in InTransaction
  BY Zenon DEF InTransaction
<1>2. /\ db' = db /\ req' = req /\ tx' = tx
      /\ pc'[c] = IF req[c].kind = "prove" THEN "claim" ELSE "insert"
      /\ (Written(c)' /\ Found(c)' => ExactTransaction')
  BY <1>1, ProceedFrame, Zenon
<1>3. Written(c) /\ Found(c)
  BY <1>1, Zenon DEF ExactTransaction
<1>4. tx.issued = db.issued /\ tx.proofs = db.proofs
  BY <1>3, ZenonT(60) DEF Written
<1>5. IF req[c].kind = "issue" THEN Cardinality(Rows(db)) < Capacity
                               ELSE Cardinality(db.proofs) < Capacity
  <2>1. Rows(tx) = Rows(db)
    BY <1>4, Zenon DEF Rows
  <2>2. Cardinality(Rows(tx)) \in Nat /\ Cardinality(tx.proofs) \in Nat
    BY FS_CardinalityType, ZenonT(60) DEF ReplayInvariant, Counted
  <2> QED  BY <1>4, <2>1, <2>2, ReplayConstants DEF Full
<1>6. Written(c)'
  BY <1>2, <1>3, SMTT(60) DEF Written, Proved
<1>7. Found(c)'
  BY <1>2, <1>3, <1>5, ZenonT(60) DEF Found, Proved, Rows
<1> QED  BY <1>2, <1>6, <1>7, Zenon

(* The claim finds the challenge as the request describes it, unspent in   *)
(* the committed table.                                                    *)
LEMMA ClaimExact ==
  ASSUME ReplayTypeOK, ReplayInvariant, ExactTransaction,
         NEW c \in Callers, pc[c] = "claim", Claimable(req[c]),
         Proceed(c, [tx EXCEPT !.spent = @ \cup {req[c].challenge}], "insert")
  PROVE  ExactTransaction'
<1>1. pc[c] \in InTransaction
  BY Zenon DEF InTransaction
<1>2. /\ db' = db /\ req' = req
      /\ tx' = [tx EXCEPT !.spent = @ \cup {req[c].challenge}]
      /\ pc'[c] = "insert" /\ (Written(c)' /\ Found(c)' => ExactTransaction')
  BY <1>1, ProceedFrame, Zenon
<1>3. Written(c) /\ Found(c) /\ Proved(c)
  BY <1>1, Zenon DEF ExactTransaction, ReplayInvariant, Progress
<1>4. /\ tx'.hw = tx.hw /\ tx'.issued = tx.issued /\ tx'.channel = tx.channel
      /\ tx'.spent = tx.spent \cup {req[c].challenge} /\ tx'.proofs = tx.proofs
  BY <1>2 DEF ReplayTypeOK, Database
<1>5. Written(c)'
  BY <1>2, <1>3, <1>4 DEF Written, Proved
<1>6. Found(c)'
  <2>1. /\ tx.issued = db.issued /\ tx.channel = db.channel
        /\ tx.spent = db.spent
    BY <1>3 DEF Written
  <2> QED  BY <1>2, <1>3, <2>1 DEF Found, Claimable, Proved, Rows
<1> QED  BY <1>2, <1>5, <1>6, Zenon

(* The challenge is new to the committed table.                            *)
LEMMA InsertChallengeExact ==
  ASSUME ReplayTypeOK, ReplayInvariant, ExactTransaction,
         NEW c \in Callers, pc[c] = "insert", req[c].kind = "issue",
         req[c].challenge \notin Rows(tx),
         Proceed(c, [tx EXCEPT !.issued[req[c].challenge] = req[c].now,
                               !.channel[req[c].challenge] = req[c].channel],
                 "commit")
  PROVE  ExactTransaction'
<1>1. pc[c] \in InTransaction
  BY Zenon DEF InTransaction
<1>2. /\ db' = db /\ req' = req
      /\ tx' = [tx EXCEPT !.issued[req[c].challenge] = req[c].now,
                          !.channel[req[c].challenge] = req[c].channel]
      /\ pc'[c] = "commit" /\ (Written(c)' /\ Found(c)' => ExactTransaction')
  BY <1>1, ProceedFrame, Zenon
<1>3. Written(c) /\ Found(c)
  BY <1>1, Zenon DEF ExactTransaction
<1>4. /\ tx'.hw = tx.hw /\ tx'.spent = tx.spent /\ tx'.proofs = tx.proofs
      /\ tx'.issued = [tx.issued EXCEPT ![req[c].challenge] = req[c].now]
      /\ tx'.channel = [tx.channel EXCEPT ![req[c].challenge] = req[c].channel]
  BY <1>2 DEF ReplayTypeOK, Database
<1>5. Written(c)'
  BY <1>2, <1>3, <1>4 DEF Written, Proved
<1>6. Found(c)'
  <2>1. Rows(tx) = Rows(db)
    BY <1>3 DEF Written, Rows
  <2> QED  BY <1>2, <1>3, <2>1 DEF Found, Proved, Rows
<1> QED  BY <1>2, <1>5, <1>6, Zenon

(* The proof collides with no committed one.                               *)
LEMMA InsertProofExact ==
  ASSUME ReplayTypeOK, ReplayInvariant, ExactTransaction,
         NEW c \in Callers, pc[c] = "insert", req[c].kind # "issue",
         ~Repeats(req[c].claim),
         Proceed(c, [tx EXCEPT !.proofs = @ \cup {req[c].claim}], "commit")
  PROVE  ExactTransaction'
<1>1. pc[c] \in InTransaction /\ req[c].kind \in {"prove", "legacy"}
  BY DEF InTransaction, ReplayTypeOK, Requests
<1>2. /\ db' = db /\ req' = req
      /\ tx' = [tx EXCEPT !.proofs = @ \cup {req[c].claim}]
      /\ pc'[c] = "commit" /\ (Written(c)' /\ Found(c)' => ExactTransaction')
  BY <1>1, ProceedFrame, Zenon
<1>3. Written(c) /\ Found(c)
  BY <1>1, Zenon DEF ExactTransaction
<1>4. /\ tx'.hw = tx.hw /\ tx'.issued = tx.issued /\ tx'.channel = tx.channel
      /\ tx'.spent = tx.spent /\ tx'.proofs = tx.proofs \cup {req[c].claim}
  BY <1>2 DEF ReplayTypeOK, Database
<1>5. Written(c)'
  BY <1>1, <1>2, <1>3, <1>4 DEF Written, Proved
<1>6. Found(c)'
  <2>1. tx.proofs = db.proofs
    BY <1>3 DEF Written
  <2>2. \A q \in db.proofs : ~Collide(req[c].claim, q)
    BY <2>1, Zenon DEF Repeats
  <2> QED  BY <1>1, <1>2, <1>3, <2>2 DEF Found, Proved, Rows
<1> QED  BY <1>2, <1>5, <1>6, Zenon

(* BEGIN IMMEDIATE sees the committed tables.                              *)
LEMMA LockExact ==
  ASSUME ReplayTypeOK, ReplayInvariant, NEW c \in Callers, Lock(c)
  PROVE  ExactTransaction'
<1>1. tx = db /\ \A e \in Callers : pc[e] \notin InTransaction
  BY ReplayConstants DEF Lock, ReplayInvariant, Mutex
<1>2. /\ pc'[c] = "clock" /\ \A e \in Callers \ {c} : pc'[e] = pc[e]
      /\ tx' = tx /\ db' = db
  BY DEF Lock, ReplayTypeOK
<1>3. \A e \in Callers : pc'[e] \in InTransaction => e = c
  BY <1>1, <1>2, Zenon
<1>4. Written(c)' /\ Found(c)'
  BY <1>1, <1>2, Zenon DEF Written, Found
<1> QED  BY <1>3, <1>4, ZenonT(60) DEF ExactTransaction

(* The steps outside a transaction, and those that end one.                *)
LEMMA OutsideExact ==
  ASSUME ReplayTypeOK, ReplayInvariant, ExactTransaction, NEW c \in Callers,
         (\E r \in Admitted : Begin(c, r)) \/ Commit(c) \/ Return(c)
  PROVE  ExactTransaction'
<1>1. CASE Commit(c)
  <2>1. \A e \in Callers : pc'[e] \notin InTransaction
    BY <1>1, OneInside DEF Commit, ReplayTypeOK, InTransaction
  <2> QED  BY <2>1, NobodyInside, Zenon
<1>2. CASE (\E r \in Admitted : Begin(c, r)) \/ Return(c)
  <2>1. /\ db' = db /\ tx' = tx /\ pc'[c] \notin InTransaction
        /\ \A e \in Callers \ {c} : pc'[e] = pc[e] /\ req'[e] = req[e]
    BY <1>2, ZenonT(60) DEF Begin, Return, ReplayTypeOK, InTransaction
  <2>2. ASSUME NEW e \in Callers, pc'[e] \in InTransaction
        PROVE  Written(e)' /\ Found(e)'
    <3>1. pc'[e] = pc[e] /\ req'[e] = req[e]
      BY <2>1, <2>2, Zenon
    <3>2. Written(e) /\ Found(e)
      BY <2>2, <3>1, Zenon DEF ExactTransaction
    <3> QED  BY <2>1, <3>1, <3>2, ZenonT(60) DEF Written, Found, Proved, Rows
  <2> QED  BY <2>2, Zenon DEF ExactTransaction
<1> QED  BY <1>1, <1>2, Zenon

(* Every step keeps the contents of the open transaction exact.            *)
LEMMA ExactStep ==
  ASSUME ReplayTypeOK, ReplayInvariant, ExactTransaction, [Next]_vars
  PROVE  ExactTransaction'
<1>0. CASE UNCHANGED vars
  BY <1>0, Zenon DEF vars, ExactTransaction, Written, Found, Proved, Rows
<1>1. CASE Crash
  <2>1. \A e \in Callers : pc'[e] \notin InTransaction
    BY <1>1 DEF Crash, InTransaction
  <2> QED  BY <2>1, NobodyInside, Zenon
<1>2. ASSUME NEW c \in Callers, Step(c) PROVE ExactTransaction'
  <2>1. CASE RequireNondecreasingLocalClock(c)
    BY <2>1, ClockExact, RollbackExact, Zenon
       DEF RequireNondecreasingLocalClock, InTransaction
  <2>2. CASE Count(c)
    BY <2>2, CountExact, RollbackExact, Zenon DEF Count, InTransaction
  <2>3. CASE Claim(c)
    BY <2>3, ClaimExact, RollbackExact, Zenon DEF Claim, InTransaction
  <2>4. CASE InsertChallenge(c)
    BY <2>4, InsertChallengeExact, RollbackExact, Zenon
       DEF InsertChallenge, InTransaction
  <2>5. CASE InsertProof(c)
    BY <2>5, InsertProofExact, RollbackExact, Zenon DEF InsertProof, InTransaction
  <2> QED
    BY <1>2, <2>1, <2>2, <2>3, <2>4, <2>5, LockExact, OutsideExact, Zenon DEF Step
<1>3. ASSUME NEW c \in Callers, StatementFails(c) PROVE ExactTransaction'
  BY <1>3, RollbackExact, Zenon DEF StatementFails
<1> QED  BY <1>0, <1>1, <1>2, <1>3, OutsideExact, ZenonT(60) DEF Next

-----------------------------------------------------------------------------
(* Types, for every instance.                                             *)
THEOREM TypeCorrect == Spec => []ReplayTypeOK
BY InitFacts, TypeStep, PTL DEF Spec

(* One transaction at a time, which only adds to the committed tables:    *)
(* the inductive invariant of the store, for every instance.              *)
THEOREM InvariantHolds == Spec => []ReplayInvariant
BY TypeCorrect, InitFacts, InvStep, PTL DEF Spec

(* verify_and_consume_actor_assertion never turns one assertion, or two   *)
(* that share a replay dimension, into two identities: for any number of  *)
(* callers, crashes and clock jumps.                                      *)
THEOREM IdentitiesAreUnique == Spec => []IdentityOnce
<1>1. ReplayInvariant => IdentityOnce
  BY DEF ReplayInvariant
<1> QED  BY <1>1, InvariantHolds, PTL

(* A challenge and its proof are consumed together or not at all.         *)
THEOREM ConsumptionIsAtomic == Spec => []BothOrNeither
<1>1. ReplayInvariant => BothOrNeither
  BY DEF ReplayInvariant
<1> QED  BY <1>1, InvariantHolds, PTL

(* Neither table outgrows its fixed size.                                 *)
THEOREM TablesStayBounded == Spec => []TablesAreBounded
<1>1. ReplayInvariant => TablesAreBounded
  BY DEF ReplayInvariant
<1> QED  BY <1>1, InvariantHolds, PTL

(* issue_gateway_challenge hands out only what is already durable.        *)
THEOREM ChallengesAreDurable == Spec => []HandedIsDurable
<1>1. ReplayInvariant => HandedIsDurable
  BY SMTT(60) DEF ReplayInvariant
<1> QED  BY <1>1, InvariantHolds, PTL

(* Only a commit changes the committed tables.                            *)
LEMMA CommitOnly ==
  ASSUME [Next]_vars
  PROVE  db' = db \/ db' = tx
BY ZenonT(60) DEF Next, Step, vars, Begin, Lock, RequireNondecreasingLocalClock, Proceed,
   Rollback, Count, Claim, InsertChallenge, InsertProof, Commit, Return,
   StatementFails, Crash

(* The store forgets nothing and its clock never runs backwards.          *)
THEOREM EvidenceHolds == Spec => EvidenceIsKept
<1>1. ReplayTypeOK /\ ReplayInvariant /\ [Next]_vars => [Keeps]_vars
  BY CommitOnly, SMTT(60) DEF ReplayTypeOK, ReplayInvariant, Extends, Keeps, Database
<1> QED  BY <1>1, TypeCorrect, InvariantHolds, PTL DEF Spec, EvidenceIsKept

(* No challenge is consumed once the store's clock has passed its expiry. *)
THEOREM ExpiryHolds == Spec => ExpiredStaysExpired
<1>1. ReplayTypeOK /\ ReplayInvariant /\ [Next]_vars => [InTime]_vars
  BY CommitOnly DEF ReplayTypeOK, ReplayInvariant, Extends, InTime
<1> QED  BY <1>1, TypeCorrect, InvariantHolds, PTL
         DEF Spec, ExpiredStaysExpired

-----------------------------------------------------------------------------
(* The abstract store's challenges are the committed rows.                 *)
LEMMA StoreKnown == Store!Known = Rows(db)
BY Zenon DEF Store!Known, Rows

(* And it counts rows as the detailed store does.                          *)
LEMMA StoreCardinality == \A S : Store!Cardinality(S) = Cardinality(S)
BY Zenon DEF Store!Cardinality, Cardinality, Store!IsFiniteSet, IsFiniteSet

(* Nothing is owed or settled while no caller enters or leaves its return. *)
LEMMA OwedFrame ==
  ASSUME \A e \in Callers :
           /\ (pc'[e] = "return" /\ Proved(e)') <=> (pc[e] = "return" /\ Proved(e))
           /\ pc[e] = "return" /\ Proved(e) => req'[e].claim = req[e].claim
  PROVE  Owed' = Owed
BY Zenon DEF Owed

(* What the abstract store sees of a step that neither commits nor         *)
(* returns: nothing.                                                       *)
LEMMA Unseen ==
  ASSUME db' = db, returned' = returned, handed' = handed, Owed' = Owed
  PROVE  UNCHANGED Store!vars
BY Zenon DEF Store!vars, Store!tables, Store!answers

(* A request begins, takes the mutex, runs a statement or is rolled back.  *)
LEMMA QuietStep ==
  ASSUME ReplayTypeOK, NEW c \in Callers,
         \/ \E r \in Admitted : Begin(c, r)
         \/ Lock(c)
         \/ pc[c] \in InTransaction /\ Rollback(c)
         \/ \E d, step : /\ pc[c] \in InTransaction /\ step # "return"
                         /\ Proceed(c, d, step)
  PROVE  UNCHANGED Store!vars
<1>1. /\ db' = db /\ returned' = returned /\ handed' = handed
      /\ pc[c] # "return" /\ pc'[c] # "return"
      /\ \A e \in Callers \ {c} : pc'[e] = pc[e] /\ req'[e] = req[e]
  <2>1. ASSUME NEW r \in Admitted, Begin(c, r) PROVE <1>1
    BY <2>1 DEF Begin, ReplayTypeOK
  <2>2. CASE Lock(c)
    BY <2>2 DEF Lock, ReplayTypeOK
  <2>3. CASE pc[c] \in InTransaction /\ Rollback(c)
    BY <2>3 DEF Rollback, ReplayTypeOK, InTransaction
  <2>4. ASSUME NEW d, NEW step, pc[c] \in InTransaction, step # "return",
               Proceed(c, d, step)
        PROVE  <1>1
    BY <2>4 DEF Proceed, ReplayTypeOK, InTransaction
  <2> QED  BY <2>1, <2>2, <2>3, <2>4, Zenon
<1>2. Owed' = Owed
  BY <1>1, OwedFrame, Zenon DEF Proved
<1> QED  BY <1>1, <1>2, Unseen, Zenon

(* What a commit adds to the identities owed.                              *)
LEMMA CommitOwes ==
  ASSUME ReplayTypeOK, NEW c \in Callers, Commit(c)
  PROVE  /\ Proved(c) => Owed' = Owed \cup {req[c].claim}
         /\ ~Proved(c) => Owed' = Owed
<1>1. /\ req' = req /\ pc[c] # "return" /\ pc'[c] = "return"
      /\ \A e \in Callers \ {c} : pc'[e] = pc[e]
  BY DEF Commit, ReplayTypeOK
<1>2. CASE Proved(c)
  BY <1>1, <1>2 DEF Owed, Proved
<1>3. CASE ~Proved(c)
  BY <1>1, <1>3, OwedFrame, ZenonT(60) DEF Proved
<1> QED  BY <1>2, <1>3, Zenon

(* The facts a commit rests on, about the committed tables.                *)
LEMMA CommitFacts ==
  ASSUME ReplayTypeOK, ReplayInvariant, ExactTransaction,
         NEW c \in Callers, Commit(c)
  PROVE  /\ Written(c) /\ Found(c) /\ db' = tx
         /\ returned' = returned /\ handed' = handed
         /\ req[c] \in Admitted /\ req[c] \in Requests
BY AdmittedType DEF Commit, ExactTransaction, InTransaction, ReplayInvariant, Progress

(* A commit of register_actor_challenge is one registration.               *)
LEMMA CommitRegisters ==
  ASSUME ReplayTypeOK, ReplayInvariant, ExactTransaction,
         NEW c \in Callers, Commit(c), req[c].kind = "issue"
  PROVE  Store!Register(req[c].challenge, req[c].channel, req[c].now)
<1> DEFINE r == req[c]
<1>1. /\ Written(c) /\ Found(c) /\ db' = tx /\ pc[c] = "commit"
      /\ returned' = returned /\ handed' = handed /\ r \in Admitted
  BY CommitFacts, ZenonT(60) DEF Commit
<1>2. /\ db'.hw = r.now
      /\ db'.issued = [db.issued EXCEPT ![r.challenge] = r.now]
      /\ db'.channel = [db.channel EXCEPT ![r.challenge] = r.channel]
      /\ db'.spent = db.spent /\ db'.proofs = db.proofs
  BY <1>1, ZenonT(60) DEF Written, Proved
<1>3. /\ db.hw <= r.now /\ r.challenge \notin Rows(db)
      /\ Cardinality(Rows(db)) < Capacity
  BY <1>1 DEF Found
<1>4. r.now > 0
  BY <1>1, AdmittedFacts, Zenon
<1>5. Owed' = Owed
  BY CommitOwes DEF Proved
<1> QED  BY <1>1, <1>2, <1>3, <1>4, <1>5, StoreKnown, StoreCardinality, Zenon
         DEF Store!Register, Store!Seen, Store!Room, Store!answers

(* A commit of either consuming call records its proof.                    *)
LEMMA CommitRecords ==
  ASSUME ReplayTypeOK, ReplayInvariant, ExactTransaction,
         NEW c \in Callers, Commit(c), req[c].kind # "issue"
  PROVE  Store!Record(req[c].claim, req[c].now)
<1> DEFINE r == req[c]
<1>1. /\ Written(c) /\ Found(c) /\ db' = tx /\ pc[c] = "commit"
      /\ returned' = returned /\ handed' = handed /\ r \in Admitted
      /\ r \in Requests
  BY CommitFacts, ZenonT(60) DEF Commit
<1>2. r.kind \in {"prove", "legacy"}
  BY <1>1, ZenonT(60) DEF Requests
<1>3. /\ db'.hw = r.now
      /\ db'.issued = db.issued /\ db'.channel = db.channel
      /\ db'.proofs = db.proofs \cup {r.claim}
  BY <1>1, <1>2, ZenonT(60) DEF Written
<1>4. /\ db.hw <= r.now /\ Cardinality(db.proofs) < Capacity
      /\ \A q \in db.proofs : ~Collide(r.claim, q)
  BY <1>1, <1>2 DEF Found
<1>5. r.now <= r.claim.expires
  <2>1. r.claim.expires >= r.now
    BY <1>1, <1>2, ZenonT(60) DEF Admitted, Admissible, Fresh
  <2>2. r.now \in Nat /\ r.claim.expires \in Nat
    BY <1>1, RequestType, ReplayConstants
  <2> QED  BY <2>1, <2>2
<1> QED  BY <1>1, <1>3, <1>4, <1>5, StoreCardinality, Zenon
         DEF Store!Record, Store!Seen, Store!Room

(* A commit of consume_issued_actor_proof spends a challenge of its        *)
(* channel in time, and one of consume_actor_proof only reserves.          *)
LEMMA CommitConsumes ==
  ASSUME ReplayTypeOK, ReplayInvariant, ExactTransaction,
         NEW c \in Callers, Commit(c), req[c].kind # "issue"
  PROVE  \/ Store!Consume(req[c].claim, req[c].channel, req[c].now)
         \/ Store!Reserve(req[c].claim, req[c].now)
<1> DEFINE r == req[c]
<1>1. /\ Written(c) /\ Found(c) /\ db' = tx /\ pc[c] = "commit" /\ r \in Admitted
      /\ r \in Requests
  BY CommitFacts, ZenonT(60) DEF Commit
<1>2. Store!Record(r.claim, r.now)
  BY CommitRecords
<1>3. CASE Proved(c)
  <2>1. /\ db.issued[r.challenge] = r.issued /\ db.channel[r.challenge] = r.channel
        /\ r.challenge \notin db.spent
    BY <1>1, <1>3 DEF Found
  <2>2. /\ r.challenge = r.claim.challenge /\ r.issued > 0
        /\ r.issued <= r.now /\ r.now <= r.issued + Lifetime
    BY <1>1, <1>3, Zenon DEF Admitted, Admissible, Proved
  <2>3. r.challenge \in Rows(db)
    BY <1>1, <2>1, <2>2, RequestType, SMTT(60) DEF Rows
  <2>4. db'.spent = db.spent \cup {r.challenge}
    BY <1>1, <1>3 DEF Written
  <2>5. Owed' = Owed \cup {r.claim}
    BY <1>3, CommitOwes, Zenon
  <2> QED  BY <1>2, <2>1, <2>2, <2>3, <2>4, <2>5, StoreKnown, Zenon
           DEF Store!Consume
<1>4. CASE ~Proved(c)
  <2>1. db'.spent = db.spent
    BY <1>1, <1>4 DEF Written
  <2>2. Owed' = Owed
    BY <1>4, CommitOwes, Zenon
  <2> QED  BY <1>2, <2>1, <2>2, Zenon DEF Store!Reserve
<1> QED  BY <1>3, <1>4, Zenon

(* Every commit is one step of the abstract store.                         *)
LEMMA CommitIsStep ==
  ASSUME ReplayTypeOK, ReplayInvariant, ExactTransaction,
         NEW c \in Callers, Commit(c)
  PROVE  Store!Next
<1>1. /\ req[c].claim \in Claims /\ req[c].challenge \in Challenges
      /\ req[c].channel \in Channels /\ req[c].now \in Times
  BY DEF ReplayTypeOK, Requests
<1>2. CASE req[c].kind = "issue"
  BY <1>1, <1>2, CommitRegisters, Zenon DEF Store!Next
<1>3. CASE req[c].kind # "issue"
  BY <1>1, <1>3, CommitConsumes, Zenon DEF Store!Next
<1> QED  BY <1>2, <1>3, Zenon

(* A caller's return settles the one identity it is owed, hands out a      *)
(* durable challenge, or shows nothing.                                    *)
LEMMA ReturnIsStep ==
  ASSUME ReplayTypeOK, ReplayInvariant, NEW c \in Callers, Return(c)
  PROVE  [Store!Next]_(Store!vars)
<1> DEFINE r == req[c]
<1>1. /\ pc[c] = "return" /\ pc'[c] = "idle" /\ db' = db
      /\ \A e \in Callers \ {c} : pc'[e] = pc[e] /\ req'[e] = req[e]
      /\ r.claim \in Claims /\ r.challenge \in Challenges
      /\ r.kind \in {"issue", "prove", "legacy"}
  BY DEF Return, ReplayTypeOK, Requests
<1>2. CASE Proved(c)
  <2>1. \A e \in Callers \ {c} :
          pc[e] = "return" /\ Proved(e) => req[e].claim # r.claim
    BY <1>1, <1>2, Zenon DEF ReplayInvariant, Progress
  <2>2. r.claim \in Owed
    BY <1>1, <1>2, Zenon DEF Owed
  <2>3. Owed' = Owed \ {r.claim}
    BY <1>1, <1>2, <2>1, ZenonT(60) DEF Owed, Proved
  <2>4. returned' = [returned EXCEPT ![r.claim] = @ + 1] /\ handed' = handed
    BY <1>2 DEF Return, Proved
  <2>5. Store!Identify(r.claim)
    BY <1>1, <2>2, <2>3, <2>4, Zenon DEF Store!Identify, Store!tables
  <2> QED  BY <1>1, <2>5, Zenon DEF Store!Next
<1>3. CASE ~Proved(c)
  <2>1. Owed' = Owed
    BY <1>1, <1>3, OwedFrame, Zenon DEF Proved
  <2>2. CASE r.kind = "issue"
    <3>1. handed' = handed \cup {r.challenge} /\ returned' = returned
      BY <2>2 DEF Return
    <3>2. r.challenge \in Rows(db)
      BY <1>1, <2>2, Zenon DEF ReplayInvariant, Progress
    <3>3. Store!HandOut(r.challenge)
      BY <1>1, <2>1, <3>1, <3>2, StoreKnown, Zenon DEF Store!HandOut, Store!tables
    <3> QED  BY <1>1, <3>3, Zenon DEF Store!Next
  <2>3. CASE r.kind # "issue"
    <3>1. returned' = returned /\ handed' = handed
      BY <1>1, <1>3, <2>3 DEF Return, Proved
    <3> QED  BY <1>1, <2>1, <3>1, Unseen, ZenonT(60)
  <2> QED  BY <2>2, <2>3, Zenon
<1> QED  BY <1>2, <1>3, Zenon

(* A crash loses what was owed.                                            *)
LEMMA CrashIsStep == ASSUME Crash PROVE Store!Next
<1>1. Owed' = {}
  BY DEF Crash, Owed
<1>2. db' = db /\ returned' = returned /\ handed' = handed
  BY DEF Crash
<1> QED  BY <1>1, <1>2, Zenon DEF Store!Next, Store!Lose, Store!tables

(* Each step of the detailed store is a step of the abstract one or is     *)
(* invisible to it.                                                        *)
LEMMA StoreStep ==
  ASSUME ReplayTypeOK, ReplayInvariant, ExactTransaction, [Next]_vars
  PROVE  [Store!Next]_(Store!vars)
<1>0. CASE UNCHANGED vars
  <2>1. Owed' = Owed
    BY <1>0, Zenon DEF vars, Owed, Proved
  <2> QED  BY <1>0, <2>1, Unseen, Zenon DEF vars
<1>1. ASSUME NEW c \in Callers, Step(c) PROVE [Store!Next]_(Store!vars)
  <2>1. CASE RequireNondecreasingLocalClock(c)
    <3>1. pc[c] \in InTransaction /\ "count" # "return"
      BY <2>1 DEF RequireNondecreasingLocalClock, InTransaction
    <3> QED  BY <2>1, <3>1, QuietStep, Zenon DEF RequireNondecreasingLocalClock
  <2>2. CASE Count(c)
    <3>1. /\ pc[c] \in InTransaction
          /\ (IF req[c].kind = "prove" THEN "claim" ELSE "insert") # "return"
      BY <2>2 DEF Count, InTransaction
    <3> QED  BY <2>2, <3>1, QuietStep, Zenon DEF Count
  <2>3. CASE Claim(c)
    <3>1. pc[c] \in InTransaction /\ "insert" # "return"
      BY <2>3 DEF Claim, InTransaction
    <3> QED  BY <2>3, <3>1, QuietStep, Zenon DEF Claim
  <2>4. CASE InsertChallenge(c) \/ InsertProof(c)
    <3>1. pc[c] \in InTransaction /\ "commit" # "return"
      BY <2>4 DEF InsertChallenge, InsertProof, InTransaction
    <3> QED  BY <2>4, <3>1, QuietStep, Zenon DEF InsertChallenge, InsertProof
  <2> QED  BY <1>1, <2>1, <2>2, <2>3, <2>4, QuietStep, CommitIsStep, ReturnIsStep,
              Zenon DEF Step
<1>2. ASSUME NEW c \in Callers, StatementFails(c) PROVE UNCHANGED Store!vars
  BY <1>2, QuietStep, Zenon DEF StatementFails
<1> QED  BY <1>0, <1>1, <1>2, QuietStep, CrashIsStep, Zenon DEF Next

(* A migrated database is a legal beginning for the abstract store.        *)
LEMMA StoreInit == Init => Store!Init /\ ExactTransaction
<1> SUFFICES ASSUME Init PROVE Store!Init /\ ExactTransaction
  OBVIOUS
<1>1. /\ tx = db /\ handed = {} /\ returned = [p \in Claims |-> 0]
      /\ \A c \in Callers : pc[c] = "idle"
  BY DEF Init
<1>2. \A p, q \in db.proofs : Collide(p, q) => p = q
  BY <1>1, InitFacts, Zenon DEF ReplayInvariant, Extends
<1>3. Owed = {}
  BY <1>1 DEF Owed
<1>4. ExactTransaction
  BY <1>1 DEF ExactTransaction, InTransaction
<1> QED  BY <1>1, <1>2, <1>3, <1>4, Zenon DEF Store!Init

(* The open transaction of begin_limited_write holds exactly what its      *)
(* statements wrote, and what they checked is still true of the committed  *)
(* tables, for any number of callers.                                      *)
THEOREM TransactionsAreExact == Spec => []ExactTransaction
<1>1. ReplayTypeOK /\ ReplayInvariant /\ ExactTransaction /\ [Next]_vars
        => ExactTransaction'
  BY ExactStep, Zenon
<1> QED  BY <1>1, StoreInit, TypeCorrect, InvariantHolds, PTL DEF Spec

(* Types, transactions and their contents together.                        *)
THEOREM ReplayHolds == Spec => []ReplayInductive
BY TypeCorrect, InvariantHolds, TransactionsAreExact, PTL DEF ReplayInductive

(* The mutex, the transaction and its statements, with failures, crashes   *)
(* and clock jumps, implement a store that makes each change at once.      *)
THEOREM ImplementsOneTimeStore == Spec => IsOneTimeStore
<1>1. Init => Store!Init
  BY StoreInit, Zenon
<1>2. ReplayTypeOK /\ ReplayInvariant /\ ExactTransaction /\ [Next]_vars
        => [Store!Next]_(Store!vars)
  BY StoreStep, Zenon
<1> QED  BY <1>1, <1>2, TypeCorrect, InvariantHolds, TransactionsAreExact, PTL
         DEF Spec, IsOneTimeStore, Store!Spec
=============================================================================
