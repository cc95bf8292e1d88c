---------------------------- MODULE ActorReplay ----------------------------
(***************************************************************************)
(* The one-use store behind remote actor proofs: the Gateway issues        *)
(* challenges, a signed assertion answers one of them, and the assertion   *)
(* becomes an identity only after its evidence is durable                  *)
(* (crates/identity/src/actor_attestation.rs over                          *)
(* crates/storage/src/actor_replay.rs).                                    *)
(*                                                                         *)
(* Every operation is one IMMEDIATE transaction on one mutex-guarded       *)
(* connection.  db is what is committed, tx is what the connection sees;   *)
(* a rollback is tx' = db, a commit db' = tx.  The wall clock is handed in *)
(* by each caller and may jump either way.  Signatures and canonical JSON  *)
(* are left out: Claims are assertions that verify.                        *)
(***************************************************************************)
EXTENDS Integers, FiniteSets

CONSTANTS Callers,      \* threads inside the verifier
          NoCaller,     \* nobody holds the connection
          Challenges,   \* random challenge values
          Channels,     \* device, workspace, epoch and transport binding
          Claims,       \* signed assertions
          MaxTime,      \* the clock shows 0 .. MaxTime
          Lifetime,     \* of a challenge and of an assertion (60 s)
          Skew,         \* tolerated between the two clocks (15 s)
          Capacity,     \* rows each table may hold (250 000)
          OldChallenges, OldProofs  \* what a version 7 database already holds

Times == 0 .. MaxTime

(* The UNIQUE constraints of verified_actor_replay.                       *)
Collide(p, q) ==
  /\ p.issuer = q.issuer
  /\ \/ p.nonce = q.nonce
     \/ p.message = q.message
     \/ p.challenge = q.challenge
     \/ p.correlation = q.correlation

ASSUME ReplayConstants ==
  /\ NoCaller \notin Callers
  /\ MaxTime \in Nat /\ Lifetime \in Nat \ {0} /\ Skew \in Nat
  /\ Capacity \in Nat
  /\ Challenges # {} /\ Channels # {} /\ Claims # {}
  /\ \A p \in Claims : /\ p.challenge \in Challenges
                       /\ p.issued \in Nat /\ p.expires \in Nat
  /\ OldChallenges \subseteq Challenges
  /\ OldProofs \subseteq Claims
  /\ IsFiniteSet(OldChallenges) /\ IsFiniteSet(OldProofs)
  /\ Cardinality(OldChallenges) <= Capacity
  /\ Cardinality(OldProofs) <= Capacity
  /\ \A p, q \in OldProofs : Collide(p, q) => p = q
  /\ \A ch \in OldChallenges : \E p \in OldProofs : p.challenge = ch

VARIABLES
  db,        \* the committed tables
  tx,        \* the tables as the open transaction sees them
  holder,    \* who holds the connection mutex
  pc,        \* where each caller is
  req,       \* what each caller asked
  returned,  \* how many identities each assertion has been turned into
  handed     \* challenges whose value has been given out

vars == <<db, tx, holder, pc, req, returned, handed>>

(* A database: the clock high-water mark, for each challenge row when it  *)
(* was issued (0: no row) and to which channel, which rows are consumed,  *)
(* and the recorded proofs.                                               *)
Database == [hw : Nat, issued : [Challenges -> Nat],
             channel : [Challenges -> Channels],
             spent : SUBSET Challenges, proofs : SUBSET Claims]

Requests == [kind : {"issue", "prove", "legacy"}, claim : Claims,
             challenge : Challenges, channel : Channels,
             issued : Times, now : Times]

NoRequest == [kind |-> "issue", claim |-> CHOOSE p \in Claims : TRUE,
              challenge |-> CHOOSE ch \in Challenges : TRUE,
              channel |-> CHOOSE h \in Channels : TRUE,
              issued |-> 0, now |-> 0]

InTransaction == {"clock", "count", "claim", "insert", "commit"}

Steps == {"idle", "lock", "return"} \cup InTransaction

Rows(d) == {ch \in Challenges : d.issued[ch] # 0}

(* Version 8 of the schema starts the high-water mark at the latest       *)
(* expiry the older tables recorded, 0 when they are empty.               *)
Expiries(d) == {0} \cup {d.issued[ch] + Lifetime : ch \in Rows(d)}
                   \cup {p.expires : p \in d.proofs}

IsSeed(h, d) == h \in Expiries(d) /\ \A e \in Expiries(d) : e <= h

Old(spent, channel, hw) ==
  [hw |-> hw,
   issued |-> [c \in Challenges |-> IF c \in OldChallenges THEN 1 ELSE 0],
   channel |-> [c \in Challenges |-> channel],
   spent |-> spent,
   proofs |-> {p \in OldProofs : p.challenge \in spent}]

Init ==
  /\ \E spent \in SUBSET OldChallenges, channel \in Channels :
       \E h \in Expiries(Old(spent, channel, 0)) :
         /\ IsSeed(h, Old(spent, channel, 0))
         /\ db = Old(spent, channel, h)
  /\ tx = db
  /\ holder = NoCaller
  /\ pc = [c \in Callers |-> "idle"]
  /\ req = [c \in Callers |-> NoRequest]
  /\ returned = [p \in Claims |-> 0]
  /\ handed = {}

-----------------------------------------------------------------------------
(* check_freshness, and the assertion's window against the challenge's.   *)
Fresh(p, r) ==
  /\ p.issued <= r.now + Skew
  /\ p.expires >= r.now
  /\ p.expires > p.issued
  /\ p.expires - p.issued <= Lifetime
  /\ p.issued >= r.issued - Skew
  /\ p.expires <= r.issued + Lifetime + Skew

(* Variant: the challenge's own expiry is not looked at.                  *)
AdmissibleAfterExpiry(r) ==
  /\ r.now > 0
  /\ r.kind = "prove" => /\ r.challenge = r.claim.challenge
                         /\ r.claim.expires >= r.now
                         /\ r.issued > 0 /\ r.issued <= r.now
  /\ r.kind = "legacy" => r.claim.expires >= r.now

(* What is refused before the connection is locked.  An assertion must    *)
(* name the challenge the Gateway expects, and be used inside that        *)
(* challenge's own window.                                                *)
Admissible(r) ==
  /\ r.now > 0
  /\ r.kind = "prove" => /\ r.challenge = r.claim.challenge
                         /\ Fresh(r.claim, r)
                         /\ r.issued > 0
                         /\ r.issued <= r.now /\ r.now <= r.issued + Lifetime
  /\ r.kind = "legacy" => r.claim.expires >= r.now

(* issue_gateway_challenge draws a value and dates it now;                *)
(* verify_and_consume_actor_assertion is given the challenge the Gateway  *)
(* expects on the channel the assertion arrived on; consume_actor_proof   *)
(* is the older reservation without a challenge.  (NoRequest's fields     *)
(* stand for the arguments a function does not have.)                     *)
Issue(r) == r.kind = "issue" /\ r.issued = r.now /\ r.claim = NoRequest.claim
Prove(r) == r.kind = "prove"
Reserve(r) == /\ r.kind = "legacy"
              /\ r.challenge = r.claim.challenge
              /\ r.channel = NoRequest.channel /\ r.issued = 0

Admitted == {r \in Requests : /\ Issue(r) \/ Prove(r) \/ Reserve(r)
                              /\ Admissible(r)}

Begin(c, r) ==
  /\ pc[c] = "idle"
  /\ req' = [req EXCEPT ![c] = r]
  /\ pc' = [pc EXCEPT ![c] = "lock"]
  /\ UNCHANGED <<db, tx, holder, returned, handed>>

(* The mutex, then BEGIN IMMEDIATE.                                       *)
Lock(c) ==
  /\ pc[c] = "lock" /\ holder = NoCaller
  /\ holder' = c
  /\ pc' = [pc EXCEPT ![c] = "clock"]
  /\ UNCHANGED <<db, tx, req, returned, handed>>

(* A statement of the open transaction succeeds and leaves d behind ...   *)
Proceed(c, d, step) ==
  /\ tx' = d
  /\ pc' = [pc EXCEPT ![c] = step]
  /\ UNCHANGED <<db, holder, req, returned, handed>>

(* ... or the function returns an error (Replay, Invalid, Unavailable)    *)
(* and dropping the transaction rolls everything back.                    *)
Rollback(c) ==
  /\ tx' = db
  /\ holder' = NoCaller
  /\ pc' = [pc EXCEPT ![c] = "idle"]
  /\ req' = [req EXCEPT ![c] = NoRequest]
  /\ UNCHANGED <<db, returned, handed>>

(* Variant: the UPDATE has no WHERE last_seen_unix <= now.                *)
ClockUnchecked(c) ==
  /\ pc[c] = "clock"
  /\ Proceed(c, [tx EXCEPT !.hw = req[c].now], "count")

RequireNondecreasingLocalClock(c) ==
  /\ pc[c] = "clock"
  /\ \/ /\ tx.hw <= req[c].now
        /\ Proceed(c, [tx EXCEPT !.hw = req[c].now], "count")
     \/ tx.hw > req[c].now /\ Rollback(c)

(* Variant: off by one.                                                   *)
FullBeyond(r) == IF r.kind = "issue" THEN Cardinality(Rows(tx)) > Capacity
                                     ELSE Cardinality(tx.proofs) > Capacity

(* The capacity gate of the table the operation inserts into.             *)
Full(r) == IF r.kind = "issue" THEN Cardinality(Rows(tx)) >= Capacity
                               ELSE Cardinality(tx.proofs) >= Capacity

Count(c) ==
  /\ pc[c] = "count"
  /\ \/ Full(req[c]) /\ Rollback(c)
     \/ /\ ~Full(req[c])
        /\ Proceed(c, tx, IF req[c].kind = "prove" THEN "claim" ELSE "insert")

(* UPDATE ... SET consumed = 1 WHERE every column matches AND consumed=0. *)
Claimable(r) ==
  /\ tx.issued[r.challenge] = r.issued
  /\ tx.channel[r.challenge] = r.channel
  /\ r.challenge \notin tx.spent

(* Variant: the claim is committed on its own.                            *)
ClaimAutocommit(c) ==
  /\ pc[c] = "claim" /\ Claimable(req[c])
  /\ tx' = [tx EXCEPT !.spent = @ \cup {req[c].challenge}]
  /\ db' = tx'
  /\ pc' = [pc EXCEPT ![c] = "insert"]
  /\ UNCHANGED <<holder, req, returned, handed>>

Claim(c) ==
  /\ pc[c] = "claim"
  /\ \/ /\ Claimable(req[c])
        /\ Proceed(c, [tx EXCEPT !.spent = @ \cup {req[c].challenge}],
                   "insert")
     \/ ~Claimable(req[c]) /\ Rollback(c)

InsertChallenge(c) ==
  /\ pc[c] = "insert" /\ req[c].kind = "issue"
  /\ LET ch == req[c].challenge
     IN  \/ /\ ch \notin Rows(tx)
            /\ Proceed(c, [tx EXCEPT !.issued[ch] = req[c].now,
                                     !.channel[ch] = req[c].channel],
                       "commit")
         \/ ch \in Rows(tx) /\ Rollback(c)

(* Variant: only the challenge is unique.                                 *)
RepeatsChallenge(p) == \E q \in tx.proofs : p.challenge = q.challenge

Repeats(p) == \E q \in tx.proofs : Collide(p, q)

InsertProof(c) ==
  /\ pc[c] = "insert" /\ req[c].kind # "issue"
  /\ LET p == req[c].claim
     IN  \/ /\ ~Repeats(p)
            /\ Proceed(c, [tx EXCEPT !.proofs = @ \cup {p}], "commit")
         \/ Repeats(p) /\ Rollback(c)

(* COMMIT; the mutex is released as the function returns.                 *)
Commit(c) ==
  /\ pc[c] = "commit"
  /\ db' = tx
  /\ holder' = NoCaller
  /\ pc' = [pc EXCEPT ![c] = "return"]
  /\ UNCHANGED <<tx, req, returned, handed>>

(* A challenge is handed out, or an assertion becomes an identity.        *)
Return(c) ==
  /\ pc[c] = "return"
  /\ pc' = [pc EXCEPT ![c] = "idle"]
  /\ req' = [req EXCEPT ![c] = NoRequest]
  /\ \/ /\ req[c].kind = "issue"
        /\ handed' = handed \cup {req[c].challenge}
        /\ UNCHANGED returned
     \/ /\ req[c].kind = "prove"
        /\ returned' = [returned EXCEPT ![req[c].claim] = @ + 1]
        /\ UNCHANGED handed
     \/ req[c].kind = "legacy" /\ UNCHANGED <<returned, handed>>
  /\ UNCHANGED <<db, tx, holder>>

(* Any statement, the BEGIN and the COMMIT included, may fail.            *)
StatementFails(c) ==
  /\ pc[c] \in InTransaction
  /\ Rollback(c)

(* The process dies; the database file recovers to the last commit.       *)
Crash ==
  /\ tx' = db
  /\ holder' = NoCaller
  /\ pc' = [c \in Callers |-> "idle"]
  /\ req' = [c \in Callers |-> NoRequest]
  /\ UNCHANGED <<db, returned, handed>>

Step(c) ==
  \/ Lock(c) \/ RequireNondecreasingLocalClock(c) \/ Count(c) \/ Claim(c)
  \/ InsertChallenge(c) \/ InsertProof(c) \/ Commit(c) \/ Return(c)

Next ==
  \/ \E c \in Callers : \/ \E r \in Admitted : Begin(c, r)
                        \/ Step(c)
                        \/ StatementFails(c)
  \/ Crash

Spec == Init /\ [][Next]_vars

-----------------------------------------------------------------------------
ReplayTypeOK ==
  /\ db \in Database /\ tx \in Database
  /\ holder \in Callers \cup {NoCaller}
  /\ pc \in [Callers -> Steps]
  /\ req \in [Callers -> Requests]
  /\ returned \in [Claims -> Nat]
  /\ handed \subseteq Challenges

(* An assertion becomes an identity at most once, and no two assertions   *)
(* that share a nonce, a message id, a challenge or a correlation id under *)
(* one issuer both do: over crashes, concurrent callers and a clock that  *)
(* is set back (the purpose of verify_and_consume_actor_assertion).       *)
IdentityOnce ==
  /\ \A p \in Claims : returned[p] <= 1
  /\ \A p, q \in Claims :
       returned[p] > 0 /\ returned[q] > 0 /\ Collide(p, q) => p = q

(* consume_issued_actor_proof claims the challenge and records the proof  *)
(* in one transaction, so no crash or failing statement separates them: a *)
(* consumed challenge has its proof row, and an assertion that became an  *)
(* identity has both.                                                     *)
BothOrNeither ==
  /\ \A ch \in db.spent : \E p \in db.proofs : p.challenge = ch
  /\ \A p \in Claims : returned[p] > 0 =>
       p \in db.proofs /\ p.challenge \in db.spent

(* begin_limited_write counts inside the writer's own transaction, so     *)
(* concurrent callers together never push a table over its fixed size.    *)
TablesAreBounded ==
  /\ Cardinality(Rows(db)) <= Capacity
  /\ Cardinality(db.proofs) <= Capacity

(* issue_gateway_challenge persists a challenge before returning it: one  *)
(* that was handed out can be answered after any crash.                   *)
HandedIsDurable == handed \subseteq Rows(db)

(* Nothing the store has recorded is ever forgotten or re-dated, and its  *)
(* clock never goes back, whatever clock the callers bring.               *)
Keeps ==
  /\ db.hw <= db'.hw
  /\ db.spent \subseteq db'.spent /\ db.proofs \subseteq db'.proofs
  /\ \A ch \in Rows(db) : /\ db'.issued[ch] = db.issued[ch]
                          /\ db'.channel[ch] = db.channel[ch]

EvidenceIsKept == [][Keeps]_vars

(* A challenge is consumed only while the store's own clock, the time of  *)
(* the consumption included, has not passed its expiry: neither a late    *)
(* answer nor a wall clock set back revives one.                          *)
InTime ==
  \A ch \in db'.spent \ db.spent : db'.hw <= db.issued[ch] + Lifetime

ExpiredStaysExpired == [][InTime]_vars

-----------------------------------------------------------------------------
(* What an open transaction may differ in from the committed tables.      *)
Mutex ==
  /\ holder = NoCaller => tx = db
  /\ \A c \in Callers : (pc[c] \in InTransaction) <=> (holder = c)

Extends ==
  /\ db.hw <= tx.hw
  /\ db.spent \subseteq tx.spent /\ db.proofs \subseteq tx.proofs
  /\ \A ch \in Rows(db) : /\ tx.issued[ch] = db.issued[ch]
                          /\ tx.channel[ch] = db.channel[ch]
  /\ \A p, q \in tx.proofs : Collide(p, q) => p = q
  /\ \A ch \in tx.spent \ db.spent : tx.hw <= db.issued[ch] + Lifetime

Proved(c) == req[c].kind = "prove"

(* What the holder has established when it is at each statement.          *)
Progress ==
  \A c \in Callers :
    /\ pc[c] # "idle" => req[c] \in Admitted
    /\ pc[c] \in {"count", "claim", "insert", "commit"} =>
         tx.hw = req[c].now
    /\ pc[c] = "claim" => Proved(c)
    /\ pc[c] \in InTransaction /\ Proved(c) => tx.issued = db.issued
    /\ pc[c] \in {"clock", "count", "claim"} => tx.spent = db.spent
    /\ pc[c] = "commit" /\ Proved(c) =>
         /\ req[c].claim \in tx.proofs \ db.proofs
         /\ req[c].challenge \in tx.spent
    /\ pc[c] = "insert" /\ Proved(c) => req[c].challenge \in tx.spent
    /\ pc[c] = "return" /\ Proved(c) =>
         /\ req[c].claim \in db.proofs
         /\ req[c].challenge \in db.spent
         /\ returned[req[c].claim] = 0
         /\ \A d \in Callers \ {c} :
              pc[d] = "return" /\ Proved(d) => req[d].claim # req[c].claim
    /\ pc[c] = "commit" /\ req[c].kind = "issue" =>
         req[c].challenge \in Rows(tx)
    /\ pc[c] = "return" /\ req[c].kind = "issue" =>
         req[c].challenge \in Rows(db)

(* A consumed challenge whose proof is missing is the one whose proof the *)
(* holder is about to insert.                                             *)
HasProof(d, ch) == \E p \in d.proofs : p.challenge = ch

SpentHaveProofs ==
  /\ \A ch \in tx.spent :
       \/ HasProof(tx, ch)
       \/ \E c \in Callers : /\ pc[c] = "insert" /\ Proved(c)
                             /\ req[c].challenge = ch
  /\ \A ch \in db.spent : HasProof(db, ch)

(* The count taken in the transaction still holds when it inserts.        *)
Counted ==
  /\ IsFiniteSet(Rows(tx)) /\ IsFiniteSet(tx.proofs)
  /\ Cardinality(Rows(tx)) <= Capacity
  /\ Cardinality(tx.proofs) <= Capacity
  /\ \A c \in Callers : pc[c] \in {"claim", "insert"} => ~Full(req[c])

(* Exactly what the statements a caller has run so far have written ...   *)
Written(c) ==
  LET r == req[c]
      inserted(kinds) == pc[c] = "commit" /\ r.kind \in kinds
  IN  /\ tx.hw = IF pc[c] = "clock" THEN db.hw ELSE r.now
      /\ tx.issued = IF inserted({"issue"})
                     THEN [db.issued EXCEPT ![r.challenge] = r.now]
                     ELSE db.issued
      /\ tx.channel = IF inserted({"issue"})
                      THEN [db.channel EXCEPT ![r.challenge] = r.channel]
                      ELSE db.channel
      /\ tx.spent = IF pc[c] \in {"insert", "commit"} /\ Proved(c)
                    THEN db.spent \cup {r.challenge} ELSE db.spent
      /\ tx.proofs = IF inserted({"prove", "legacy"})
                     THEN db.proofs \cup {r.claim} ELSE db.proofs

(* ... and what they have found true of the committed tables.             *)
Found(c) ==
  LET r == req[c]
  IN  /\ pc[c] # "clock" => db.hw <= r.now
      /\ pc[c] \in {"claim", "insert", "commit"} =>
           IF r.kind = "issue" THEN Cardinality(Rows(db)) < Capacity
                               ELSE Cardinality(db.proofs) < Capacity
      /\ pc[c] \in {"insert", "commit"} /\ Proved(c) =>
           /\ db.issued[r.challenge] = r.issued
           /\ db.channel[r.challenge] = r.channel
           /\ r.challenge \notin db.spent
      /\ pc[c] = "commit" =>
           IF r.kind = "issue" THEN r.challenge \notin Rows(db)
           ELSE \A q \in db.proofs : ~Collide(r.claim, q)

ExactTransaction ==
  \A c \in Callers : pc[c] \in InTransaction => Written(c) /\ Found(c)

(* The inductive invariant behind the properties above: one transaction   *)
(* at a time, it only adds to the committed tables, every statement it    *)
(* has run still holds, and what was returned is committed.               *)
ReplayInvariant ==
  /\ Mutex /\ Extends /\ Progress /\ SpentHaveProofs /\ Counted
  /\ IdentityOnce /\ BothOrNeither /\ TablesAreBounded /\ HandedIsDurable

(* The same with the types of the tables and of the callers' requests,    *)
(* and with the exact contents of the open transaction.                   *)
ReplayInductive == ReplayTypeOK /\ ReplayInvariant /\ ExactTransaction

(* The assertions whose evidence is committed and whose caller has not    *)
(* been answered yet.                                                     *)
Owed == {req[c].claim : c \in {d \in Callers : pc[d] = "return" /\ Proved(d)}}

Store == INSTANCE OneTimeStore
           WITH hw <- db.hw, issued <- db.issued, channel <- db.channel,
                spent <- db.spent, proofs <- db.proofs, owed <- Owed

(* Several callers, statement after statement, with failures and crashes  *)
(* anywhere, behave as a store that makes every change at once: what      *)
(* begin_limited_write and the claim have checked still holds of the      *)
(* committed tables at the commit, and an identity is returned only for   *)
(* evidence committed since the process started.                          *)
IsOneTimeStore == Store!Spec
=============================================================================
