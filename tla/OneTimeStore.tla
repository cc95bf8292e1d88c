---------------------------- MODULE OneTimeStore ----------------------------
(***************************************************************************)
(* What the store of actor proofs promises its callers: every request is   *)
(* one atomic change of the tables, made against the tables of that very   *)
(* moment, and an identity is owed only for a proof consumed just then.    *)
(* There are no callers, locks or statements here, and no open             *)
(* transaction: a refused request changes nothing at all.                  *)
(***************************************************************************)
EXTENDS Integers, FiniteSets

CONSTANTS Challenges, Channels, Claims, Times, Lifetime, Capacity,
          Collide(_, _)  \* two proofs that must not both be recorded

VARIABLES
  hw,        \* the latest time the store has seen
  issued,    \* when each challenge was issued, 0 for one that was not
  channel,   \* and to whom
  spent,     \* the challenges that were answered
  proofs,    \* the recorded proofs
  owed,      \* consumed proofs whose identity is still to be returned
  returned,  \* identities returned, per proof
  handed     \* challenges given out

tables == <<hw, issued, channel, spent, proofs>>
answers == <<owed, returned, handed>>
vars == <<tables, answers>>

Known == {ch \in Challenges : issued[ch] # 0}

Init ==
  /\ \A p, q \in proofs : Collide(p, q) => p = q
  /\ owed = {} /\ handed = {}
  /\ returned = [p \in Claims |-> 0]

Room(table) == Cardinality(table) < Capacity

Seen(t) == hw <= t /\ hw' = t

Register(ch, h, t) ==
  /\ Seen(t) /\ t > 0 /\ ch \notin Known /\ Room(Known)
  /\ issued' = [issued EXCEPT ![ch] = t]
  /\ channel' = [channel EXCEPT ![ch] = h]
  /\ UNCHANGED <<spent, proofs, answers>>

\* A proof that collides with none recorded, and has not expired.
Record(p, t) ==
  /\ Seen(t) /\ t <= p.expires /\ Room(proofs)
  /\ \A q \in proofs : ~Collide(p, q)
  /\ proofs' = proofs \cup {p}
  /\ UNCHANGED <<issued, channel, returned, handed>>

\* It answers a challenge of its own channel, unanswered and unexpired.
Consume(p, h, t) ==
  /\ p.challenge \in Known \ spent
  /\ channel[p.challenge] = h
  /\ issued[p.challenge] <= t /\ t <= issued[p.challenge] + Lifetime
  /\ Record(p, t)
  /\ spent' = spent \cup {p.challenge}
  /\ owed' = owed \cup {p}

Reserve(p, t) == Record(p, t) /\ UNCHANGED <<spent, owed>>

Identify(p) ==
  /\ p \in owed
  /\ owed' = owed \ {p}
  /\ returned' = [returned EXCEPT ![p] = @ + 1]
  /\ UNCHANGED <<tables, handed>>

HandOut(ch) ==
  /\ ch \in Known
  /\ handed' = handed \cup {ch}
  /\ UNCHANGED <<tables, owed, returned>>

\* Identities that were owed are lost, never returned later.
Lose == owed' = {} /\ UNCHANGED <<tables, returned, handed>>

Next ==
  \/ \E ch \in Challenges :
        HandOut(ch) \/ \E h \in Channels, t \in Times : Register(ch, h, t)
  \/ \E p \in Claims :
        \/ Identify(p)
        \/ \E t \in Times :
              Reserve(p, t) \/ \E h \in Channels : Consume(p, h, t)
  \/ Lose

Spec == Init /\ [][Next]_vars
=============================================================================
