------------------------- MODULE AccessGrantsProofs -------------------------
(***************************************************************************)
(* The authorization records for any sets of subjects, scopes and clients: *)
(* authority needs a local approval, what ended before the migration stays *)
(* ended.  With one local client at a time the stored grants implement the *)
(* promised lifecycle, revocations are irreversible and hold once they are *)
(* acknowledged, and replayed requests do not stack.                       *)
(***************************************************************************)
EXTENDS AccessGrants, TLAPS

\* The grant machine and its mirror answer with a status or a refusal, and
\* only an approval leads out of "pending" into authority.
LEMMA TransitionFacts ==
  ASSUME NEW st, NEW ev \in Events
  PROVE  /\ GrantTransition(st, ev) \in Live \union Terminal \union {"refused"}
         /\ SessionTransition(st, ev) \in Live \union Terminal \union {"refused"}
         /\ st \in {"none"} \union Terminal
              => /\ GrantTransition(st, ev) = "refused"
                 /\ SessionTransition(st, ev) = "refused"
         /\ GrantTransition(st, ev) \in Granted => ev = "approve" \/ st \in Granted
         /\ SessionTransition(st, ev) \in Granted => ev = "approve" \/ st \in Granted
BY Zenon DEF GrantTransition, SessionTransition, Events, Live, Terminal, Granted

\* What the two machines accept and where it leads: out of a live status only,
\* into "active" only by an approval or a resumption, into "revoked" only by a
\* denial of what is pending or by a revocation, which an active row follows.
LEMMA MachineFacts ==
  ASSUME NEW st, NEW ev \in Events
  PROVE  /\ GrantTransition(st, ev) # "refused" => st \in Live
         /\ GrantTransition(st, ev) = "active" => ev \in {"approve", "resume"}
         /\ SessionTransition(st, ev) = "active" => ev \in {"approve", "resume"}
         /\ GrantTransition(st, ev) = "revoked" => ev \in {"deny", "revoke"}
         /\ GrantTransition(st, ev) \notin {"none", "pending"}
         /\ GrantTransition(st, "deny") # "refused" => st = "pending"
         /\ SessionTransition("active", "revoke") # "refused"
BY Zenon DEF GrantTransition, SessionTransition, Events, Live, Terminal

\* What a row stands for depends on that row alone.
LEMMA SameRow ==
  ASSUME NEW s, session'[s] = session[s], legacy'[s] = legacy[s],
         s \in recorded' <=> s \in recorded
  PROVE  FromSession(s)' = FromSession(s)
BY Zenon DEF FromSession, Refuses

\* It is one of the statuses of a grant, or none.
LEMMA StandsFor ==
  ASSUME AccessTypeOK, NEW s \in Subjects
  PROVE  FromSession(s) \in Statuses /\ FromSession(s) \in {"none", session[s]}
BY Zenon DEF AccessTypeOK, FromSession, Statuses

\* Every step keeps the shape of the records.
LEMMA TypeStep == AccessTypeOK /\ [Next]_vars => AccessTypeOK'
<1> SUFFICES ASSUME AccessTypeOK, [Next]_vars PROVE AccessTypeOK'
  OBVIOUS
<1> USE AccessAssumption DEF AccessTypeOK, daemon, rows, processor, decisions,
        history, GrantIds, Kinds, Statuses, RpIdle, DecideIdle, Reopen, Ack, Records,
        NextStatus
<1>1. ASSUME NEW r \in Request, NEW s \in Subjects, RequestSaveSession(r, s)
      PROVE  AccessTypeOK'
  BY <1>1 DEF RequestSaveSession, Live
<1>2. CASE RequestSaveGrant \/ RequestFails
  BY <1>2, ZenonT(60) DEF RequestSaveGrant, RequestFails, SavePendingGrant, Live
<1>3. ASSUME NEW d \in Deciders, NEW s \in Subjects, NEW ev \in Events,
             DecideLoad(d, s, ev) \/ DecideMiss(d, s, ev)
      PROVE  AccessTypeOK'
  BY <1>3, SMTT(60) DEF DecideLoad, DecideMiss, Selected
<1>4. ASSUME NEW d \in Deciders, DecideDerive(d) PROVE AccessTypeOK'
  <2>1. subject[d] \in Subjects => FromSession(subject[d]) \in Statuses
    BY StandsFor, Zenon
  <2> QED
    BY <1>4, <2>1, SMTT(60) DEF DecideDerive, Events
<1>5. ASSUME NEW d \in Deciders, DecideSave(d) PROVE AccessTypeOK'
  BY <1>5, TransitionFacts DEF DecideSave
<1>6. ASSUME NEW d \in Deciders, DecideMirror(d) PROVE AccessTypeOK'
  BY <1>6, TransitionFacts, SMTT(60) DEF DecideMirror, Events
<1>7. ASSUME NEW d \in Deciders, DecideMirrorSave(d) \/ DecideFails(d)
      PROVE  AccessTypeOK'
  <2>1. CASE DecideMirrorSave(d)
    BY <2>1, Zenon DEF DecideMirrorSave, Events
  <2>2. CASE DecideFails(d)
    BY <2>2, Zenon DEF DecideFails, Events
  <2> QED
    BY <1>7, <2>1, <2>2, Zenon
<1>8. CASE Tick
  BY <1>8 DEF Tick
<1>9. CASE Start
  <2>1. \A s \in Subjects : FromSession(s) \in Statuses
    BY StandsFor, Zenon
  <2> QED
    BY <1>9, <2>1 DEF Start, Migrate
<1>10. CASE Halt
  BY <1>10, Zenon DEF Halt, Events
<1>11. CASE UNCHANGED vars
  BY <1>11, Zenon DEF vars
<1> QED
  BY <1>1, <1>2, <1>3, <1>4, <1>5, <1>6, <1>7, <1>8, <1>9, <1>10, <1>11, ZenonT(60)
     DEF Next, DecideStep

\* A grant that gives or keeps authority belongs to a subject with an approval,
\* or to one whose row was left suspended without one, which was resumed before
\* it is active: the part of the guarantee that is about the grants.
Backed(s) == s \in approved \/ SuspendedUnapproved(s)
GrantsInv ==
  \A s \in Subjects, k \in Kinds :
    /\ status[<<s, k>>] \in Granted => Backed(s)
    /\ status[<<s, k>>] = "active" => s \in approved \union resumed

\* What the rows stand for is backed, and a row that ended or is refused
\* stands for no authority.
LEMMA RowsBacked ==
  ASSUME AccessTypeOK, CarriedInv, EndedInv, NEW s \in Subjects
  PROVE  /\ FromSession(s) \in Granted => Backed(s)
         /\ FromSession(s) = "active" => s \in approved
         /\ s \in Ended => FromSession(s) \in {"none"} \union Terminal
         /\ s \in Refused => FromSession(s) = "none"
<1>1. s \in Refused => FromSession(s) = "none"
  BY Zenon DEF EndedInv, Refused, FromSession, Refuses
<1>2. s \in Ended => FromSession(s) \in {"none"} \union Terminal
  BY Zenon DEF EndedInv, FromSession
<1>3. FromSession(s) = "active" => s \in recorded
  BY Zenon DEF FromSession, Refuses
<1>4. s \in recorded => s \in approved
  BY Zenon DEF CarriedInv
<1>5. FromSession(s) \in Granted => session[s] \in Granted /\ s \notin Refused
  BY <1>1, Zenon DEF FromSession, Granted
<1>6. session[s] \in Granted /\ s \notin Refused => Backed(s)
  BY Zenon DEF CarriedInv, Backed
<1> QED
  BY <1>1, <1>2, <1>3, <1>4, <1>5, <1>6, Zenon

\* So the guarantee follows from its three parts.
LEMMA FromParts ==
  AccessTypeOK /\ GrantsInv /\ CarriedInv /\ EndedInv => ApprovalPrecedesAuthority
<1> SUFFICES ASSUME AccessTypeOK, GrantsInv, CarriedInv, EndedInv, NEW s \in Subjects
             PROVE  LET held == {FromSession(s)} \union {status[<<s, k>>] : k \in Kinds} IN
                      /\ held \intersect Granted # {} => Backed(s)
                      /\ "active" \in held => s \in approved \union resumed
  BY Zenon DEF ApprovalPrecedesAuthority, Backed
<1> QED
  BY RowsBacked, Zenon DEF GrantsInv

\* And contains the part about the grants.
LEMMA GrantsPart == ApprovalPrecedesAuthority => GrantsInv
BY Zenon DEF ApprovalPrecedesAuthority, GrantsInv, Backed

\* An upgraded database, before the first start and its migration, has the
\* shape and satisfies both invariants.
LEMMA InitFacts == Init => AccessTypeOK /\ AccessInvariant /\ LoadIsCurrent
<1> SUFFICES ASSUME Init PROVE AccessTypeOK /\ AccessInvariant /\ LoadIsCurrent
  OBVIOUS
<1>1. AccessTypeOK
  <2>1. /\ \A s \in Subjects : legacy[s].status \in Statuses \union {"connected"}
        /\ legacy \in [Subjects -> Legacy]
    BY AccessAssumption, SMT DEF Init, LegacyRow, Statuses
  <2> QED
    BY <2>1, AccessAssumption DEF Init, AccessTypeOK, GrantIds, Kinds, Statuses, Live,
                          Terminal, Events, Request
<1>2. AccessInvariant
  <2>1. /\ \A s \in Subjects : session[s] = legacy[s].status
        /\ \A s \in Subjects : s \in recorded <=> legacy[s].approved
        /\ approved = recorded /\ rpPc = "idle" /\ \A d \in Deciders : pc[d] = "idle"
        /\ \A s \in Subjects, k \in Kinds : status[<<s, k>>] = "none"
    BY Zenon DEF Init, GrantIds
  <2>2. GrantsInv
    BY <2>1, Zenon DEF GrantsInv, Granted
  <2>3. CarriedInv
    BY <2>1, Zenon DEF CarriedInv, SuspendedUnapproved, Refused, Granted
  <2>4. EndedInv
    BY <2>1, Zenon DEF EndedInv, Untouched, Ended, Refused, Kinds
  <2> QED
    BY <1>1, <2>2, <2>3, <2>4, FromParts, Zenon DEF AccessInvariant
<1>3. LoadIsCurrent
  BY Zenon DEF Init, LoadIsCurrent, GrantIds, Kinds
<1> QED
  BY <1>1, <1>2, <1>3, Zenon

\* The subjects that had ended or are refused stay as they are when a step
\* leaves their rows alone and takes none of them in hand.
LEMMA EndedKept ==
  ASSUME EndedInv, UNCHANGED legacy,
         \A s \in Ended \union Refused :
           /\ session'[s] = session[s] /\ (s \in recorded' => s \in recorded)
           /\ status'[<<s, "own">>] = status[<<s, "own">>]
           /\ status'[<<s, "copy">>] = status[<<s, "copy">>]
           /\ rpPc' = "save_grant" => rpSubject' # s
           /\ \A d \in Deciders :
                pc'[d] \in {"save", "mirror", "mirror_save"} => subject'[d] # s
  PROVE  EndedInv'
<1>1. Ended' = Ended /\ Refused' = Refused
  BY Zenon DEF Ended, Refused
<1>2. \A s \in Ended \union Refused : Untouched(s)'
  BY Zenon DEF EndedInv, Untouched
<1> QED
  BY <1>1, <1>2, Zenon DEF EndedInv

\* Steps that leave the rows and the grants alone, and give up decisions or keep
\* them, leave the invariant alone.
LEMMA AccessSame ==
  ASSUME AccessTypeOK, AccessInvariant, UNCHANGED <<rows, approved, resumed>>,
         rpPc' = "idle" \/ UNCHANGED processor,
         \A d \in Deciders :
           \/ pc'[d] \in {"idle", "derive"}
           \/ /\ pc'[d] = pc[d] /\ subject'[d] = subject[d] /\ event'[d] = event[d]
              /\ loaded'[d] = loaded[d] /\ mirror'[d] = mirror[d]
  PROVE  GrantsInv' /\ CarriedInv' /\ EndedInv'
<1>1. /\ UNCHANGED <<session, recorded, legacy, status, approved, resumed>>
      /\ rpPc' = "idle" \/ UNCHANGED <<rpPc, rpSubject>>
  BY Zenon DEF rows, processor
<1>2. GrantsInv /\ CarriedInv /\ EndedInv
  BY GrantsPart, Zenon DEF AccessInvariant
<1>3. GrantsInv'
  BY <1>1, <1>2, Zenon DEF GrantsInv, Backed, SuspendedUnapproved
<1>4. CarriedInv'
  BY <1>1, <1>2, Zenon DEF CarriedInv, SuspendedUnapproved, Refused
<1>5. EndedInv'
  <2>1. \A t \in Ended \union Refused : t \in Subjects /\ Untouched(t)
    BY <1>2, Zenon DEF EndedInv, Ended, Refused
  <2>2. \A t \in Ended \union Refused :
          /\ rpPc' = "save_grant" => rpSubject' # t
          /\ \A e \in Deciders :
               pc'[e] \in {"save", "mirror", "mirror_save"} => subject'[e] # t
    BY <2>1, <1>1, Zenon DEF Untouched
  <2> QED
    BY <2>1, <2>2, <1>1, <1>2, EndedKept, Zenon
<1> QED
  BY <1>3, <1>4, <1>5, Zenon

\* A decision gets past the grant machine for a subject that is backed where
\* the status it starts from needs it, and that neither ended nor is refused.
LEMMA AccessHeld ==
  ASSUME AccessTypeOK, AccessTypeOK', AccessInvariant, NEW d \in Deciders,
         NEW s \in Subjects, s \notin Ended \union Refused,
         UNCHANGED <<rows, processor, approved, resumed>>,
         pc' = [pc EXCEPT ![d] = "save"], subject'[d] = s,
         loaded'[d] \in Granted => Backed(s),
         \A e \in Deciders \ {d} :
           /\ subject'[e] = subject[e] /\ event'[e] = event[e]
           /\ loaded'[e] = loaded[e] /\ mirror'[e] = mirror[e]
  PROVE  GrantsInv' /\ CarriedInv' /\ EndedInv'
<1>1. /\ UNCHANGED <<session, recorded, legacy, status, approved, resumed, rpPc, rpSubject>>
      /\ pc'[d] = "save" /\ \A e \in Deciders \ {d} : pc'[e] = pc[e]
  BY Zenon DEF rows, processor, AccessTypeOK
<1>2. GrantsInv /\ CarriedInv /\ EndedInv
  BY GrantsPart, Zenon DEF AccessInvariant
<1>3. GrantsInv'
  BY <1>1, <1>2, Zenon DEF GrantsInv, Backed, SuspendedUnapproved
<1>4. CarriedInv'
  BY <1>1, <1>2, ZenonT(60) DEF CarriedInv, SuspendedUnapproved, Refused, Backed
<1>5. EndedInv'
  <2>1. \A t \in Ended \union Refused : t \in Subjects /\ Untouched(t)
    BY <1>2, Zenon DEF EndedInv, Ended, Refused
  <2>2. \A t \in Ended \union Refused :
          /\ rpPc' = "save_grant" => rpSubject' # t
          /\ \A e \in Deciders :
               pc'[e] \in {"save", "mirror", "mirror_save"} => subject'[e] # t
    <3>1. ASSUME NEW t \in Ended \union Refused PROVE rpPc' = "save_grant" => rpSubject' # t
      BY <2>1, <1>1, Zenon DEF Untouched
    <3>2. ASSUME NEW t \in Ended \union Refused, NEW e \in Deciders,
                 pc'[e] \in {"save", "mirror", "mirror_save"}
          PROVE  subject'[e] # t
      <4>1. CASE e = d
        BY <2>1, <1>1, <3>2, <4>1, Zenon
      <4>2. CASE e # d
        BY <2>1, <1>1, <3>2, <4>2, Zenon DEF Untouched
      <4> QED
        BY <4>1, <4>2, Zenon
    <3> QED
      BY <3>1, <3>2, Zenon
  <2> QED
    BY <2>1, <2>2, <1>1, <1>2, EndedKept, Zenon
<1> QED
  BY <1>3, <1>4, <1>5, Zenon

\* The saves of a decision: the grant, and then its mirror row.
LEMMA AccessSave ==
  ASSUME AccessTypeOK, AccessTypeOK', AccessInvariant, NEW d \in Deciders,
         DecideSave(d)
  PROVE  GrantsInv' /\ CarriedInv' /\ EndedInv'
<1>1. PICK s \in Subjects, k \in Kinds : s = subject[d] /\ k = grant[d]
  BY Zenon DEF DecideSave, AccessTypeOK
<1>2. /\ pc[d] = "save" /\ pc'[d] = "mirror" /\ event[d] \in Events
      /\ \A e \in Deciders \ {d} : pc'[e] = pc[e]
      /\ UNCHANGED <<session, recorded, legacy, rpPc, rpSubject, subject, event,
                     loaded, mirror>>
      /\ approved' = IF event[d] = "approve" THEN approved \union {s} ELSE approved
      /\ resumed' = IF event[d] = "resume" THEN resumed \union ({s} \ approved) ELSE resumed
      /\ status'[<<s, k>>] = NextStatus(d)
      /\ \A t \in Subjects, j \in Kinds :
           (t # s \/ j # k) => status'[<<t, j>>] = status[<<t, j>>]
  BY <1>1, ZenonT(60) DEF DecideSave, AccessTypeOK, GrantIds, processor
<1>3. GrantsInv /\ CarriedInv /\ EndedInv
  BY GrantsPart, Zenon DEF AccessInvariant
<1>4. /\ NextStatus(d) \in Granted => event[d] = "approve" \/ loaded[d] \in Granted
      /\ NextStatus(d) = "active" => event[d] \in {"approve", "resume"}
  BY <1>2, TransitionFacts, MachineFacts, Zenon DEF NextStatus
<1>5. /\ NextStatus(d) \in Granted => s \in approved' \/ SuspendedUnapproved(s)
      /\ NextStatus(d) = "active" => s \in approved' \union resumed'
      /\ event[d] = "approve" => s \in approved'
      /\ approved \subseteq approved' /\ resumed \subseteq resumed'
  BY <1>1, <1>2, <1>3, <1>4, Zenon DEF CarriedInv
<1>6. \A t \in Subjects : SuspendedUnapproved(t)' = SuspendedUnapproved(t)
  BY <1>2, Zenon DEF SuspendedUnapproved
<1>7. GrantsInv'
  <2> SUFFICES ASSUME NEW t \in Subjects, NEW j \in Kinds
               PROVE  /\ status'[<<t, j>>] \in Granted => t \in approved' \/ SuspendedUnapproved(t)
                      /\ status'[<<t, j>>] = "active" => t \in approved' \union resumed'
    BY <1>6, Zenon DEF GrantsInv, Backed
  <2>1. CASE t = s /\ j = k
    BY <1>2, <1>5, <2>1, Zenon
  <2>2. CASE t # s \/ j # k
    BY <1>2, <1>3, <1>5, <2>2, Zenon DEF GrantsInv, Backed
  <2> QED
    BY <2>1, <2>2, Zenon
<1>8. CarriedInv'
  <2>1. recorded' \subseteq approved'
    BY <1>2, <1>3, <1>5, Zenon DEF CarriedInv
  <2>2. ASSUME NEW t \in Subjects, session'[t] \in Granted
        PROVE  t \in approved' \/ SuspendedUnapproved(t)' \/ t \in Refused'
    BY <1>2, <1>3, <1>5, <1>6, <2>2, Zenon DEF CarriedInv, Refused
  <2>3. ASSUME NEW e \in Deciders
        PROVE  /\ (pc'[e] = "save" /\ loaded'[e] \in Granted)
                    => subject'[e] \in approved' \/ SuspendedUnapproved(subject[e])'
               /\ (pc'[e] \in {"mirror", "mirror_save"} /\ event'[e] = "approve")
                    => subject'[e] \in approved'
               /\ (pc'[e] = "mirror_save" /\ mirror'[e] \in Granted)
                    => subject'[e] \in approved' \/ SuspendedUnapproved(subject[e])'
    <3>1. pc[e] # "idle" => subject[e] \in Subjects
      BY Zenon DEF AccessTypeOK
    <3>2. CASE e = d
      BY <1>1, <1>2, <1>5, <3>2, Zenon
    <3>3. CASE e # d
      BY <1>2, <1>3, <1>5, <1>6, <3>1, <3>3, Zenon DEF CarriedInv
    <3> QED
      BY <3>2, <3>3, Zenon
  <2> QED
    BY <2>1, <2>2, <2>3, Zenon DEF CarriedInv
<1>9. EndedInv'
  <2>1. \A t \in Ended \union Refused : t \in Subjects /\ Untouched(t)
    BY <1>3, Zenon DEF EndedInv, Ended, Refused
  <2>2. s \notin Ended \union Refused
    BY <1>1, <1>2, <2>1, Zenon DEF Untouched
  <2>3. \A t \in Ended \union Refused :
          /\ rpPc' = "save_grant" => rpSubject' # t
          /\ \A e \in Deciders :
               pc'[e] \in {"save", "mirror", "mirror_save"} => subject'[e] # t
    BY <1>2, <2>1, Zenon DEF Untouched
  <2>4. \A t \in Ended \union Refused :
          /\ status'[<<t, "own">>] = status[<<t, "own">>]
          /\ status'[<<t, "copy">>] = status[<<t, "copy">>]
    BY <1>2, <2>1, <2>2, Zenon DEF Kinds
  <2> QED
    BY <1>2, <1>3, <2>3, <2>4, EndedKept, Zenon
<1> QED
  BY <1>7, <1>8, <1>9, Zenon

\* The mirror row follows what was saved.
LEMMA AccessMirror ==
  ASSUME AccessTypeOK, AccessTypeOK', AccessInvariant, NEW d \in Deciders,
         DecideMirror(d) \/ DecideMirrorSave(d)
  PROVE  GrantsInv' /\ CarriedInv' /\ EndedInv'
<1>1. PICK s \in Subjects, ev \in Events : s = subject[d] /\ ev = event[d]
  BY Zenon DEF DecideMirror, DecideMirrorSave, AccessTypeOK
<1>2. GrantsInv /\ CarriedInv /\ EndedInv
  BY GrantsPart, Zenon DEF AccessInvariant
<1>3. s \notin Ended \union Refused
  BY <1>1, <1>2, Zenon DEF DecideMirror, DecideMirrorSave, EndedInv, Untouched
<1>4. CASE DecideMirror(d)
  <2> DEFINE st == SessionTransition(session[s], ev)
  <2>1. /\ UNCHANGED <<rows, processor, approved, resumed>> /\ pc[d] = "mirror"
    BY <1>4, Zenon DEF DecideMirror, Ack, history
  <2>2. CASE st # "refused"
    <3>1. st \in Granted => Backed(s)
      <4>1. st \in Granted => ev = "approve" \/ session[s] \in Granted
        BY TransitionFacts, Zenon
      <4> HIDE DEF st
      <4> QED
        BY <1>1, <1>2, <1>3, <2>1, <4>1, Zenon DEF CarriedInv, Backed
    <3>2. /\ pc'[d] = "mirror_save" /\ mirror'[d] = st
          /\ UNCHANGED <<subject, event, loaded>>
          /\ \A e \in Deciders \ {d} : pc'[e] = pc[e] /\ mirror'[e] = mirror[e]
      BY <1>1, <1>4, <2>2, Zenon DEF DecideMirror, AccessTypeOK
    <3> HIDE DEF st
    <3>3. /\ UNCHANGED <<session, recorded, legacy, status, approved, resumed, rpPc, rpSubject>>
      BY <2>1, Zenon DEF rows, processor
    <3>4. GrantsInv'
      BY <1>2, <3>3, Zenon DEF GrantsInv, Backed, SuspendedUnapproved
    <3>5. CarriedInv'
      BY <1>1, <1>2, <2>1, <3>1, <3>2, <3>3, ZenonT(60)
         DEF CarriedInv, SuspendedUnapproved, Refused, Backed
    <3>6. EndedInv'
      <4>1. \A t \in Ended \union Refused : t \in Subjects /\ Untouched(t)
        BY <1>2, Zenon DEF EndedInv, Ended, Refused
      <4>2. \A t \in Ended \union Refused :
              /\ rpPc' = "save_grant" => rpSubject' # t
              /\ \A e \in Deciders :
                   pc'[e] \in {"save", "mirror", "mirror_save"} => subject'[e] # t
        BY <4>1, <1>1, <1>3, <3>2, <3>3, Zenon DEF Untouched
      <4> QED
        BY <4>1, <4>2, <1>1, <1>3, <3>2, <3>3, <1>2, EndedKept, Zenon
    <3> QED
      BY <3>4, <3>5, <3>6, Zenon
  <2>3. CASE st = "refused"
    <3>1. \A e \in Deciders :
            \/ pc'[e] \in {"idle", "derive"}
            \/ /\ pc'[e] = pc[e] /\ subject'[e] = subject[e] /\ event'[e] = event[e]
               /\ loaded'[e] = loaded[e] /\ mirror'[e] = mirror[e]
      BY <1>1, <1>4, <2>3, SMT DEF DecideMirror, Ack, DecideIdle, AccessTypeOK
    <3> QED
      BY <2>1, <3>1, AccessSame, Zenon
  <2> QED
    BY <2>2, <2>3, Zenon
<1>5. CASE DecideMirrorSave(d)
  <2>1. /\ pc[d] = "mirror_save" /\ pc'[d] = "idle"
        /\ session'[s] = mirror[d] /\ \A t \in Subjects \ {s} : session'[t] = session[t]
        /\ recorded' = IF ev = "approve" THEN recorded \union {s} ELSE recorded
        /\ UNCHANGED <<legacy, status, approved, resumed, rpPc, rpSubject>>
    BY <1>1, <1>5, ZenonT(60)
       DEF DecideMirrorSave, Ack, DecideIdle, Records, AccessTypeOK, processor
  <2>2. \A e \in Deciders \ {d} :
          /\ pc'[e] = pc[e] /\ subject'[e] = subject[e] /\ event'[e] = event[e]
          /\ loaded'[e] = loaded[e] /\ mirror'[e] = mirror[e]
    BY <1>5, SMT DEF DecideMirrorSave, Ack, DecideIdle, AccessTypeOK
  <2>3. GrantsInv'
    BY <1>2, <2>1, Zenon DEF GrantsInv, Backed, SuspendedUnapproved
  <2>4. CarriedInv'
    <3>1. recorded' \subseteq approved'
      BY <1>1, <1>2, <2>1, Zenon DEF CarriedInv
    <3>2. ASSUME NEW t \in Subjects, session'[t] \in Granted
          PROVE  t \in approved' \/ SuspendedUnapproved(t)' \/ t \in Refused'
      <4>1. CASE t = s
        BY <1>1, <1>2, <2>1, <3>2, <4>1, Zenon DEF CarriedInv, SuspendedUnapproved
      <4>2. CASE t # s
        BY <1>2, <2>1, <3>2, <4>2, Zenon DEF CarriedInv, SuspendedUnapproved, Refused
      <4> QED
        BY <4>1, <4>2, Zenon
    <3>3. ASSUME NEW e \in Deciders
          PROVE  /\ (pc'[e] = "save" /\ loaded'[e] \in Granted)
                      => subject'[e] \in approved' \/ SuspendedUnapproved(subject[e])'
                 /\ (pc'[e] \in {"mirror", "mirror_save"} /\ event'[e] = "approve")
                      => subject'[e] \in approved'
                 /\ (pc'[e] = "mirror_save" /\ mirror'[e] \in Granted)
                      => subject'[e] \in approved' \/ SuspendedUnapproved(subject[e])'
      BY <1>2, <2>1, <2>2, Zenon DEF CarriedInv, SuspendedUnapproved
    <3> QED
      BY <3>1, <3>2, <3>3, Zenon DEF CarriedInv
  <2>5. EndedInv'
    <3>1. \A t \in Ended \union Refused : t \in Subjects /\ Untouched(t)
      BY <1>2, Zenon DEF EndedInv, Ended, Refused
    <3>2. \A t \in Ended \union Refused :
            /\ rpPc' = "save_grant" => rpSubject' # t
            /\ \A e \in Deciders :
                 pc'[e] \in {"save", "mirror", "mirror_save"} => subject'[e] # t
      <4>1. ASSUME NEW t \in Ended \union Refused PROVE rpPc' = "save_grant" => rpSubject' # t
        BY <3>1, <1>1, <1>3, <2>1, <2>2, Zenon DEF Untouched
      <4>2. ASSUME NEW t \in Ended \union Refused, NEW e \in Deciders,
                   pc'[e] \in {"save", "mirror", "mirror_save"}
            PROVE  subject'[e] # t
        <5>1. CASE e = d
          BY <3>1, <1>1, <1>3, <2>1, <2>2, <4>2, <5>1, Zenon
        <5>2. CASE e # d
          BY <3>1, <1>1, <1>3, <2>1, <2>2, <4>2, <5>2, ZenonT(60) DEF Untouched
        <5> QED
          BY <5>1, <5>2, Zenon
      <4> QED
        BY <4>1, <4>2, Zenon
    <3> QED
      BY <3>1, <3>2, <1>1, <1>3, <2>1, <2>2, <1>2, EndedKept, Zenon
  <2> QED
    BY <2>3, <2>4, <2>5, Zenon
<1> QED
  BY <1>4, <1>5, Zenon

\* Authority is only ever carried for approved subjects, and subjects that had
\* ended or are refused are never decided on.
LEMMA AccessStep ==
  ASSUME AccessTypeOK, AccessTypeOK', AccessInvariant, [Next]_vars
  PROVE  AccessInvariant'
<1> DEFINE Goal == GrantsInv' /\ CarriedInv' /\ EndedInv'
<1>0. GrantsInv /\ CarriedInv /\ EndedInv
  BY GrantsPart, Zenon DEF AccessInvariant
<1>1. ASSUME NEW r \in Request, NEW s \in Subjects, RequestSaveSession(r, s)
      PROVE  Goal
  <2>1. /\ session[s] = "none" /\ session'[s] = "pending"
        /\ \A t \in Subjects \ {s} : session'[t] = session[t]
        /\ rpPc' = "save_grant" /\ rpSubject' = s
        /\ UNCHANGED <<recorded, legacy, status, approved, resumed, pc, subject, event,
                       loaded, mirror>>
    BY <1>1, Zenon DEF RequestSaveSession, decisions, history, AccessTypeOK
  <2>2. GrantsInv'
    BY <1>0, <2>1, Zenon DEF GrantsInv, Backed, SuspendedUnapproved
  <2>3. CarriedInv'
    BY <1>0, <2>1, Zenon DEF CarriedInv, SuspendedUnapproved, Refused, Granted
  <2>4. s \notin Ended \union Refused
    <3>1. s \notin Ended
      BY <1>0, <2>1, Zenon DEF EndedInv, Terminal
    <3>2. legacy[s].status = "none" => s \notin Refused
      <4>1. legacy[s] \in Legacy
        BY Zenon DEF AccessTypeOK
      <4> QED
        BY <4>1, AccessAssumption, SMT DEF Refused, NoRow
    <3> QED
      BY <1>0, <2>1, <3>1, <3>2, Zenon DEF EndedInv
  <2>5. EndedInv'
    BY <1>0, <2>1, <2>4, ZenonT(60) DEF EndedInv, Untouched, Ended, Refused
  <2> QED
    BY <2>2, <2>3, <2>5, Zenon
<1>2. ASSUME RequestSaveGrant PROVE Goal
  <2>0. PICK u \in Subjects : u = rpSubject
    BY <1>2, Zenon DEF RequestSaveGrant, AccessTypeOK
  <2>1. /\ status'[<<u, "own">>] = "pending"
        /\ status'[<<u, "copy">>] = status[<<u, "copy">>]
        /\ \A t \in Subjects \ {u}, k \in Kinds : status'[<<t, k>>] = status[<<t, k>>]
        /\ rpPc = "save_grant" /\ rpPc' = "idle"
        /\ UNCHANGED <<session, recorded, legacy, approved, resumed, pc, subject, event,
                       loaded, mirror>>
    BY <1>2, <2>0, SMTT(60)
       DEF RequestSaveGrant, SavePendingGrant, RpIdle, AccessTypeOK, GrantIds, Kinds,
           decisions, history
  <2>2. GrantsInv'
    BY <1>0, <2>1, Zenon DEF GrantsInv, Backed, SuspendedUnapproved, Granted, Kinds
  <2>3. CarriedInv'
    BY <1>0, <2>1, Zenon DEF CarriedInv, SuspendedUnapproved, Refused
  <2>4. EndedInv'
    <3>1. \A t \in Ended \union Refused : t \in Subjects /\ Untouched(t)
      BY <1>0, Zenon DEF EndedInv, Ended, Refused
    <3>2. \A t \in Ended \union Refused :
            /\ rpPc' = "save_grant" => rpSubject' # t
            /\ \A e \in Deciders :
                 pc'[e] \in {"save", "mirror", "mirror_save"} => subject'[e] # t
      BY <3>1, <2>0, <2>1, Zenon DEF Untouched
    <3> QED
      BY <3>1, <3>2, <2>0, <2>1, <1>0, EndedKept, Zenon DEF Untouched, Kinds
  <2> QED
    BY <2>2, <2>3, <2>4, Zenon
<1>3. ASSUME NEW d \in Deciders, NEW s \in Subjects, NEW ev \in Events,
             DecideLoad(d, s, ev)
      PROVE  Goal
  <2>1. /\ UNCHANGED <<rows, processor, approved, resumed>>
        /\ pc' = [pc EXCEPT ![d] = "save"] /\ subject'[d] = s
        /\ loaded'[d] = status[<<s, Selected(s)>>]
        /\ GrantTransition(status[<<s, Selected(s)>>], ev) # "refused"
        /\ \A e \in Deciders \ {d} :
             /\ subject'[e] = subject[e] /\ event'[e] = event[e]
             /\ loaded'[e] = loaded[e] /\ mirror'[e] = mirror[e]
    BY <1>3, ZenonT(60) DEF DecideLoad, AccessTypeOK
  <2>2. Selected(s) = "own" \/ Selected(s) = "copy"
    BY Zenon DEF Selected, AccessTypeOK, Kinds
  <2>3. status[<<s, Selected(s)>>] \in Granted => Backed(s)
    BY <1>0, <2>2, Zenon DEF GrantsInv, Kinds
  <2>4. status[<<s, Selected(s)>>] \notin {"none"} \union Terminal
    BY <2>1, TransitionFacts, Zenon
  <2>5. s \notin Ended \union Refused
    BY <1>0, <2>2, <2>4, Zenon DEF EndedInv, Untouched
  <2> QED
    BY <2>1, <2>3, <2>5, AccessHeld, Zenon
<1>4. ASSUME NEW d \in Deciders, NEW s \in Subjects, NEW ev \in Events,
             DecideMiss(d, s, ev)
      PROVE  Goal
  <2>1. /\ UNCHANGED <<rows, processor, approved, resumed>>
        /\ \A e \in Deciders :
             \/ pc'[e] \in {"idle", "derive"}
             \/ /\ pc'[e] = pc[e] /\ subject'[e] = subject[e] /\ event'[e] = event[e]
                /\ loaded'[e] = loaded[e] /\ mirror'[e] = mirror[e]
    BY <1>4, Zenon DEF DecideMiss, AccessTypeOK, history
  <2> QED
    BY <2>1, AccessSame, Zenon
<1>5. ASSUME NEW d \in Deciders, DecideDerive(d) PROVE Goal
  <2>0. PICK s \in Subjects : s = subject[d]
    BY <1>5, Zenon DEF DecideDerive, AccessTypeOK
  <2>1. UNCHANGED <<rows, processor, approved, resumed>> /\ event[d] \in Events
    BY <1>5, Zenon DEF DecideDerive, AccessTypeOK
  <2>2. CASE GrantTransition(FromSession(s), event[d]) # "refused"
    <3>1. FromSession(s) \notin {"none"} \union Terminal
      BY <2>1, <2>2, TransitionFacts, Zenon
    <3>2. s \notin Ended \union Refused /\ (FromSession(s) \in Granted => Backed(s))
      BY <1>0, <3>1, RowsBacked, Zenon
    <3>3. /\ pc' = [pc EXCEPT ![d] = "save"] /\ subject'[d] = s
          /\ loaded'[d] = FromSession(s)
          /\ \A e \in Deciders \ {d} :
               /\ subject'[e] = subject[e] /\ event'[e] = event[e]
               /\ loaded'[e] = loaded[e] /\ mirror'[e] = mirror[e]
      BY <1>5, <2>0, <2>2, Zenon DEF DecideDerive, AccessTypeOK
    <3> QED
      BY <2>1, <3>2, <3>3, AccessHeld, Zenon
  <2>3. CASE GrantTransition(FromSession(s), event[d]) = "refused"
    <3>1. \A e \in Deciders :
            \/ pc'[e] \in {"idle", "derive"}
            \/ /\ pc'[e] = pc[e] /\ subject'[e] = subject[e] /\ event'[e] = event[e]
               /\ loaded'[e] = loaded[e] /\ mirror'[e] = mirror[e]
      BY <1>5, <2>0, <2>3, SMT DEF DecideDerive, DecideIdle, AccessTypeOK
    <3> QED
      BY <2>1, <3>1, AccessSame, Zenon
  <2> QED
    BY <2>2, <2>3, Zenon
<1>6. ASSUME NEW d \in Deciders, DecideSave(d) PROVE Goal
  BY <1>6, AccessSave, Zenon
<1>7. ASSUME NEW d \in Deciders, DecideMirror(d) \/ DecideMirrorSave(d) PROVE Goal
  BY <1>7, AccessMirror, Zenon
<1>8. ASSUME NEW d \in Deciders, DecideFails(d) PROVE Goal
  <2>1. /\ UNCHANGED <<rows, processor, approved, resumed>>
        /\ \A e \in Deciders :
             \/ pc'[e] \in {"idle", "derive"}
             \/ /\ pc'[e] = pc[e] /\ subject'[e] = subject[e] /\ event'[e] = event[e]
                /\ loaded'[e] = loaded[e] /\ mirror'[e] = mirror[e]
    BY <1>8, Zenon DEF DecideFails, DecideIdle, AccessTypeOK, history
  <2> QED
    BY <2>1, AccessSame, Zenon
<1>9. ASSUME Start PROVE Goal
  <2>1. /\ UNCHANGED <<session, recorded, legacy, approved, resumed, rpPc, rpSubject,
                       pc, subject, event, loaded, mirror>>
        /\ \A s \in Subjects :
             /\ status'[<<s, "own">>] = status[<<s, "own">>]
             /\ status'[<<s, "copy">>] \in {status[<<s, "copy">>], FromSession(s)}
    BY <1>9, Zenon DEF Start, Migrate, GrantIds, Kinds, processor, decisions, history
  <2>2. GrantsInv'
    BY <1>0, <2>1, RowsBacked, ZenonT(60) DEF GrantsInv, Backed, SuspendedUnapproved, Kinds
  <2>3. CarriedInv'
    BY <1>0, <2>1, Zenon DEF CarriedInv, SuspendedUnapproved, Refused
  <2>4. EndedInv'
    <3>1. Ended' = Ended /\ Refused' = Refused
      BY <2>1, Zenon DEF Ended, Refused
    <3>2. \A s \in Ended \union Refused : s \in Subjects /\ Untouched(s)'
      BY <1>0, <2>1, Zenon DEF EndedInv, Untouched, Ended, Refused
    <3>3. /\ \A s \in Ended : status'[<<s, "copy">>] \in {"none"} \union Terminal
          /\ \A s \in Refused : status'[<<s, "copy">>] = "none"
      BY <1>0, <2>1, <3>2, RowsBacked, Zenon DEF EndedInv
    <3> QED
      BY <1>0, <2>1, <3>1, <3>2, <3>3, Zenon DEF EndedInv
  <2> QED
    BY <2>2, <2>3, <2>4, Zenon
<1>10. ASSUME RequestFails \/ Tick \/ Halt \/ UNCHANGED vars PROVE Goal
  <2>1. /\ UNCHANGED <<rows, approved, resumed>>
        /\ rpPc' = "idle" \/ UNCHANGED processor
        /\ \A e \in Deciders :
             \/ pc'[e] \in {"idle", "derive"}
             \/ /\ pc'[e] = pc[e] /\ subject'[e] = subject[e] /\ event'[e] = event[e]
                /\ loaded'[e] = loaded[e] /\ mirror'[e] = mirror[e]
    BY <1>10, Zenon DEF RequestFails, Tick, Halt, RpIdle, vars, decisions, history
  <2> QED
    BY <2>1, AccessSame, Zenon
<1>11. Goal
  BY <1>1, <1>2, <1>3, <1>4, <1>5, <1>6, <1>7, <1>8, <1>9, <1>10, Zenon
     DEF Next, DecideStep
<1>12. ApprovalPrecedesAuthority'
  BY <1>11, FromParts, PTL
<1> QED
  BY <1>11, <1>12, Zenon DEF AccessInvariant

\* Type correctness of the authorization records.
THEOREM TypeCorrect == Spec => []AccessTypeOK
<1>1. Init => AccessTypeOK
  BY InitFacts, Zenon
<1> QED
  BY <1>1, TypeStep, PTL DEF Spec

\* What decisions carry between their calls (decide_session) is approved, and
\* no decision gets hold of a subject that had ended.
THEOREM AccessInvariantHolds == Spec => []AccessInvariant
<1>1. Init => AccessInvariant
  BY InitFacts, Zenon
<1>2. AccessTypeOK /\ AccessTypeOK' /\ AccessInvariant /\ [Next]_vars
        => AccessInvariant'
  BY AccessStep, Zenon
<1> QED
  BY <1>1, <1>2, TypeCorrect, PTL DEF Spec

\* Types and carried authority together: the inductive invariant of the tables.
THEOREM AccessHolds == Spec => []AccessInductive
BY TypeCorrect, AccessInvariantHolds, PTL DEF AccessInductive

\* Under any interleaving of any number of clients, failed writes, restarts
\* and migrations, over any rows an earlier build left, no grant is active or
\* suspended and no row stands for one unless the subject has an approval, but
\* for rows left suspended without one; and those become active only when the
\* local user resumes them (decide_session, grant_from_legacy_session).
THEOREM NoAuthorityWithoutApproval == Spec => []ApprovalPrecedesAuthority
<1>1. AccessInvariant => ApprovalPrecedesAuthority
  BY Zenon DEF AccessInvariant
<1> QED
  BY <1>1, AccessInvariantHolds, PTL

\* What was revoked or expired before the authorization model existed, and what
\* the adapter refuses as inconsistent, never stands for authority again
\* (grant_from_legacy_session, migrate_legacy_sessions).
THEOREM LegacyHolds == Spec => []LegacyFailsClosed
<1>1. AccessInvariant /\ AccessTypeOK => LegacyFailsClosed
  <2> SUFFICES ASSUME AccessInvariant, AccessTypeOK,
                      NEW s \in Subjects, s \in Ended \union Refused
               PROVE  Authority(s) \notin Live
    BY Zenon DEF LegacyFailsClosed, Ended, Refused
  <2>1. FromSession(s) \in {"none"} \union Terminal
    BY RowsBacked, Zenon DEF AccessInvariant
  <2>2. /\ status[<<s, "own">>] = "none"
        /\ status[<<s, "copy">>] \in {"none"} \union Terminal
    BY Zenon DEF AccessInvariant, EndedInv, Untouched
  <2> QED
    BY <2>1, <2>2, Zenon DEF Authority, Selected, HasGrant, Kinds, Live, Terminal
<1> QED
  BY <1>1, AccessInvariantHolds, TypeCorrect, PTL

-----------------------------------------------------------------------------
(* One local client at a time: the refinement.                             *)

\* At most one local connection makes decisions.
OneClient == \A d, e \in Deciders : d = e

\* A decision that loads a grant holds it as it is.
LEMMA LoadTaken ==
  ASSUME OneClient, AccessTypeOK, LoadIsCurrent, NEW d \in Deciders,
         NEW s \in Subjects, NEW ev \in Events, DecideLoad(d, s, ev)
  PROVE  LoadIsCurrent'
<1>1. /\ UNCHANGED <<session, status, rpPc, rpSubject>> /\ phase' = "up"
      /\ pc'[d] = "save" /\ subject'[d] = s /\ grant'[d] = Selected(s)
      /\ loaded'[d] = status[<<s, Selected(s)>>]
  BY Zenon DEF DecideLoad, Up, AccessTypeOK, rows, processor, daemon
<1>2. \A e \in Deciders : e = d
  BY Zenon DEF OneClient
<1> QED
  BY <1>1, <1>2, ZenonT(60) DEF LoadIsCurrent

\* With one client, nothing moves between a decision's load and its save.
LEMMA LoadStep ==
  ASSUME OneClient, AccessTypeOK, AccessTypeOK', LoadIsCurrent, [Next]_vars
  PROVE  LoadIsCurrent'
<1> USE DEF AccessTypeOK, daemon, rows, processor, decisions, GrantIds, Kinds,
        LoadIsCurrent, Up
<1>1. ASSUME NEW r \in Request, NEW s \in Subjects, RequestSaveSession(r, s)
      PROVE  LoadIsCurrent'
  BY <1>1, SMTT(60) DEF RequestSaveSession
<1>2. CASE RequestSaveGrant
  <2>1. \A d \in Deciders : pc[d] = "save" => loaded[d] # "none"
    BY TransitionFacts, SMTT(60) DEF NextStatus
  <2> QED
    BY <1>2, <2>1, SMTT(60) DEF RequestSaveGrant, SavePendingGrant, RpIdle
<1>3. CASE RequestFails
  BY <1>3, Zenon DEF RequestFails, RpIdle
<1>4. ASSUME NEW d \in Deciders, NEW s \in Subjects, NEW ev \in Events,
             DecideLoad(d, s, ev)
      PROVE  LoadIsCurrent'
  BY <1>4, LoadTaken, Zenon
<1>5. ASSUME NEW d \in Deciders, NEW s \in Subjects, NEW ev \in Events,
             DecideMiss(d, s, ev)
      PROVE  LoadIsCurrent'
  BY <1>5, SMTT(60) DEF DecideMiss, HasGrant
<1>6. ASSUME NEW d \in Deciders, DecideDerive(d) PROVE LoadIsCurrent'
  <2>1. CASE pc'[d] = "save"
    BY <1>6, <2>1, SMTT(60) DEF DecideDerive, DecideIdle
  <2>2. CASE pc'[d] # "save"
    BY <1>6, <2>2, SMTT(60) DEF DecideDerive, DecideIdle
  <2> QED
    BY <2>1, <2>2, Zenon
<1>7. ASSUME NEW d \in Deciders, DecideSave(d) PROVE LoadIsCurrent'
  <2>1. pc[d] = "save" /\ loaded[d] # "none" /\ subject[d] \in Subjects
    BY <1>7, TransitionFacts, SMTT(60) DEF DecideSave, NextStatus
  <2>2. grant[d] = "own" => session[subject[d]] # "none"
    <3>1. ASSUME grant[d] = "own" PROVE status[<<subject[d], grant[d]>>] = loaded[d]
      BY <2>1, <3>1, Zenon
    <3> QED
      BY <2>1, <3>1, SMTT(60)
  <2>3. \A e \in Deciders : pc'[e] = IF e = d THEN "mirror" ELSE pc[e]
    BY <1>7, SMTT(60) DEF DecideSave
  <2> QED
    BY <1>7, <2>1, <2>2, <2>3, SMTT(60) DEF DecideSave, OneClient
<1>8. ASSUME NEW d \in Deciders, DecideMirror(d) PROVE LoadIsCurrent'
  <2> DEFINE st == SessionTransition(session[subject[d]], event[d])
  <2>1. event[d] \in Events /\ UNCHANGED <<daemon, rows, processor>>
    BY <1>8, Zenon DEF DecideMirror
  <2>2. CASE st # "refused"
    <3>1. st # "none"
      BY <2>1, <2>2, TransitionFacts, Zenon DEF Live, Terminal
    <3>2. /\ pc' = [pc EXCEPT ![d] = "mirror_save"]
          /\ mirror' = [mirror EXCEPT ![d] = st]
          /\ UNCHANGED <<subject, grant, loaded>> /\ phase = "up"
      BY <1>8, <2>2, Zenon DEF DecideMirror
    <3> HIDE DEF st
    <3> QED
      BY <2>1, <3>1, <3>2, SMTT(60)
  <2>3. CASE st = "refused"
    <3>1. \A e \in Deciders :
            /\ pc'[e] # "idle" => pc'[e] = pc[e] /\ e # d
            /\ e # d => /\ subject'[e] = subject[e] /\ grant'[e] = grant[e]
                        /\ loaded'[e] = loaded[e] /\ mirror'[e] = mirror[e]
      BY <1>8, <2>3, SMTT(60) DEF DecideMirror, Ack, DecideIdle
    <3>2. phase = "up"
      BY <1>8, Zenon DEF DecideMirror
    <3> QED
      BY <2>1, <3>1, <3>2, SMTT(60)
  <2> QED
    BY <2>2, <2>3, Zenon
<1>9. ASSUME NEW d \in Deciders, DecideMirrorSave(d) PROVE LoadIsCurrent'
  <2>1. /\ mirror[d] # "none" /\ subject[d] \in Subjects
        /\ session' = [session EXCEPT ![subject[d]] = mirror[d]]
        /\ UNCHANGED <<phase, status, rpPc, rpSubject>>
    BY <1>9, ZenonT(60) DEF DecideMirrorSave
  <2>2. \A s \in Subjects : session'[s] = "none" => session[s] = "none"
    BY <2>1
  <2>3. \A e \in Deciders :
          /\ pc'[e] # "idle" => pc'[e] = pc[e] /\ e # d
          /\ e # d => /\ subject'[e] = subject[e] /\ grant'[e] = grant[e]
                      /\ loaded'[e] = loaded[e] /\ mirror'[e] = mirror[e]
    BY <1>9 DEF DecideMirrorSave, Ack, DecideIdle
  <2> QED
    BY <1>9, <2>1, <2>2, <2>3, SMTT(60) DEF DecideMirrorSave
<1>10. ASSUME NEW d \in Deciders, DecideFails(d) PROVE LoadIsCurrent'
  BY <1>10, SMTT(60) DEF DecideFails, DecideIdle
<1>11. CASE Start
  BY <1>11, SMTT(60) DEF Start, Migrate
<1>12. CASE Tick \/ Halt \/ UNCHANGED vars
  BY <1>12, SMTT(60) DEF Tick, Halt, RpIdle, vars
<1> HIDE DEF AccessTypeOK, LoadIsCurrent
<1> QED
  BY <1>1, <1>2, <1>3, <1>4, <1>5, <1>6, <1>7, <1>8, <1>9, <1>10, <1>11, <1>12, Zenon
     DEF Next, DecideStep

\* The decision in hand is current in every state one client can reach.
THEOREM LoadHolds == ASSUME OneClient PROVE Spec => []LoadIsCurrent
<1>1. Init => LoadIsCurrent
  BY InitFacts, Zenon
<1>2. AccessTypeOK /\ AccessTypeOK' /\ LoadIsCurrent /\ [Next]_vars
        => LoadIsCurrent'
  BY LoadStep, Zenon
<1> QED
  BY <1>1, <1>2, TypeCorrect, PTL DEF Spec

\* The lifecycle is stated with the same grant machine.
LEMMA SameMachine ==
  /\ Lifecycle!Live = Live /\ Lifecycle!Terminal = Terminal
  /\ Lifecycle!Events = Events
  /\ \A st, ev : Lifecycle!GrantTransition(st, ev) = GrantTransition(st, ev)
BY Zenon DEF Lifecycle!Live, Live, Lifecycle!Terminal, Terminal, Lifecycle!Events,
       Events, Lifecycle!GrantTransition, GrantTransition

\* Each step of the code is a creation, one transition or a stutter.
LEMMA LifecycleStep ==
  ASSUME AccessTypeOK, AccessTypeOK', LoadIsCurrent, [Next]_vars
  PROVE  [Lifecycle!Next]_status
<1> USE SameMachine DEF AccessTypeOK, LoadIsCurrent, GrantIds, Kinds, Statuses
<1>1. CASE RequestSaveGrant
  BY <1>1, ZenonT(60) DEF RequestSaveGrant, SavePendingGrant, Lifecycle!Next, Lifecycle!Create
<1>2. ASSUME NEW d \in Deciders, DecideSave(d) PROVE Lifecycle!Next
  <2> DEFINE g == <<subject[d], grant[d]>>
  <2>1. /\ g \in GrantIds /\ event[d] \in Events
        /\ status' = [status EXCEPT ![g] = NextStatus(d)]
        /\ NextStatus(d) # "refused" /\ status[g] \in {loaded[d], "none"}
    BY <1>2, Zenon DEF DecideSave
  <2>2. CASE status[g] = loaded[d]
    <3>1. Lifecycle!GrantTransition(status[g], event[d]) = NextStatus(d)
      BY <2>2, Zenon DEF NextStatus
    <3>2. Lifecycle!Decide(g, event[d])
      BY <2>1, <3>1, Zenon DEF Lifecycle!Decide
    <3> QED
      BY <2>1, <3>2, Zenon DEF Lifecycle!Next
  <2>3. CASE status[g] = "none"
    BY <2>1, <2>3, ZenonT(60) DEF Lifecycle!Next, Lifecycle!Create
  <2> QED
    BY <2>1, <2>2, <2>3, Zenon
<1>3. CASE Start
  BY <1>3, Zenon DEF Start, Migrate, Lifecycle!Next, Lifecycle!Create
<1>4. ASSUME NEW r \in Request, NEW s \in Subjects, RequestSaveSession(r, s)
      PROVE  UNCHANGED status
  BY <1>4, Zenon DEF RequestSaveSession
<1>5. ASSUME NEW d \in Deciders, NEW s \in Subjects, NEW ev \in Events,
             DecideLoad(d, s, ev) \/ DecideMiss(d, s, ev)
      PROVE  UNCHANGED status
  BY <1>5, Zenon DEF DecideLoad, DecideMiss, rows
<1>6. ASSUME NEW d \in Deciders, DecideDerive(d) \/ DecideMirror(d) \/
             DecideMirrorSave(d) \/ DecideFails(d)
      PROVE  UNCHANGED status
  BY <1>6, Zenon DEF DecideDerive, DecideMirror, DecideMirrorSave, DecideFails, rows
<1>7. CASE RequestFails \/ Tick \/ Halt \/ UNCHANGED vars
  BY <1>7, Zenon DEF RequestFails, Tick, Halt, vars, rows
<1> QED
  BY <1>1, <1>2, <1>3, <1>4, <1>5, <1>6, <1>7, Zenon DEF Next, DecideStep

\* With one local client at a time, the daemon's load-decide-save on the grant
\* table implements the promised lifecycle: no grant changes except by one
\* atomic transition, and a terminal grant stays terminal.
THEOREM ImplementsLifecycle == ASSUME OneClient PROVE Spec => FollowsLifecycle
<1>1. Init => Lifecycle!Init
  BY Zenon DEF Init, Lifecycle!Init
<1>2. AccessTypeOK /\ AccessTypeOK' /\ LoadIsCurrent /\ [Next]_vars
        => [Lifecycle!Next]_status
  BY LifecycleStep, Zenon
<1> QED
  BY <1>1, <1>2, TypeCorrect, LoadHolds, PTL
     DEF Spec, FollowsLifecycle, Lifecycle!Spec

\* So the comment on AuthorizationStatus::Revoked, "Terminal and irreversible
\* for this grant id", is true of the daemon as long as its local clients take
\* turns; it takes two decisions at a time for decide_session to lose one.
THEOREM RevokedStays == ASSUME OneClient PROVE Spec => RevokedIsIrreversible
<1> DEFINE Stays == \A g \in GrantIds : status[g] = "revoked" => status'[g] = "revoked"
<1>1. ASSUME [Lifecycle!Next]_status PROVE Stays
  <2>1. CASE Lifecycle!Create
    BY <2>1, Zenon DEF Lifecycle!Create
  <2>2. ASSUME NEW g \in GrantIds, NEW ev \in Events, Lifecycle!Decide(g, ev) PROVE Stays
    <3>1. Lifecycle!GrantTransition(status[g], ev) # "refused"
      BY <2>2, Zenon DEF Lifecycle!Decide
    <3>2. status[g] # "revoked"
      BY <3>1, Zenon DEF Lifecycle!GrantTransition, Lifecycle!Live
    <3> QED
      BY <2>2, <3>2 DEF Lifecycle!Decide
  <2> QED
    BY <1>1, <2>1, <2>2, Zenon DEF Lifecycle!Next, Lifecycle!Events, Events
<1>2. AccessTypeOK /\ AccessTypeOK' /\ LoadIsCurrent /\ [Next]_vars => [Stays]_vars
  BY <1>1, LifecycleStep, Zenon
<1> QED
  BY <1>2, TypeCorrect, LoadHolds, PTL DEF Spec, RevokedIsIrreversible

-----------------------------------------------------------------------------
(* One local client at a time: requests do not stack, withdrawals hold.    *)

\* While its own grant is still to be saved, a request stays the only one of
\* its contents, and no two live grants of their own answer the same request.
LEMMA RequestStep ==
  ASSUME AccessTypeOK, AccessTypeOK', LoadIsCurrent, RequestsDoNotStack,
         RequestInv, [Next]_vars
  PROVE  RequestsDoNotStack' /\ RequestInv'
<1> DEFINE Inv == RequestsDoNotStack /\ RequestInv
           LiveOwn(s) == status[<<s, "own">>] \in Live
<1> USE DEF AccessTypeOK, GrantIds, Kinds, RequestsDoNotStack, RequestInv
<1>1. ASSUME NEW r \in Request, NEW s \in Subjects, RequestSaveSession(r, s)
      PROVE  Inv'
  <2>1. \A t \in Subjects : LiveOwn(t) => reqOf[t] # r
    <3> SUFFICES ASSUME NEW t \in Subjects, LiveOwn(t), reqOf[t] = r PROVE FALSE
      OBVIOUS
    <3>1. r = [scope |-> r.scope, verified |-> r.verified] /\ r.verified \in BOOLEAN
      BY AccessAssumption, Zenon DEF Request
    <3>2. Answers(<<t, "own">>) = r
      BY <3>1, Zenon DEF Answers
    <3> QED
      BY <1>1, <3>2 DEF RequestSaveSession, FindLiveRequest
  <2>2. ~LiveOwn(s)
    BY <1>1, Zenon DEF RequestSaveSession, LoadIsCurrent, Live
  <2> QED
    BY <1>1, <2>1, <2>2 DEF RequestSaveSession
<1>2. CASE RequestSaveGrant
  BY <1>2, ZenonT(60) DEF RequestSaveGrant, SavePendingGrant, RpIdle
<1>3. CASE RequestFails
  BY <1>3, Zenon DEF RequestFails, RpIdle, rows
<1>4. ASSUME NEW d \in Deciders, DecideSave(d) PROVE Inv'
  <2>1. /\ subject[d] \in Subjects /\ event[d] \in Events
        /\ loaded[d] \in Live
    BY <1>4, MachineFacts DEF DecideSave, NextStatus
  <2>2. grant[d] = "own" => LiveOwn(subject[d])
    BY <1>4, <2>1, Zenon DEF DecideSave, LoadIsCurrent
  <2>3. \A t \in Subjects : LiveOwn(t)' => LiveOwn(t)
    BY <1>4, <2>1, <2>2, ZenonT(60) DEF DecideSave
  <2> QED
    BY <1>4, <2>3, Zenon DEF DecideSave, processor
<1>5. CASE Start
  BY <1>5, ZenonT(60) DEF Start, Migrate, processor
<1>6. CASE Halt
  BY <1>6, Zenon DEF Halt, RpIdle, rows
<1>7. CASE UNCHANGED <<status, reqOf, rpPc, rpSubject>>
  BY <1>7, Zenon
<1>8. ASSUME NEW d \in Deciders, NEW s \in Subjects, NEW ev \in Events,
             DecideLoad(d, s, ev) \/ DecideMiss(d, s, ev)
      PROVE  UNCHANGED <<status, reqOf, rpPc, rpSubject>>
  BY <1>8, Zenon DEF DecideLoad, DecideMiss, rows, processor
<1>9. ASSUME NEW d \in Deciders, DecideDerive(d) \/ DecideMirror(d) \/
             DecideMirrorSave(d) \/ DecideFails(d)
      PROVE  UNCHANGED <<status, reqOf, rpPc, rpSubject>>
  BY <1>9, Zenon
     DEF DecideDerive, DecideMirror, DecideMirrorSave, DecideFails, rows, processor
<1>10. CASE Tick \/ UNCHANGED vars
  BY <1>10, Zenon DEF Tick, vars, rows, processor
<1> HIDE DEF AccessTypeOK, RequestsDoNotStack, RequestInv
<1> QED
  BY <1>1, <1>2, <1>3, <1>4, <1>5, <1>6, <1>7, <1>8, <1>9, <1>10, Zenon
     DEF Next, DecideStep

\* With one local client at a time, a replayed session request never leads to
\* a second live grant of its own beside an identical one: find_live_request
\* and the save of the new grant are two calls, and what lies between them
\* cannot bring an identical grant to life.
THEOREM RequestsNeverStack == ASSUME OneClient PROVE Spec => []RequestsDoNotStack
<1>1. Init => RequestsDoNotStack /\ RequestInv
  BY DEF Init, RequestsDoNotStack, RequestInv, GrantIds, Kinds, Live
<1>2. AccessTypeOK /\ AccessTypeOK' /\ LoadIsCurrent /\ RequestsDoNotStack
        /\ RequestInv /\ [Next]_vars => RequestsDoNotStack' /\ RequestInv'
  BY RequestStep, Zenon
<1> QED
  BY <1>1, <1>2, TypeCorrect, LoadHolds, PTL DEF Spec

\* Which grant a subject is judged by depends on its own two grants alone.
LEMMA SameGrants ==
  ASSUME NEW s, first[s] \in Kinds, first'[s] = first[s],
         status'[<<s, "own">>] = status[<<s, "own">>],
         status'[<<s, "copy">>] = status[<<s, "copy">>]
  PROVE  /\ Selected(s)' = Selected(s) /\ HasGrant(s)' = HasGrant(s)
         /\ status'[<<s, Selected(s)'>>] = status[<<s, Selected(s)>>]
<1>1. Selected(s)' = Selected(s) /\ HasGrant(s)' = HasGrant(s)
  BY Zenon DEF Selected, HasGrant, Kinds
<1>2. Selected(s) = "own" \/ Selected(s) = "copy"
  BY Zenon DEF Selected, Kinds
<1>3. status'[<<s, Selected(s)'>>] = status[<<s, Selected(s)>>]
  BY <1>1, <1>2, Zenon
<1> QED
  BY <1>1, <1>3, Zenon

\* A step that leaves the tables alone leaves what is said of them alone.
LEMMA SameRows ==
  ASSUME AccessTypeOK, UNCHANGED rows
  PROVE  /\ \A s \in Subjects : /\ Selected(s)' = Selected(s)
                                /\ NotActive(s) => NotActive(s)'
         /\ \A s \in Subjects : (RowInv(s) /\ phase' = phase) => RowInv(s)'
<1>1. UNCHANGED <<session, status, first>> /\ \A s \in Subjects : FromSession(s)' = FromSession(s)
  BY SameRow, Zenon DEF rows
<1>2. \A s \in Subjects : first[s] \in Kinds
  BY Zenon DEF AccessTypeOK
<1>3. ASSUME NEW s \in Subjects
      PROVE  Selected(s)' = Selected(s) /\ (NotActive(s) => NotActive(s)')
  <2>1. /\ Selected(s)' = Selected(s) /\ HasGrant(s)' = HasGrant(s)
        /\ status'[<<s, Selected(s)'>>] = status[<<s, Selected(s)>>]
    BY <1>1, <1>2, SameGrants, Zenon
  <2> QED
    BY <1>1, <2>1, Zenon DEF NotActive
<1>4. ASSUME NEW s \in Subjects, RowInv(s), phase' = phase PROVE RowInv(s)'
  BY <1>1, <1>4, Zenon DEF RowInv
<1> QED
  BY <1>3, <1>4, Zenon

\* What one client still holds, it held before, if the tables are unchanged
\* and its decision is, or is given up.
LEMMA SameHeld ==
  ASSUME AccessTypeOK, UNCHANGED rows, NEW d \in Deciders, HeldInv(d),
         pc'[d] = "idle" \/
           (/\ pc'[d] = pc[d] /\ subject'[d] = subject[d] /\ event'[d] = event[d]
            /\ grant'[d] = grant[d] /\ loaded'[d] = loaded[d])
  PROVE  HeldInv(d)'
<1>1. /\ UNCHANGED <<session, status>>
      /\ \A s \in Subjects : Selected(s)' = Selected(s) /\ FromSession(s)' = FromSession(s)
  BY SameRows, SameRow, Zenon DEF rows
<1>2. pc[d] # "idle" => subject[d] \in Subjects
  BY Zenon DEF AccessTypeOK
<1>3. CASE pc'[d] = "idle"
  BY <1>3, Zenon DEF HeldInv
<1>4. CASE /\ pc'[d] = pc[d] /\ subject'[d] = subject[d] /\ event'[d] = event[d]
           /\ grant'[d] = grant[d] /\ loaded'[d] = loaded[d]
  <2>1. NextStatus(d)' = NextStatus(d)
    BY <1>4, Zenon DEF NextStatus
  <2> HIDE DEF NextStatus
  <2> QED
    BY <1>1, <1>2, <1>4, <2>1, Zenon DEF HeldInv
<1> QED
  BY <1>3, <1>4, Zenon

\* A new request and its pending grant: the subject is fresh, and a pending
\* grant is not an active one.
LEMMA WithdrawalRequest ==
  ASSUME AccessTypeOK, LoadIsCurrent, WithdrawalInv,
         \/ \E r \in Request, s \in Subjects : RequestSaveSession(r, s)
         \/ RequestSaveGrant \/ RequestFails
  PROVE  WithdrawalInv'
<1>1. \A s \in Subjects : first[s] \in Kinds
  BY Zenon DEF AccessTypeOK
<1>2. \A d \in Deciders : pc[d] # "idle" => subject[d] \in Subjects
  BY Zenon DEF AccessTypeOK
<1>3. ASSUME NEW r \in Request, NEW s \in Subjects, RequestSaveSession(r, s)
      PROVE  WithdrawalInv'
  <2>1. /\ session' = [session EXCEPT ![s] = "pending"] /\ session[s] = "none"
        /\ UNCHANGED <<recorded, legacy, status, phase, pc, subject, event, grant,
                       loaded, mirror, withdrawn>>
        /\ \A t \in Subjects \ {s} : first'[t] = first[t] /\ session'[t] = session[t]
        /\ session'[s] = "pending"
    BY <1>3, Zenon DEF RequestSaveSession, AccessTypeOK, daemon, decisions, history
  <2>2. status[<<s, "own">>] = "none" /\ status[<<s, "copy">>] = "none"
    BY <2>1, Zenon DEF LoadIsCurrent, WithdrawalInv, RowInv
  <2>3. s \notin withdrawn
    BY <2>2, Zenon DEF WithdrawalInv, NotActive, HasGrant, Kinds
  <2>4. \A t \in Subjects \ {s} :
          /\ Selected(t)' = Selected(t) /\ HasGrant(t)' = HasGrant(t)
          /\ status'[<<t, Selected(t)'>>] = status[<<t, Selected(t)>>]
    BY <1>1, <2>1, SameGrants, Zenon
  <2>8. /\ \A t \in Subjects \ {s} : FromSession(t)' = FromSession(t)
        /\ FromSession(s)' # "active"
    <3>1. FromSession(s)' # "active"
      BY <2>1, Zenon DEF FromSession
    <3> QED
      BY <2>1, <3>1, SameRow, Zenon
  <2>5. ASSUME NEW t \in Subjects PROVE RowInv(t)'
    BY <2>1, <2>8, Zenon DEF RowInv, WithdrawalInv
  <2>6. ASSUME NEW d \in Deciders PROVE HeldInv(d)' /\ ReopenInv(d)'
    <3>1. NextStatus(d)' = NextStatus(d)
      BY <2>1, Zenon DEF NextStatus
    <3>2. HeldInv(d) /\ ReopenInv(d)
      BY Zenon DEF WithdrawalInv
    <3>3. pc[d] \in {"save", "mirror", "mirror_save"} =>
            subject[d] \in Subjects \ {s}
      BY <1>2, <2>1, <3>2, Zenon DEF HeldInv
    <3>4. HeldInv(d)'
      BY <2>1, <2>4, <2>8, <3>1, <3>2, <3>3, Zenon DEF HeldInv
    <3> QED
      BY <2>1, <3>2, <3>4, Zenon DEF ReopenInv
  <2>7. ASSUME NEW t \in withdrawn PROVE NotActive(t)'
    <3>1. t \in Subjects \ {s} /\ NotActive(t)
      BY <2>3, Zenon DEF WithdrawalInv, AccessTypeOK
    <3>2. /\ HasGrant(t)' = HasGrant(t) /\ FromSession(t)' = FromSession(t)
          /\ status'[<<t, Selected(t)'>>] = status[<<t, Selected(t)>>]
      BY <2>4, <2>8, <3>1, Zenon
    <3>3. status'[<<t, "copy">>] = status[<<t, "copy">>]
      BY <2>1, Zenon
    <3> QED
      BY <3>1, <3>2, <3>3, Zenon DEF NotActive
  <2> QED
    BY <2>1, <2>5, <2>6, <2>7, Zenon DEF WithdrawalInv
<1>4. CASE RequestSaveGrant
  <2>0. PICK u \in Subjects : u = rpSubject
    BY <1>4, Zenon DEF RequestSaveGrant, AccessTypeOK
  <2>1. /\ status[<<u, "own">>] = "none" /\ phase = "up"
        /\ status'[<<u, "own">>] = "pending"
        /\ status'[<<u, "copy">>] = status[<<u, "copy">>]
        /\ \A t \in Subjects \ {u}, k \in Kinds : status'[<<t, k>>] = status[<<t, k>>]
        /\ UNCHANGED <<session, recorded, legacy, first, phase, pc, subject, event,
                       grant, loaded, mirror, withdrawn>>
    BY <1>4, <2>0, SMTT(60)
       DEF RequestSaveGrant, SavePendingGrant, Up, AccessTypeOK, GrantIds, Kinds,
           LoadIsCurrent, daemon, decisions, history
  <2>2. ASSUME NEW t \in Subjects \ {u}
        PROVE  /\ Selected(t)' = Selected(t) /\ HasGrant(t)' = HasGrant(t)
               /\ status'[<<t, Selected(t)'>>] = status[<<t, Selected(t)>>]
    <3>1. /\ status'[<<t, "own">>] = status[<<t, "own">>]
          /\ status'[<<t, "copy">>] = status[<<t, "copy">>]
          /\ first'[t] = first[t] /\ first[t] \in Kinds
      BY <1>1, <2>1, Zenon DEF Kinds
    <3> QED
      BY <3>1, SameGrants, Zenon
  <2>3. /\ Selected(u) = "copy" /\ HasGrant(u)'
        /\ \/ Selected(u)' = "own"
           \/ Selected(u)' = "copy" /\ status[<<u, "copy">>] # "none"
    BY <1>1, <2>1, Zenon DEF Selected, HasGrant, Kinds
  <2>8. \A t \in Subjects : FromSession(t)' = FromSession(t)
    BY <2>1, SameRow, Zenon
  <2>4. ASSUME NEW t \in Subjects PROVE RowInv(t)'
    BY <2>1, <2>8, Zenon DEF RowInv, WithdrawalInv, Kinds
  <2>5. ASSUME NEW d \in Deciders PROVE HeldInv(d)' /\ ReopenInv(d)'
    <3>1. NextStatus(d)' = NextStatus(d)
      BY <2>1, Zenon DEF NextStatus
    <3>2. HeldInv(d) /\ ReopenInv(d)
      BY Zenon DEF WithdrawalInv
    <3>3. CASE subject[d] # u
      <4>1. grant[d] \in {"own", "copy"}
        BY Zenon DEF AccessTypeOK, Kinds
      <4> QED
        BY <1>2, <2>1, <2>2, <2>8, <3>1, <3>2, <3>3, <4>1, Zenon
           DEF HeldInv, ReopenInv, Kinds
    <3>4. CASE subject[d] = u
      <4>1. pc[d] \in {"mirror", "mirror_save"} => grant[d] = "copy"
        <5>1. grant[d] \in Kinds /\ loaded[d] \in Statuses /\ event[d] \in Events
          BY Zenon DEF AccessTypeOK
        <5>2. NextStatus(d) # "none"
          BY <5>1, MachineFacts, Zenon DEF NextStatus
        <5> QED
          BY <2>1, <3>2, <3>4, <5>1, <5>2, Zenon DEF HeldInv, Kinds
      <4> QED
        BY <2>1, <2>3, <2>8, <3>1, <3>2, <3>4, <4>1, ZenonT(60) DEF HeldInv, ReopenInv
    <3> QED
      BY <3>3, <3>4, Zenon
  <2>6. ASSUME NEW t \in withdrawn PROVE NotActive(t)'
    <3>1. t \in Subjects /\ NotActive(t)
      BY Zenon DEF AccessTypeOK, WithdrawalInv
    <3>2. CASE t # u
      <4>1. /\ FromSession(t)' = FromSession(t)
            /\ status'[<<t, "copy">>] = status[<<t, "copy">>]
        BY <2>1, <2>8, <3>1, <3>2, Zenon DEF Kinds
      <4> QED
        BY <2>2, <3>1, <3>2, <4>1, Zenon DEF NotActive
    <3>3. CASE t = u
      BY <2>1, <2>3, <2>8, <3>1, <3>3, Zenon DEF NotActive
    <3> QED
      BY <3>2, <3>3, Zenon
  <2> QED
    BY <2>1, <2>4, <2>5, <2>6, Zenon DEF WithdrawalInv
<1>5. CASE RequestFails
  <2>1. UNCHANGED <<rows, phase, pc, subject, event, grant, loaded, mirror, withdrawn>>
    BY <1>5, Zenon DEF RequestFails, daemon, decisions, history
  <2>2. withdrawn \subseteq Subjects
    BY Zenon DEF AccessTypeOK
  <2>3. \A d \in Deciders : HeldInv(d)' /\ ReopenInv(d)'
    BY <2>1, SameHeld, Zenon DEF WithdrawalInv, ReopenInv
  <2> QED
    BY <2>1, <2>2, <2>3, SameRows, Zenon DEF WithdrawalInv
<1> QED
  BY <1>3, <1>4, <1>5, Zenon

\* A decision that loads, falls back to the session row or is given up: the
\* tables stand, and only what was reopened is approved or resumed.
LEMMA WithdrawalLoad ==
  ASSUME OneClient, AccessTypeOK, AccessTypeOK', LoadIsCurrent, WithdrawalInv,
         NEW d \in Deciders,
         \/ \E s \in Subjects, ev \in Events :
              DecideLoad(d, s, ev) \/ DecideMiss(d, s, ev)
         \/ DecideDerive(d) \/ DecideFails(d)
  PROVE  WithdrawalInv'
<1>1. /\ UNCHANGED rows /\ phase = "up" /\ phase' = phase
      /\ withdrawn' \subseteq withdrawn /\ withdrawn \subseteq Subjects
  <2>1. ASSUME NEW s \in Subjects, NEW ev \in Events,
               DecideLoad(d, s, ev) \/ DecideMiss(d, s, ev)
        PROVE  /\ UNCHANGED rows /\ phase = "up" /\ phase' = phase
               /\ withdrawn' \subseteq withdrawn
    BY <2>1, Zenon DEF DecideLoad, DecideMiss, Reopen, Up, daemon, history
  <2>2. CASE DecideDerive(d)
    BY <2>2, Zenon DEF DecideDerive, Reopen, Up, daemon, history, AccessTypeOK
  <2>3. CASE DecideFails(d)
    BY <2>3, Zenon DEF DecideFails, Up, daemon, history, AccessTypeOK
  <2>4. withdrawn \subseteq Subjects
    BY Zenon DEF AccessTypeOK
  <2> QED
    BY <2>1, <2>2, <2>3, <2>4, Zenon
<1>2. \A s \in Subjects : Selected(s)' = Selected(s) /\ RowInv(s)'
  BY <1>1, SameRows, Zenon DEF WithdrawalInv
<1>3. \A s \in withdrawn' : NotActive(s)'
  BY <1>1, SameRows, Zenon DEF WithdrawalInv
<1>4. UNCHANGED <<session, status>> /\ \A s \in Subjects : FromSession(s)' = FromSession(s)
  BY <1>1, SameRow, Zenon DEF rows
<1>5. HeldInv(d) /\ ReopenInv(d)
  BY Zenon DEF WithdrawalInv
<1>6. SUFFICES HeldInv(d)' /\ ReopenInv(d)'
  BY <1>2, <1>3, Zenon DEF WithdrawalInv, OneClient
<1>7. ASSUME NEW s \in Subjects, NEW ev \in Events, DecideLoad(d, s, ev)
      PROVE  HeldInv(d)' /\ ReopenInv(d)'
  <2>1. /\ pc'[d] = "save" /\ subject'[d] = s /\ event'[d] = ev
        /\ grant'[d] = Selected(s) /\ HasGrant(s)
        /\ GrantTransition(status[<<s, Selected(s)>>], ev) # "refused"
        /\ ev \in {"approve", "resume"} => s \notin withdrawn'
    BY <1>7, ZenonT(60) DEF DecideLoad, Reopen, AccessTypeOK
  <2>2. session[s] # "none"
    <3>1. status[<<s, "own">>] # "none" \/ status[<<s, "copy">>] # "none"
      BY <2>1, Zenon DEF HasGrant, Kinds
    <3>2. session[s] = "none" => status[<<s, "own">>] = "none"
      BY Zenon DEF LoadIsCurrent
    <3>3. session[s] = "none" => status[<<s, "copy">>] = "none"
      BY Zenon DEF WithdrawalInv, RowInv
    <3> QED
      BY <3>1, <3>2, <3>3, Zenon
  <2>3. ev = "deny" => status[<<s, Selected(s)>>] = "pending"
    <3>1. GrantTransition(status[<<s, Selected(s)>>], "deny") # "refused" =>
            status[<<s, Selected(s)>>] = "pending"
      BY <1>7, MachineFacts, Zenon
    <3> QED
      BY <2>1, <3>1, Zenon
  <2>4. (ev = "deny" /\ status[<<s, "copy">>] = "none") => FromSession(s) # "active"
    <3>1. status[<<s, "copy">>] = "none" => Selected(s) = "own"
      BY <2>1, Zenon DEF HasGrant, Kinds, Selected
    <3>2. RowInv(s)
      BY Zenon DEF WithdrawalInv
    <3> QED
      BY <1>1, <2>3, <3>1, <3>2, Zenon DEF RowInv
  <2> QED
    BY <1>2, <1>4, <2>1, <2>2, <2>4, Zenon DEF HeldInv, ReopenInv
<1>8. ASSUME NEW s \in Subjects, NEW ev \in Events, DecideMiss(d, s, ev)
      PROVE  HeldInv(d)' /\ ReopenInv(d)'
  <2>1. /\ pc'[d] = "derive" /\ subject'[d] = s /\ ~HasGrant(s)
        /\ withdrawn' = withdrawn
    BY <1>8, Zenon DEF DecideMiss, AccessTypeOK, history
  <2>2. s \notin withdrawn /\ status[<<s, "own">>] = "none"
    BY <2>1, Zenon DEF WithdrawalInv, NotActive, HasGrant, Kinds
  <2>3. pc'[d] \notin {"save", "mirror", "mirror_save"} /\ pc'[d] # "mirror_save"
    BY <2>1, Zenon
  <2>4. status'[<<subject'[d], "own">>] = "none" /\ subject'[d] \notin withdrawn'
    BY <1>4, <2>1, <2>2, Zenon
  <2> QED
    BY <2>3, <2>4, Zenon DEF HeldInv, ReopenInv
<1>9. CASE DecideDerive(d)
  <2>0. PICK s \in Subjects : s = subject[d]
    BY <1>9, ZenonT(60) DEF DecideDerive, AccessTypeOK
  <2> DEFINE st == FromSession(s)
  <2>1. CASE GrantTransition(st, event[d]) # "refused"
    <3>1. /\ pc[d] = "derive" /\ pc'[d] = "save" /\ grant'[d] = "copy"
          /\ subject'[d] = s /\ event'[d] = event[d]
          /\ event[d] \in {"approve", "resume"} => s \notin withdrawn'
      BY <1>9, <2>0, <2>1, Zenon DEF DecideDerive, Reopen, AccessTypeOK
    <3>2. st \in Live /\ (event[d] = "deny" => st = "pending")
      <4>1. event[d] \in Events
        BY Zenon DEF AccessTypeOK
      <4> HIDE DEF st
      <4> QED
        BY <2>1, <4>1, MachineFacts, Zenon
    <3>3. session[s] # "none" /\ (event[d] = "deny" => FromSession(s) # "active")
      BY <3>2, StandsFor, Zenon DEF Live
    <3>4. /\ status[<<s, "copy">>] = "none"
          /\ status[<<s, "own">>] \in {"none", "pending"}
      BY <1>5, <2>0, <3>1, Zenon DEF LoadIsCurrent, HeldInv
    <3>5. Selected(s) = "copy" \/ status[<<s, Selected(s)>>] = "pending"
      BY <3>4, Zenon DEF Selected
    <3> HIDE DEF st
    <3> QED
      BY <1>2, <1>4, <3>1, <3>3, <3>5, Zenon DEF HeldInv, ReopenInv
  <2>2. CASE GrantTransition(st, event[d]) = "refused"
    <3>1. pc'[d] = "idle"
      BY <1>9, <2>0, <2>2, Zenon DEF DecideDerive, DecideIdle, AccessTypeOK
    <3> QED
      BY <3>1, Zenon DEF HeldInv, ReopenInv
  <2> QED
    BY <2>1, <2>2, Zenon
<1>10. CASE DecideFails(d)
  <2>1. pc'[d] = "idle"
    BY <1>10, Zenon DEF DecideFails, DecideIdle, AccessTypeOK
  <2> QED
    BY <2>1, Zenon DEF HeldInv, ReopenInv
<1> QED
  BY <1>7, <1>8, <1>9, <1>10, Zenon

\* The save of a decision: the grant it holds is as it was loaded, and unless
\* the subject was reopened it does not become active.
LEMMA WithdrawalSave ==
  ASSUME OneClient, AccessTypeOK, LoadIsCurrent, WithdrawalInv,
         NEW d \in Deciders, DecideSave(d)
  PROVE  WithdrawalInv'
<1>1. PICK s \in Subjects, k \in Kinds, st \in {NextStatus(d)} :
        s = subject[d] /\ k = grant[d] /\ st = NextStatus(d)
  BY Zenon DEF DecideSave, AccessTypeOK
<1>2. /\ pc[d] = "save" /\ pc'[d] = "mirror" /\ phase = "up"
      /\ status'[<<s, k>>] = st
      /\ \A t \in Subjects, j \in Kinds :
           (t # s \/ j # k) => status'[<<t, j>>] = status[<<t, j>>]
      /\ UNCHANGED <<session, recorded, legacy, first, phase, subject, event, grant,
                     loaded, mirror, withdrawn>>
      /\ \A t \in Subjects : FromSession(t)' = FromSession(t)
  <2>1. UNCHANGED <<session, recorded, legacy>>
    BY Zenon DEF DecideSave
  <2>2. \A t \in Subjects : FromSession(t)' = FromSession(t)
    BY <2>1, SameRow, Zenon
  <2> QED
    BY <1>1, <2>1, <2>2, Zenon DEF DecideSave, Up, AccessTypeOK, GrantIds, daemon
<1>3. /\ st \notin {"none", "pending"}
      /\ st = "active" => event[d] \in {"approve", "resume"}
  <2>1. event[d] \in Events
    BY Zenon DEF AccessTypeOK
  <2> QED
    BY <1>1, <2>1, MachineFacts, Zenon DEF NextStatus
<1>4. NextStatus(d)' = st
  BY <1>1, <1>2, Zenon DEF NextStatus
<1>5. HeldInv(d) /\ ReopenInv(d) /\ RowInv(s) /\ first[s] \in Kinds
  BY Zenon DEF WithdrawalInv, AccessTypeOK
<1>6. status[<<s, k>>] # "none" \/ k = "copy"
  <2>1. loaded[d] # "none"
    <3>1. event[d] \in Events /\ NextStatus(d) # "refused"
      BY <1>2, Zenon DEF AccessTypeOK
    <3> QED
      BY <3>1, MachineFacts DEF NextStatus, Live
  <2> QED
    BY <1>1, <1>2, <2>1, Zenon DEF LoadIsCurrent
<1>7. ASSUME NEW t \in Subjects, t # s
      PROVE  RowInv(t)' /\ (NotActive(t) => NotActive(t)')
  <2>1. /\ status'[<<t, "own">>] = status[<<t, "own">>]
        /\ status'[<<t, "copy">>] = status[<<t, "copy">>]
        /\ first'[t] = first[t] /\ first[t] \in Kinds
    BY <1>2, <1>7, Zenon DEF Kinds, AccessTypeOK
  <2>2. /\ Selected(t)' = Selected(t) /\ HasGrant(t)' = HasGrant(t)
        /\ status'[<<t, Selected(t)'>>] = status[<<t, Selected(t)>>]
    BY <2>1, SameGrants, Zenon
  <2>3. RowInv(t)
    BY Zenon DEF WithdrawalInv
  <2> QED
    BY <1>2, <2>1, <2>2, <2>3, Zenon DEF RowInv, NotActive
<1>8. RowInv(s)'
  BY <1>1, <1>2, <1>3, <1>5, ZenonT(60) DEF RowInv, HeldInv, Kinds
<1>9. /\ HasGrant(s)'
      /\ \/ Selected(s)' = k
         \/ /\ Selected(s)' # k /\ Selected(s)' = Selected(s) /\ Selected(s) \in Kinds
            /\ status'[<<s, Selected(s)>>] = status[<<s, Selected(s)>>]
  BY <1>2, <1>3, <1>5, <1>6, Zenon DEF Selected, HasGrant, Kinds
<1>10. HeldInv(d)' /\ ReopenInv(d)'
  BY <1>1, <1>2, <1>3, <1>4, <1>5, <1>9, ZenonT(60) DEF HeldInv, ReopenInv, Kinds
<1>11. ASSUME NotActive(s), s \in withdrawn PROVE NotActive(s)'
  BY <1>1, <1>2, <1>3, <1>5, <1>9, <1>11, ZenonT(60) DEF NotActive, ReopenInv, Kinds
<1>12. withdrawn \subseteq Subjects
  BY Zenon DEF AccessTypeOK
<1> QED
  BY <1>2, <1>7, <1>8, <1>10, <1>11, <1>12, Zenon DEF WithdrawalInv, OneClient

\* The mirror and the acknowledgement: what is acknowledged as withdrawn has
\* no active grant, and no active row that a migration would copy.
LEMMA WithdrawalMirror ==
  ASSUME OneClient, AccessTypeOK, LoadIsCurrent, WithdrawalInv,
         NEW d \in Deciders, DecideMirror(d) \/ DecideMirrorSave(d)
  PROVE  WithdrawalInv'
<1>1. PICK s \in Subjects, k \in Kinds, ev \in Events, m \in {mirror[d]} :
        s = subject[d] /\ k = grant[d] /\ ev = event[d] /\ m = mirror[d]
  BY Zenon DEF DecideMirror, DecideMirrorSave, AccessTypeOK
<1>2. /\ UNCHANGED <<status, first, phase>> /\ withdrawn \subseteq Subjects
      /\ phase = "up" /\ pc[d] \in {"mirror", "mirror_save"}
  BY Zenon DEF DecideMirror, DecideMirrorSave, Up, daemon, rows, AccessTypeOK
<1>3. HeldInv(d) /\ ReopenInv(d) /\ RowInv(s)
  BY Zenon DEF WithdrawalInv
<1>4. \A t \in Subjects :
        /\ Selected(t)' = Selected(t) /\ HasGrant(t)' = HasGrant(t)
        /\ status'[<<t, Selected(t)'>>] = status[<<t, Selected(t)>>]
  BY <1>2, SameGrants, Zenon DEF AccessTypeOK
<1>5. PICK st : st = NextStatus(d)
  OBVIOUS
<1>6. /\ status[<<s, k>>] = st /\ st \notin {"none", "pending"}
      /\ st = "revoked" => ev \in {"deny", "revoke"}
  BY <1>1, <1>2, <1>3, <1>5, MachineFacts, Zenon DEF HeldInv, NextStatus
<1>7. st = "revoked" => HasGrant(s) /\ status[<<s, Selected(s)>>] # "active"
  BY <1>1, <1>2, <1>3, <1>6, Zenon DEF HasGrant, HeldInv
<1>8. CASE DecideMirror(d) /\ pc'[d] = "mirror_save"
  <2>1. /\ UNCHANGED <<rows, withdrawn>>
        /\ subject'[d] = s /\ event'[d] = ev /\ grant'[d] = k
        /\ loaded'[d] = loaded[d] /\ pc[d] = "mirror"
        /\ mirror'[d] = SessionTransition(session[s], ev)
    BY <1>1, <1>8, Zenon DEF DecideMirror, Ack, DecideIdle, AccessTypeOK, history
  <2>5. \A t \in Subjects : FromSession(t)' = FromSession(t)
    BY <2>1, SameRow, Zenon DEF rows
  <2>2. NextStatus(d)' = st
    BY <1>1, <1>5, <2>1, Zenon DEF NextStatus
  <2>3. mirror'[d] = "active" => ev \in {"approve", "resume"}
    BY <1>1, <2>1, MachineFacts, Zenon
  <2>4. HeldInv(d)' /\ ReopenInv(d)'
    BY <1>1, <1>2, <1>3, <1>4, <1>6, <1>8, <2>1, <2>2, <2>3, <2>5, Zenon
       DEF HeldInv, ReopenInv, rows
  <2> QED
    BY <1>2, <2>1, <2>4, SameRows, Zenon DEF WithdrawalInv, OneClient
<1>9. CASE DecideMirror(d) /\ pc'[d] # "mirror_save"
  <2>1. /\ UNCHANGED rows /\ pc'[d] = "idle" /\ pc[d] = "mirror"
        /\ withdrawn' = IF st = "revoked" THEN withdrawn \union {s} ELSE withdrawn
        /\ SessionTransition(session[s], ev) = "refused"
    BY <1>1, <1>5, <1>9, Zenon DEF DecideMirror, Ack, DecideIdle, AccessTypeOK
  <2>2. (st = "revoked" /\ status[<<s, "copy">>] = "none") => FromSession(s) # "active"
    <3>1. ev = "revoke" => session[s] # "active"
      BY <2>1, MachineFacts, Zenon
    <3> QED
      BY <1>1, <1>3, <1>6, <2>1, <3>1, StandsFor, Zenon DEF HeldInv
  <2>3. \A t \in withdrawn' : NotActive(t)
    BY <1>7, <2>1, <2>2, Zenon DEF WithdrawalInv, NotActive
  <2>4. withdrawn' \subseteq Subjects
    BY <1>2, <2>1, Zenon
  <2>5. HeldInv(d)' /\ ReopenInv(d)'
    BY <2>1, Zenon DEF HeldInv, ReopenInv
  <2> QED
    BY <1>2, <2>1, <2>3, <2>4, <2>5, SameRows, Zenon DEF WithdrawalInv, OneClient
<1>10. CASE DecideMirrorSave(d)
  <2>1. /\ pc'[d] = "idle" /\ pc[d] = "mirror_save" /\ m # "none"
        /\ withdrawn' = IF st = "revoked" THEN withdrawn \union {s} ELSE withdrawn
        /\ session'[s] = m /\ \A t \in Subjects \ {s} : session'[t] = session[t]
        /\ \A t \in Subjects \ {s} : FromSession(t)' = FromSession(t)
        /\ FromSession(s)' = "active" => m = "active"
    <3>1. pc'[d] = "idle" /\ pc[d] = "mirror_save"
      BY <1>10, Zenon DEF DecideMirrorSave, Ack, DecideIdle, AccessTypeOK
    <3>2. m # "none"
      BY <1>1, <3>1, Zenon DEF LoadIsCurrent
    <3>3. withdrawn' = IF st = "revoked" THEN withdrawn \union {s} ELSE withdrawn
      BY <1>1, <1>5, <1>10, Zenon DEF DecideMirrorSave, Ack
    <3>4. session'[s] = m /\ \A t \in Subjects \ {s} : session'[t] = session[t]
      BY <1>1, <1>10, Zenon DEF DecideMirrorSave, AccessTypeOK
    <3>5. UNCHANGED legacy /\ \A t \in Subjects \ {s} : t \in recorded' <=> t \in recorded
      BY <1>1, <1>10, Zenon DEF DecideMirrorSave, Records
    <3>6. FromSession(s)' = "active" => m = "active"
      BY <3>4, Zenon DEF FromSession
    <3> QED
      BY <3>1, <3>2, <3>3, <3>4, <3>5, <3>6, SameRow, Zenon
  <2>2. \A t \in Subjects \ {s} : RowInv(t)' /\ (NotActive(t) => NotActive(t)')
    BY <1>2, <1>4, <2>1, Zenon DEF WithdrawalInv, RowInv, NotActive
  <2>3. RowInv(s)'
    BY <1>2, <1>6, <2>1, Zenon DEF RowInv, Kinds
  <2>4. s \in withdrawn' => m # "active"
    BY <1>1, <1>3, <1>6, <2>1, Zenon DEF ReopenInv
  <2>5. s \in withdrawn' => HasGrant(s) /\ status[<<s, Selected(s)>>] # "active"
    BY <1>7, <2>1, Zenon DEF WithdrawalInv, NotActive
  <2>6. s \in withdrawn' => NotActive(s)'
    BY <1>4, <2>1, <2>4, <2>5, Zenon DEF NotActive
  <2>7. HeldInv(d)' /\ ReopenInv(d)'
    BY <2>1, Zenon DEF HeldInv, ReopenInv
  <2>8. \A t \in withdrawn' : t \in Subjects /\ (t # s => t \in withdrawn)
    BY <1>2, <2>1, Zenon
  <2> QED
    BY <2>2, <2>3, <2>6, <2>7, <2>8, Zenon DEF WithdrawalInv, OneClient
<1> QED
  BY <1>8, <1>9, <1>10, Zenon

\* With one client, a withdrawal leaves nothing active behind, in the grants
\* and in the row the next migration would copy, through every step.
LEMMA WithdrawalStep ==
  ASSUME OneClient, AccessTypeOK, AccessTypeOK', LoadIsCurrent, WithdrawalInv,
         [Next]_vars
  PROVE  WithdrawalInv'
<1>1. CASE \/ \E r \in Request, s \in Subjects : RequestSaveSession(r, s)
           \/ RequestSaveGrant \/ RequestFails
  BY <1>1, WithdrawalRequest, Zenon
<1>2. ASSUME NEW d \in Deciders, NEW s \in Subjects, NEW ev \in Events,
             DecideLoad(d, s, ev) \/ DecideMiss(d, s, ev)
      PROVE  WithdrawalInv'
  BY <1>2, WithdrawalLoad, Zenon
<1>3. ASSUME NEW d \in Deciders, DecideDerive(d) \/ DecideFails(d)
      PROVE  WithdrawalInv'
  BY <1>3, WithdrawalLoad, Zenon
<1>4. ASSUME NEW d \in Deciders, DecideSave(d) PROVE WithdrawalInv'
  BY <1>4, WithdrawalSave, Zenon
<1>5. ASSUME NEW d \in Deciders, DecideMirror(d) \/ DecideMirrorSave(d)
      PROVE  WithdrawalInv'
  BY <1>5, WithdrawalMirror, Zenon
<1>6. withdrawn \subseteq Subjects /\ \A s \in Subjects : first[s] \in Kinds
  BY Zenon DEF AccessTypeOK
<1>7. CASE Start
  <2>1. /\ phase = "down" /\ UNCHANGED <<session, recorded, legacy, first, pc, withdrawn>>
        /\ \A s \in Subjects :
             /\ status'[<<s, "own">>] = status[<<s, "own">>]
             /\ status'[<<s, "copy">>] =
                  IF status[<<s, "copy">>] = "none" THEN FromSession(s)
                  ELSE status[<<s, "copy">>]
    BY <1>7, Zenon DEF Start, Migrate, GrantIds, Kinds, decisions, history
  <2>2. /\ \A d \in Deciders : pc'[d] = "idle"
        /\ \A s \in Subjects : FromSession(s)' = FromSession(s)
    BY <2>1, SameRow, Zenon DEF LoadIsCurrent
  <2>3. ASSUME NEW s \in Subjects PROVE RowInv(s)'
    <3>1. RowInv(s)
      BY Zenon DEF WithdrawalInv
    <3> QED
      BY <2>1, <2>2, <3>1, StandsFor, Zenon DEF RowInv
  <2>4. ASSUME NEW s \in withdrawn PROVE NotActive(s)'
    <3>1. s \in Subjects /\ NotActive(s) /\ first[s] \in Kinds
      BY <1>6, Zenon DEF WithdrawalInv
    <3>2. CASE status[<<s, "copy">>] # "none"
      <4>1. /\ Selected(s)' = Selected(s) /\ HasGrant(s)' = HasGrant(s)
            /\ status'[<<s, Selected(s)'>>] = status[<<s, Selected(s)>>]
        BY <2>1, <3>1, <3>2, SameGrants, Zenon
      <4> QED
        BY <2>1, <2>2, <3>1, <3>2, <4>1, Zenon DEF NotActive
    <3>3. CASE status[<<s, "copy">>] = "none"
      <4>1. /\ status[<<s, "own">>] # "none" /\ status[<<s, "own">>] # "active"
            /\ FromSession(s) # "active"
        BY <3>1, <3>3, Zenon DEF NotActive, HasGrant, Selected, Kinds
      <4>2. status'[<<s, "copy">>] # "active" /\ status'[<<s, "own">>] # "active"
        BY <2>1, <3>1, <3>3, <4>1, Zenon
      <4>3. HasGrant(s)' /\ (Selected(s)' = "own" \/ Selected(s)' = "copy")
        BY <2>1, <3>1, <4>1, Zenon DEF HasGrant, Selected, Kinds
      <4> QED
        BY <2>1, <2>2, <3>1, <4>1, <4>2, <4>3, Zenon DEF NotActive
    <3> QED
      BY <3>2, <3>3, Zenon
  <2> QED
    BY <2>1, <2>2, <2>3, <2>4, Zenon DEF WithdrawalInv, HeldInv, ReopenInv
<1>8. CASE Halt
  <2>1. UNCHANGED <<rows, withdrawn>> /\ \A d \in Deciders : pc'[d] = "idle"
    BY <1>8, Zenon DEF Halt, history
  <2>2. phase = "up"
    BY <1>8, Zenon DEF Halt, Up
  <2>3. ASSUME NEW s \in Subjects PROVE RowInv(s)'
    <3>1. FromSession(s)' = FromSession(s)
      BY <2>1, SameRow, Zenon DEF rows
    <3> QED
      BY <2>1, <2>2, <3>1, Zenon DEF WithdrawalInv, RowInv, rows
  <2> QED
    BY <1>6, <2>1, <2>3, SameRows, Zenon DEF WithdrawalInv, HeldInv, ReopenInv
<1>9. CASE Tick \/ UNCHANGED vars
  <2>1. UNCHANGED <<rows, phase, decisions, withdrawn>>
    BY <1>9, Zenon DEF Tick, vars, daemon, history
  <2>2. \A d \in Deciders : HeldInv(d)' /\ ReopenInv(d)'
    BY <2>1, SameHeld, Zenon DEF WithdrawalInv, ReopenInv, decisions
  <2> QED
    BY <1>6, <2>1, <2>2, SameRows, Zenon DEF WithdrawalInv
<1> QED
  BY <1>1, <1>2, <1>3, <1>4, <1>5, <1>7, <1>8, <1>9, Zenon DEF Next, DecideStep

\* With one local client at a time, an acknowledged revocation or denial holds
\* until the user approves or resumes the subject again: no crash, failed
\* call, late request or migration makes a grant of it usable
\* (decide_session, migrate_legacy_sessions).
THEOREM RevocationHolds == ASSUME OneClient PROVE Spec => []RevocationSticks
<1>1. Init => WithdrawalInv
  <2> SUFFICES ASSUME Init PROVE WithdrawalInv
    OBVIOUS
  <2>1. /\ phase = "down" /\ withdrawn = {} /\ \A d \in Deciders : pc[d] = "idle"
        /\ \A s \in Subjects, k \in Kinds : status[<<s, k>>] = "none"
    BY Zenon DEF Init, GrantIds
  <2> QED
    BY <2>1, Zenon DEF WithdrawalInv, RowInv, HeldInv, ReopenInv, Kinds
<1>2. AccessTypeOK /\ AccessTypeOK' /\ LoadIsCurrent /\ WithdrawalInv /\ [Next]_vars
        => WithdrawalInv'
  BY WithdrawalStep, Zenon
<1>3. WithdrawalInv => RevocationSticks
  BY Zenon DEF WithdrawalInv, NotActive, RevocationSticks, Usable, Authority
<1> QED
  BY <1>1, <1>2, <1>3, TypeCorrect, LoadHolds, PTL DEF Spec
=============================================================================
