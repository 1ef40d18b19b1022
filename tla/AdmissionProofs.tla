---------------------------- MODULE AdmissionProofs ----------------------------
(***************************************************************************)
(* Theorems about the upgrade of a player's socket, for any customers,     *)
(* sockets and tickets, and any number of failed writes, restarts and      *)
(* teardowns: whose the runtime is was earned by a right ticket, and the   *)
(* evidence that survives a restart covers whoever is connected.           *)
(***************************************************************************)
EXTENDS Admission, TLAPS

\* The ids a ticket, an identity or the evidence may have.
SomeRequest == Requests \cup {None}
SomeActive == Actives \cup {None}

Kept == [request: SomeRequest, active: SomeActive]
Identities == [request: SomeRequest, active: SomeActive, shadow: BOOLEAN]
Viewers == [open: BOOLEAN, identity: Identities]

\* An identity is in the evidence e.
Covers(e, i) ==
  i.request # None => e.request = i.request /\ i.active \in {None, e.active}

\* Evidence that grows keeps what it had.
Grows(d, e) ==
  /\ d.request # None => e.request = d.request
  /\ d.active # None => e.active = d.active

LEMMA GrowingCovers ==
  ASSUME NEW d, NEW e, Grows(d, e), NEW i, Covers(d, i)
  PROVE  Covers(e, i)
BY DEF Grows, Covers

LEMMA NobodyFacts == Nobody \in Identities /\ \A e : Covers(e, Nobody)
BY DEF Nobody, Identities, SomeRequest, SomeActive, Covers

LEMMA TicketFacts ==
  ASSUME NEW t \in Tickets
  PROVE  /\ t.request \in SomeRequest /\ t.active \in SomeActive /\ t.shadow \in BOOLEAN
         /\ t.wrong \in ToSet(Claims) \cup {None}
         /\ t.shadow => t.request = None /\ t.active = None
         /\ ~t.shadow => t.request # None
BY DEF Tickets, SomeRequest, SomeActive

-----------------------------------------------------------------------------
(* The evidence.                                                           *)

\* recordManagedViewerAdmission lets a ticket in only with evidence that covers it, never
\* takes back what is recorded, and records nothing but the ticket's session.
LEMMA RecordFacts ==
  ASSUME TypeOK, NEW t \in Tickets, ~t.shadow, NEW written \in BOOLEAN
  PROVE  LET noted == RecordManagedViewerAdmission(t, written)
         IN  /\ noted.ok \in BOOLEAN /\ noted.failed \in BOOLEAN
             /\ noted.evidence \in Kept
             /\ Grows(evidence, noted.evidence)
             /\ noted.evidence.request \in {evidence.request, t.request}
             /\ noted.ok => Covers(noted.evidence, Identity(t))
<1> DEFINE noted == RecordManagedViewerAdmission(t, written)
<1>1. /\ t.request \in SomeRequest /\ t.active \in SomeActive /\ t.request # None
  BY TicketFacts
<1>2. evidence \in Kept /\ evidence.request \in SomeRequest /\ evidence.active \in SomeActive
  BY DEF TypeOK, Kept, SomeRequest, SomeActive
<1>3. Grows(evidence, evidence)
  BY DEF Grows
<1>4. CASE Conflicts(t)
  <2>1. noted = [ok |-> FALSE, evidence |-> evidence, failed |-> FALSE]
    BY <1>4 DEF RecordManagedViewerAdmission
  <2>2. QED BY <2>1, <1>2, <1>3
<1>5. CASE ~Conflicts(t) /\ Recorded(t)
  <2>1. noted = [ok |-> TRUE, evidence |-> evidence, failed |-> FALSE]
    BY <1>5 DEF RecordManagedViewerAdmission
  <2>2. Covers(evidence, Identity(t))
    BY <1>5 DEF Recorded, Covers, Identity
  <2>3. QED BY <2>1, <2>2, <1>2, <1>3
<1>6. CASE ~Conflicts(t) /\ ~Recorded(t)
  <2>1. noted = [ok |-> written, evidence |-> IF written THEN Evidence(t) ELSE evidence,
                 failed |-> ~written]
    BY <1>6 DEF RecordManagedViewerAdmission
  <2>2. CASE ~written
    BY <2>1, <2>2, <1>2, <1>3
  <2>3. CASE written
    <3>1. /\ noted.ok \in BOOLEAN /\ noted.failed \in BOOLEAN /\ noted.evidence = Evidence(t)
      BY <2>1, <2>3
    <3>2. Evidence(t) \in Kept /\ Evidence(t).request = t.request
      BY <1>1, <1>2 DEF Evidence, Kept
    <3>3. Grows(evidence, Evidence(t))
      BY <1>6 DEF Grows, Evidence, Conflicts
    <3>4. Covers(Evidence(t), Identity(t))
      BY <1>6 DEF Covers, Identity, Evidence, Conflicts
    <3>5. QED BY <3>1, <3>2, <3>3, <3>4
  <2>4. QED BY <2>2, <2>3
<1>7. QED BY <1>4, <1>5, <1>6

-----------------------------------------------------------------------------
(* The validation.                                                         *)

\* What validateToken v leaves, of a ticket t.
Earned(v, t) ==
  /\ v.after.owner \in SomeRequest /\ v.after.failed \in BOOLEAN /\ v.after.evidence \in Kept
  /\ v.result.valid \in BOOLEAN /\ v.result.identity \in Identities
  /\ Grows(evidence, v.after.evidence)
  /\ Covers(v.after.evidence, v.result.identity)
  /\ v.after.owner = gate.owner \/ (t.wrong = None /\ v.after.owner = t.request)
  /\ \/ v.after.evidence.request = evidence.request
     \/ t.wrong = None /\ v.after.evidence.request = t.request

\* validateToken takes the process and the evidence for a session only after all its
\* claims were right, and validates an identity only with evidence of it.
LEMMA ValidateFacts ==
  ASSUME TypeOK, NEW t \in Tickets, NEW journal \in BOOLEAN, NEW written \in BOOLEAN
  PROVE  Earned(ValidateToken(t, journal, written), t)
<1> DEFINE v == ValidateToken(t, journal, written)
           noted == RecordManagedViewerAdmission(t, written)
           passed == t.wrong \notin ToSet(BeforeGate)
           blocked == journal /\ t.request # None
           unchanged == [owner |-> gate.owner, failed |-> gate.failed, evidence |-> evidence]
<1>1. /\ t.request \in SomeRequest /\ t.active \in SomeActive /\ t.shadow \in BOOLEAN
      /\ t.shadow => t.request = None
      /\ passed => t.wrong = None
  BY TicketFacts DEF BeforeGate
<1>2. /\ gate.owner \in SomeRequest /\ gate.failed \in BOOLEAN /\ evidence \in Kept
      /\ Grows(evidence, evidence)
  BY DEF TypeOK, Kept, SomeRequest, SomeActive, Grows
<1>3. \A force : /\ Fail(force).valid = FALSE /\ Fail(force).identity = Nobody
  BY DEF Fail
<1>4. ASSUME ~passed \/ blocked \/ Refuses(t) PROVE Earned(v, t)
  <2>1. \E force : v = [result |-> Fail(force), after |-> unchanged]
    <3>1. CASE ~passed
      BY <3>1 DEF ValidateToken
    <3>2. CASE passed /\ (blocked \/ Refuses(t))
      BY <3>2 DEF ValidateToken
    <3>3. QED BY <1>4, <3>1, <3>2
  <2>2. /\ v.result.valid = FALSE /\ v.result.identity = Nobody
        /\ v.after.owner = gate.owner /\ v.after.failed = gate.failed
        /\ v.after.evidence = evidence
    BY <2>1, <1>3
  <2> HIDE DEF v
  <2>3. QED BY <2>2, <1>2, NobodyFacts DEF Earned
<1>5. ASSUME passed, ~blocked, ~Refuses(t) PROVE Earned(v, t)
  <2> DEFINE result == IF t.wrong # None THEN Fail(Forced(t))
                       ELSE IF t.shadow \/ noted.ok
                       THEN [valid |-> TRUE, force |-> FALSE, identity |-> Identity(t)]
                       ELSE Fail(TRUE)
             after == IF t.shadow THEN unchanged
                      ELSE [owner |-> Owner(t), failed |-> noted.failed,
                            evidence |-> noted.evidence]
  <2>1. v = [result |-> result, after |-> after]
    BY <1>5 DEF ValidateToken
  <2>2. t.wrong = None
    BY <1>1, <1>5
  <2>3. Identity(t) \in Identities
    BY <1>1 DEF Identity, Identities
  <2>4. result.valid \in BOOLEAN /\ result.identity \in {Nobody, Identity(t)}
    BY <1>3
  <2>5. result.identity \in Identities
    BY <2>3, <2>4, NobodyFacts
  <2> HIDE DEF v, result, noted, passed
  <2>6. CASE t.shadow
    <3>1. after = unchanged
      BY <2>6
    <3>2. Covers(evidence, Identity(t))
      BY <1>1, <2>6 DEF Covers, Identity
    <3>3. /\ v.result = result
          /\ v.after.owner = gate.owner /\ v.after.failed = gate.failed
          /\ v.after.evidence = evidence
      BY <2>1, <3>1
    <3>4. Covers(evidence, result.identity)
      BY <2>4, <3>2, NobodyFacts
    <3>5. QED BY <2>4, <2>5, <3>3, <3>4, <1>2 DEF Earned
  <2>7. CASE ~t.shadow
    <3>1. after = [owner |-> Owner(t), failed |-> noted.failed, evidence |-> noted.evidence]
      BY <2>7
    <3>2. /\ noted.failed \in BOOLEAN /\ noted.evidence \in Kept
          /\ Grows(evidence, noted.evidence)
          /\ noted.evidence.request \in {evidence.request, t.request}
          /\ noted.ok => Covers(noted.evidence, Identity(t))
      BY <2>7, RecordFacts DEF noted
    <3>3. result.identity = Nobody \/ (noted.ok /\ result.identity = Identity(t))
      BY <1>3, <2>2, <2>7 DEF result
    <3>4. Owner(t) \in {gate.owner, t.request}
      BY DEF Owner
    <3>5. Covers(noted.evidence, result.identity)
      BY <3>2, <3>3, NobodyFacts
    <3>6. /\ v.result = result
          /\ v.after.owner = Owner(t) /\ v.after.failed = noted.failed
          /\ v.after.evidence = noted.evidence
      BY <2>1, <3>1
    <3>7. v.after.owner \in SomeRequest
      BY <3>4, <3>6, <1>1, <1>2
    <3>8. QED BY <2>2, <2>4, <2>5, <3>2, <3>4, <3>5, <3>6, <3>7 DEF Earned
  <2>8. QED BY <2>6, <2>7, <1>1
<1>6. QED BY <1>4, <1>5

-----------------------------------------------------------------------------
(* The invariant.                                                          *)

IInv == TypeOK /\ OwnershipIsEarned /\ ViewersAreEvident

\* What the types say, field by field.
LEMMA TypeFacts ==
  TypeOK <=>
    /\ settings \in [mode: {"off", "soft", "enforce"}, complete: BOOLEAN]
    /\ gate \in [owner: SomeRequest, failed: BOOLEAN, teardown: BOOLEAN, cutoff: BOOLEAN]
    /\ evidence \in Kept
    /\ viewer \in [Sockets -> Viewers]
    /\ right \subseteq SomeRequest
BY DEF TypeOK, SomeRequest, SomeActive, Kept, Identities, Viewers

LEMMA EvidentFacts ==
  ViewersAreEvident <=> \A s \in Sockets : Covers(evidence, viewer[s].identity)
BY DEF ViewersAreEvident, Covers

LEMMA NobodyConnectedFacts ==
  /\ NobodyConnected \in [Sockets -> Viewers]
  /\ \A e : \A s \in Sockets : Covers(e, NobodyConnected[s].identity)
BY NobodyFacts DEF NobodyConnected, Viewers

\* A viewer that is connected, as validateToken found it.
LEMMA ConnectedFacts ==
  ASSUME TypeOK, NEW s \in Sockets, NEW result, NEW recorded, NEW e,
         result.identity \in Identities, Covers(e, result.identity),
         \A q \in Sockets : Covers(e, viewer[q].identity)
  PROVE  /\ Connected(s, result, recorded) \in [Sockets -> Viewers]
         /\ \A q \in Sockets : Covers(e, Connected(s, result, recorded)[q].identity)
<1> DEFINE new == [open |-> TRUE, identity |-> result.identity]
<1>1. viewer \in [Sockets -> Viewers]
  BY TypeFacts
<1>2. new \in Viewers /\ new.identity = result.identity
  BY DEF Viewers
<1> HIDE DEF new
<1>3. Connected(s, result, recorded) \in {viewer, [viewer EXCEPT ![s] = new]}
  BY DEF Connected, new
<1>4. [viewer EXCEPT ![s] = new] \in [Sockets -> Viewers]
  BY <1>1, <1>2
<1>5. \A q \in Sockets : Covers(e, [viewer EXCEPT ![s] = new][q].identity)
  BY <1>1, <1>2
<1>6. QED BY <1>1, <1>3, <1>4, <1>5

LEMMA InitHolds == Init => IInv
<1> SUFFICES ASSUME Init PROVE IInv
  OBVIOUS
<1>1. TypeOK
  BY NobodyConnectedFacts, TypeFacts DEF Init, Empty, Kept, SomeRequest, SomeActive
<1>2. OwnershipIsEarned
  BY DEF Init, OwnershipIsEarned, Empty
<1>3. ViewersAreEvident
  BY NobodyConnectedFacts, EvidentFacts DEF Init
<1>4. QED BY <1>1, <1>2, <1>3 DEF IInv

LEMMA UpgradeHolds ==
  ASSUME IInv, NEW s \in Sockets, NEW t \in Tickets, Upgrade(s, t)
  PROVE  IInv'
<1>1. PICK journal \in BOOLEAN, written \in BOOLEAN, recorded \in BOOLEAN, thrown \in BOOLEAN :
        VerifyClient(s, t, journal, written, recorded, thrown)
  BY DEF Upgrade
<1>2. TypeOK /\ OwnershipIsEarned
  BY DEF IInv
<1>3. \A q \in Sockets : Covers(evidence, viewer[q].identity)
  BY EvidentFacts DEF IInv
<1>4. right \subseteq right' /\ right' \subseteq SomeRequest /\ settings' = settings
      /\ (t.wrong = None => t.request \in right')
  BY <1>1, <1>2, TypeFacts, TicketFacts DEF VerifyClient
<1>5. CASE settings.mode = "off" \/ thrown
  <2>1. gate' = gate /\ evidence' = evidence
    BY <1>1, <1>5 DEF VerifyClient
  <2>2. viewer' \in [Sockets -> Viewers]
        /\ \A q \in Sockets : Covers(evidence, viewer'[q].identity)
    <3>1. CASE settings.mode = "off"
      <4>1. viewer' = Connected(s, Fail(FALSE), TRUE)
        BY <1>1, <3>1 DEF VerifyClient
      <4>2. Fail(FALSE).identity = Nobody
        BY DEF Fail
      <4>3. QED BY <4>1, <4>2, <1>2, <1>3, NobodyFacts, ConnectedFacts
    <3>2. CASE settings.mode # "off" /\ thrown
      BY <1>1, <1>2, <1>3, <3>2, TypeFacts DEF VerifyClient
    <3>3. QED BY <1>5, <3>1, <3>2
  <2>3. TypeOK'
    BY <1>2, <1>4, <2>1, <2>2 DEF TypeOK, SomeRequest, SomeActive, Viewers, Identities
  <2>4. OwnershipIsEarned'
    BY <1>2, <1>4, <2>1 DEF OwnershipIsEarned
  <2>5. ViewersAreEvident'
    BY <2>1, <2>2 DEF ViewersAreEvident, Covers
  <2>6. QED BY <2>3, <2>4, <2>5 DEF IInv
<1>6. CASE settings.mode # "off" /\ ~thrown
  <2> DEFINE v == ValidateToken(t, journal, written)
             after == v.after
             result == v.result
             e == after.evidence
  <2>1. Earned(v, t)
    BY <1>2, ValidateFacts
  <2>2. /\ viewer' = Connected(s, result, recorded)
        /\ gate' = [gate EXCEPT !.owner = after.owner, !.failed = after.failed]
        /\ evidence' = e
    BY <1>1, <1>6 DEF VerifyClient
  <2> HIDE DEF v
  <2>3. /\ after.owner \in SomeRequest /\ after.failed \in BOOLEAN /\ e \in Kept
        /\ result.identity \in Identities
        /\ Grows(evidence, e) /\ Covers(e, result.identity)
        /\ after.owner = gate.owner \/ (t.wrong = None /\ after.owner = t.request)
        /\ e.request = evidence.request \/ (t.wrong = None /\ e.request = t.request)
    BY <2>1 DEF Earned
  <2> HIDE DEF after, result, e
  <2>4. \A q \in Sockets : Covers(e, viewer[q].identity)
    BY <1>3, <2>3, GrowingCovers
  <2>5. /\ viewer' \in [Sockets -> Viewers]
        /\ \A q \in Sockets : Covers(e, viewer'[q].identity)
    BY <1>2, <2>2, <2>3, <2>4, ConnectedFacts
  <2>6. gate \in [owner: SomeRequest, failed: BOOLEAN, teardown: BOOLEAN, cutoff: BOOLEAN]
    BY <1>2, TypeFacts
  <2>7. /\ gate' \in [owner: SomeRequest, failed: BOOLEAN, teardown: BOOLEAN, cutoff: BOOLEAN]
        /\ gate'.owner = after.owner
    BY <2>2, <2>3, <2>6
  <2>8. TypeOK'
    BY <1>2, <1>4, <2>2, <2>3, <2>5, <2>7 DEF TypeOK, SomeRequest, SomeActive, Viewers, Identities, Kept
  <2>9. OwnershipIsEarned'
    BY <1>2, <1>4, <2>2, <2>3, <2>7 DEF OwnershipIsEarned
  <2>10. ViewersAreEvident'
    BY <2>2, <2>5 DEF ViewersAreEvident, Covers
  <2>11. QED BY <2>8, <2>9, <2>10 DEF IInv
<1>7. QED BY <1>5, <1>6

\* A socket that closes takes its identity with it.
LEMMA CloseHolds ==
  ASSUME IInv, NEW s \in Sockets, Close(s)
  PROVE  IInv'
<1> DEFINE gone == [open |-> FALSE, identity |-> Nobody]
<1>1. viewer \in [Sockets -> Viewers] /\ \A q \in Sockets : Covers(evidence, viewer[q].identity)
  BY TypeFacts, EvidentFacts DEF IInv
<1>2. gone \in Viewers /\ gone.identity = Nobody
  BY NobodyFacts DEF Viewers
<1> HIDE DEF gone
<1>3. viewer' = [viewer EXCEPT ![s] = gone] /\ UNCHANGED <<settings, gate, evidence, right>>
  BY DEF Close, gone
<1>4. viewer' \in [Sockets -> Viewers] /\ \A q \in Sockets : Covers(evidence, viewer'[q].identity)
  BY <1>1, <1>2, <1>3, NobodyFacts
<1>5. QED BY <1>3, <1>4 DEF IInv, TypeOK, OwnershipIsEarned, ViewersAreEvident, Covers,
                             SomeRequest, SomeActive, Viewers, Identities

\* The gate's own steps: what they clear they clear together.
LEMMA GateHolds ==
  ASSUME IInv, StartTeardown \/ Replaced \/ Restart
  PROVE  IInv'
<1>1. TypeOK /\ OwnershipIsEarned /\ ViewersAreEvident
  BY DEF IInv
<1>2. gate \in [owner: SomeRequest, failed: BOOLEAN, teardown: BOOLEAN, cutoff: BOOLEAN]
      /\ evidence \in Kept
  BY <1>1, TypeFacts
<1>3. CASE StartTeardown
  BY <1>1, <1>2, <1>3 DEF StartTeardown, IInv, TypeOK, OwnershipIsEarned, ViewersAreEvident,
                          SomeRequest
<1>4. CASE Replaced
  <2>1. /\ gate' \in [owner: SomeRequest, failed: BOOLEAN, teardown: BOOLEAN, cutoff: BOOLEAN]
        /\ gate'.owner = None /\ evidence' = Empty /\ viewer' = NobodyConnected
        /\ right' = {} /\ settings' = settings
    BY <1>2, <1>4 DEF Replaced, SomeRequest
  <2>2. Empty \in Kept /\ Empty.request = None
    BY DEF Empty, Kept, SomeRequest, SomeActive
  <2>3. TypeOK'
    BY <1>1, <2>1, <2>2, NobodyConnectedFacts DEF TypeOK, SomeRequest, SomeActive, Viewers, Identities, Kept
  <2>4. OwnershipIsEarned'
    BY <2>1, <2>2 DEF OwnershipIsEarned
  <2>5. ViewersAreEvident'
    BY <2>1, NobodyConnectedFacts DEF ViewersAreEvident, Covers
  <2>6. QED BY <2>3, <2>4, <2>5 DEF IInv
<1>5. CASE Restart
  <2>1. /\ gate' \in [owner: SomeRequest, failed: BOOLEAN, teardown: BOOLEAN, cutoff: BOOLEAN]
        /\ gate'.owner = evidence.request /\ viewer' = NobodyConnected
        /\ UNCHANGED <<settings, evidence, right>>
    BY <1>2, <1>5 DEF Restart, Kept
  <2>2. TypeOK'
    BY <1>1, <2>1, NobodyConnectedFacts DEF TypeOK, SomeRequest, SomeActive, Viewers, Identities
  <2>3. OwnershipIsEarned'
    BY <1>1, <2>1 DEF OwnershipIsEarned
  <2>4. ViewersAreEvident'
    BY <2>1, NobodyConnectedFacts DEF ViewersAreEvident, Covers
  <2>5. QED BY <2>2, <2>3, <2>4 DEF IInv
<1>6. QED BY <1>3, <1>4, <1>5

LEMMA IInvHolds == Spec => []IInv
<1>1. IInv /\ [Next]_vars => IInv'
  <2>1. CASE UNCHANGED vars
    BY <2>1 DEF vars, IInv, TypeOK, OwnershipIsEarned, ViewersAreEvident
  <2>2. CASE Next
    BY <2>2, UpgradeHolds, CloseHolds, GateHolds DEF Next
  <2>3. QED BY <2>1, <2>2
<1>2. QED BY InitHolds, <1>1, PTL DEF Spec

-----------------------------------------------------------------------------
(* The theorems.                                                           *)

\* Every variable keeps its type.
THEOREM TypesHold == Spec => []TypeOK
<1>1. IInv => TypeOK
  BY DEF IInv
<1>2. QED BY <1>1, IInvHolds, PTL

\* validateToken and the gate's hooks: the process and the evidence on disk are of a
\* session only after a ticket of that session that was right in every claim.
THEOREM OwnershipHolds == Spec => []OwnershipIsEarned
<1>1. IInv => OwnershipIsEarned
  BY DEF IInv
<1>2. QED BY <1>1, IInvHolds, PTL

\* recordManagedViewerAdmission comes before the connection: every connected viewer of
\* a managed session is in the durable evidence, whichever write failed.
THEOREM EvidenceHolds == Spec => []ViewersAreEvident
<1>1. IInv => ViewersAreEvident
  BY DEF IInv
<1>2. QED BY <1>1, IInvHolds, PTL

=============================================================================
