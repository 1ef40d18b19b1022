-------------------------- MODULE TicketGateProofs --------------------------
(***************************************************************************)
(* Theorems about the connect-ticket runtime gate, for any sets of         *)
(* customers and tokens, any clock skew, any write outcomes and, unless a  *)
(* theorem says otherwise, any faults.                                     *)
(***************************************************************************)
EXTENDS TicketGate, SequenceTheorems, TLAPS

-----------------------------------------------------------------------------
(* The operators.                                                          *)

LEMMA LaterFacts ==
  ASSUME NEW a \in Int, NEW b \in Int
  PROVE  /\ Later(a, b) \in {a, b}
         /\ Later(a, b) >= a
         /\ Later(a, b) >= b
  BY DEF Later

\* A write changes the file, or the durable file, only to what was written,
\* and an acknowledged one changes both.
LEMMA PersistFacts ==
  ASSUME NEW new, NEW w, Persist(new, w)
  PROVE  /\ disk' \in {disk, new}
         /\ stable' = stable \/ (stable' = new /\ disk' = new)
         /\ Acknowledged(w) => disk' = new /\ stable' = new
         /\ w # "lost" => disk' = new
  BY DEF Persist, Acknowledged

\* The token list stays a list of tokens; it holds the token just added.
LEMMA WithTokenFacts ==
  ASSUME NEW done \in Seq(Tokens), NEW t
  PROVE  /\ WithToken(done, t) \in Seq(Tokens)
         /\ t \in Tokens =>
              \E i \in 1..Len(WithToken(done, t)) : WithToken(done, t)[i] = t
<1>1. CASE t \notin Tokens \/ \E i \in 1..Len(done) : done[i] = t
  BY <1>1 DEF WithToken
<1>2. CASE /\ ~(t \notin Tokens \/ \E i \in 1..Len(done) : done[i] = t)
           /\ Len(done) < MaxTokens
  <2>1. WithToken(done, t) = Append(done, t)
    BY <1>2 DEF WithToken
  <2>2. Append(done, t) \in Seq(Tokens) /\ Append(done, t)[Len(done) + 1] = t
        /\ Len(Append(done, t)) = Len(done) + 1 /\ Len(done) \in Nat
    BY <1>2
  <2>3. QED BY <2>1, <2>2
<1>3. CASE /\ ~(t \notin Tokens \/ \E i \in 1..Len(done) : done[i] = t)
           /\ ~(Len(done) < MaxTokens)
  <2>1. WithToken(done, t) = Append(Tail(done), t)
    BY <1>3 DEF WithToken
  <2>2. Len(done) \in Nat /\ Len(done) >= 1 /\ done # <<>>
    BY <1>3, BoundAssumption
  <2>3. Tail(done) \in Seq(Tokens) /\ Len(Tail(done)) \in Nat
    BY <2>2
  <2>4. Append(Tail(done), t) \in Seq(Tokens)
        /\ Append(Tail(done), t)[Len(Tail(done)) + 1] = t
        /\ Len(Append(Tail(done), t)) = Len(Tail(done)) + 1
    BY <1>3, <2>3
  <2>5. QED BY <2>1, <2>3, <2>4
<1>4. QED BY <1>1, <1>2, <1>3

-----------------------------------------------------------------------------
(* The contents the handlers write are snapshots, and never lower a cutoff.*)

\* A teardown mark is a snapshot that requires recovery and never lowers the
\* cutoff.
LEMMA LatchedFacts ==
  ASSUME TypeOK, NEW occurred \in Nat
  PROVE  /\ Latched(occurred) \in Snapshot
         /\ Latched(occurred).cutoff >= disk.cutoff
         /\ Latched(occurred).required
         /\ Latched(occurred).ready = NoTime
         /\ Latched(occurred).owner = disk.owner
<1>1. Later(disk.cutoff, occurred) \in Nat /\ Later(disk.cutoff, occurred) >= disk.cutoff
  BY LaterFacts DEF TypeOK, Snapshot
<1>2. QED BY <1>1 DEF Latched, TypeOK, Snapshot, Time

\* An admission changes the owner and the time of admission, nothing else.
LEMMA WithAdmissionFacts ==
  ASSUME TypeOK, NEW s \in Sessions
  PROVE  /\ WithAdmission(s) \in Snapshot
         /\ WithAdmission(s).cutoff = disk.cutoff
         /\ WithAdmission(s).required = disk.required
         /\ WithAdmission(s).ready = disk.ready
         /\ WithAdmission(s).preparedAt = disk.preparedAt
         /\ WithAdmission(s).owner = s
         /\ WithAdmission(s).done = disk.done
  BY DEF WithAdmission, TypeOK, Snapshot, Time

\* A release raises the cutoff over everything signed so far and leaves the
\* recovery fields alone.
LEMMA ReleasedFacts ==
  ASSUME TypeOK
  PROVE  /\ Released \in Snapshot
         /\ Released.cutoff >= disk.cutoff
         /\ Released.cutoff >= now + Skew
         /\ Released.required = disk.required
         /\ Released.ready = disk.ready
         /\ Released.preparedAt = disk.preparedAt
         /\ Released.done = disk.done
<1>1. /\ Later(disk.cutoff, now + Skew) \in Nat
      /\ Later(disk.cutoff, now + Skew) >= disk.cutoff
      /\ Later(disk.cutoff, now + Skew) >= now + Skew
  BY LaterFacts, BoundAssumption DEF TypeOK, Snapshot
<1>2. QED BY <1>1 DEF Released, TypeOK, Snapshot, Time

\* A prepared recovery has its cutoff past everything signed so far, and a
\* margin of one skew behind that.
LEMMA PreparedFacts ==
  ASSUME TypeOK
  PROVE  /\ Prepared \in Snapshot
         /\ Prepared.cutoff >= disk.cutoff
         /\ Prepared.cutoff >= now + Skew
         /\ Prepared.required = disk.required
         /\ Prepared.ready = Prepared.cutoff + Skew
         /\ Prepared.preparedAt = now
         /\ Prepared.owner = disk.owner
         /\ Prepared.done = disk.done
<1> DEFINE cutoff == Later(disk.cutoff, now + Skew)
<1>1. cutoff \in Nat /\ cutoff >= disk.cutoff /\ cutoff >= now + Skew
  BY LaterFacts, BoundAssumption DEF TypeOK, Snapshot
<1>2. Prepared = [disk EXCEPT !.cutoff = cutoff, !.ready = cutoff + Skew, !.preparedAt = now]
  BY DEF Prepared
<1>3. cutoff + Skew \in Time /\ now \in Time
  BY <1>1, BoundAssumption DEF Time, TypeOK
<1> HIDE DEF cutoff
<1>4. QED BY <1>1, <1>2, <1>3 DEF TypeOK, Snapshot

\* A completed recovery keeps the cutoff, opens admission and records the
\* token of its recycle.
LEMMA RecoveredFacts ==
  ASSUME TypeOK
  PROVE  /\ Recovered \in Snapshot
         /\ Recovered.cutoff = disk.cutoff
         /\ ~Recovered.required
         /\ Recovered.ready = NoTime
         /\ marker \in Tokens => marker \in Completed(Recovered)
<1>1. disk.done \in Seq(Tokens)
  BY DEF TypeOK, Snapshot
<1>2. /\ WithToken(disk.done, marker) \in Seq(Tokens)
      /\ marker \in Tokens =>
           \E i \in 1..Len(WithToken(disk.done, marker)) :
             WithToken(disk.done, marker)[i] = marker
  BY <1>1, WithTokenFacts
<1>3. Recovered.done = WithToken(disk.done, marker)
  BY DEF Recovered, TypeOK, Snapshot
<1>4. QED BY <1>2, <1>3 DEF Recovered, Completed, TypeOK, Snapshot, Time

-----------------------------------------------------------------------------
(* Types.                                                                  *)

\* Whatever comes of a write, both copies of the file are snapshots.
LEMMA WriteTypes ==
  ASSUME TypeOK, NEW new \in Snapshot, NEW w, Persist(new, w)
  PROVE  disk' \in Snapshot /\ stable' \in Snapshot
  BY PersistFacts DEF TypeOK

\* Every step preserves the types.
LEMMA TypeStep ==
  ASSUME TypeOK, [Next]_vars
  PROVE  TypeOK'
<1> USE DEF TypeOK, volatile, recycle, history
<1>1. ASSUME NEW w \in Outcomes, NEW occurred \in Stamps, StartTeardown(occurred, w)
      PROVE  TypeOK'
  <2>1. occurred \in Nat
    BY BoundAssumption DEF Stamps
  <2>2. QED BY <1>1, <2>1, LatchedFacts, WriteTypes DEF StartTeardown, Acknowledged
<1>2. ASSUME NEW w \in Outcomes, NEW s \in Sessions, NEW iat, Admit(s, iat, w)
      PROVE  TypeOK'
  BY <1>2, WithAdmissionFacts, WriteTypes DEF Admit, Acknowledged
<1>3. ASSUME NEW s \in Sessions, NEW iat, Readmit(s, iat)
      PROVE  TypeOK'
  BY <1>3 DEF Readmit
<1>4. ASSUME NEW w \in Outcomes, Reconcile(w)
      PROVE  TypeOK'
  <2>1. Later(fence, now) \in Time
    BY LaterFacts DEF Time, NoTime
  <2>2. QED BY <1>4, <2>1, ReleasedFacts, WriteTypes DEF Reconcile, Acknowledged
<1>5. ASSUME NEW s \in Sessions, NEW iat, AdmitUnreadable(s, iat)
      PROVE  TypeOK'
  BY <1>5 DEF AdmitUnreadable
<1>6. ASSUME NEW t \in Recycles, NEW occurred \in Stamps, LaunchRecycle(t, occurred)
      PROVE  TypeOK'
  <2>1. occurred \in Nat
    BY BoundAssumption DEF Stamps
  <2>2. QED BY <1>6, <2>1, LatchedFacts, WriteTypes DEF LaunchRecycle
<1>7. ASSUME NEW rs \in SUBSET (Tokens \cup {Shutdown}), ChangeRequests(rs)
      PROVE  TypeOK'
  BY <1>7 DEF ChangeRequests
<1>8. CASE ReadFailure \/ AbandonRecycle \/ ReplaceStack \/ Crash
  BY <1>8 DEF ReadFailure, AbandonRecycle, ReplaceStack, Crash
<1>9. CASE RebootHost
  BY <1>9 DEF RebootHost
<1>10. ASSUME NEW w \in Outcomes, NEW live, NEW occurred \in Stamps,
              Start(live, occurred, w)
       PROVE  TypeOK'
  <2>1. occurred \in Nat
    BY BoundAssumption DEF Stamps
  <2>2. disk' \in Snapshot /\ stable' \in Snapshot /\ up' \in BOOLEAN /\ latched' \in BOOLEAN
    BY <1>10, <2>1, LatchedFacts, WriteTypes DEF Start, Acknowledged
  <2>3. disk.owner \in Sessions \cup {NoSession}
    BY DEF Snapshot
  <2>4. QED BY <1>10, <2>2, <2>3 DEF Start, ReplacementProof
<1>11. ASSUME NEW w \in Outcomes, PrepareRecovery(w)
       PROVE  TypeOK'
  BY <1>11, PreparedFacts, WriteTypes DEF PrepareRecovery, Acknowledged
<1>12. ASSUME NEW w \in Outcomes, NEW stamped \in BOOLEAN, CompleteRecovery(w, stamped)
       PROVE  TypeOK'
  <2>1. Later(fence, disk.preparedAt) \in Time
    BY LaterFacts DEF Time, NoTime, Snapshot
  <2>2. disk' \in Snapshot /\ stable' \in Snapshot
    BY <1>12, RecoveredFacts, WriteTypes DEF CompleteRecovery
  <2>3. QED BY <1>12, <2>1, <2>2 DEF CompleteRecovery, Acknowledged
<1>13. CASE AwaitMargin \/ FinishRecycle
  BY <1>13 DEF AwaitMargin, FinishRecycle
<1>14. CASE AcknowledgeReset
  BY <1>14 DEF AcknowledgeReset
<1>15. CASE Tick
  BY <1>15 DEF Tick
<1>16. CASE UNCHANGED vars
  BY <1>16 DEF vars
<1>17. QED
  BY <1>1, <1>2, <1>3, <1>4, <1>5, <1>6, <1>7, <1>8, <1>9, <1>10, <1>11, <1>12,
     <1>13, <1>14, <1>15, <1>16 DEF Next, Environment, Recovery, Startup, Ready

\* Every variable keeps its type: the file never holds content its reader
\* would refuse.
THEOREM TypeCorrect == Spec => []TypeOK
<1>1. Init => TypeOK
  <2>1. <<>> \in Seq(Tokens)
    OBVIOUS
  <2>2. Baseline \in Snapshot
    BY <2>1 DEF Baseline, Snapshot, Time
  <2>3. Init => disk \in Snapshot /\ stable \in Snapshot
    BY <2>2 DEF Init
  <2>4. Init => /\ marker \in Recycles \cup {NoMarker}
                /\ owner \in Sessions \cup {NoSession}
                /\ fence \in Time
    BY DEF Init, Time
  <2>5. Init => requests \in SUBSET (Tokens \cup {Shutdown}) /\ occupants \in SUBSET Sessions
    BY DEF Init
  <2>6. Init => /\ up \in BOOLEAN /\ failed \in BOOLEAN /\ admittedHere \in BOOLEAN
                /\ proven \in BOOLEAN /\ helper \in BOOLEAN /\ pending \in BOOLEAN
                /\ latched \in BOOLEAN
    BY Zenon DEF Init
  <2>7. Init => hostBoot \in Nat /\ now \in Nat
    BY DEF Init
  <2>8. QED BY <2>3, <2>4, <2>5, <2>6, <2>7 DEF TypeOK
<1>2. QED BY <1>1, TypeStep, PTL DEF Spec

-----------------------------------------------------------------------------
(* Cutoffs. While a ready margin is written, the cutoff lies a skew after  *)
(* its preparation and a skew before its end; every fence stays behind the *)
(* cutoff, in the file and in what a host crash may bring back.            *)

MarginHolds(x) ==
  x.ready # NoTime =>
    /\ x.required
    /\ x.preparedAt # NoTime
    /\ x.preparedAt + Skew <= x.cutoff
    /\ x.cutoff + Skew <= x.ready

FenceHolds(x) == fence # NoTime => fence + Skew <= x.cutoff

CutoffInv ==
  /\ MarginHolds(disk) /\ MarginHolds(stable)
  /\ FenceHolds(disk) /\ FenceHolds(stable)
  /\ stable.cutoff <= disk.cutoff

\* A write that lowers no cutoff keeps the fences and the order of the files.
LEMMA WriteKeepsCutoffs ==
  ASSUME TypeOK, CutoffInv, NEW new \in Snapshot, NEW w, Persist(new, w),
         MarginHolds(new), new.cutoff >= disk.cutoff, fence' = fence
  PROVE  CutoffInv' /\ stable'.cutoff >= stable.cutoff
<1>1. fence \in Int /\ disk.cutoff \in Nat /\ stable.cutoff \in Nat /\ new.cutoff \in Nat
  BY DEF TypeOK, Snapshot, Time, NoTime
<1>2. FenceHolds(new)
  BY <1>1, BoundAssumption DEF CutoffInv, FenceHolds
<1>3. CASE stable' = stable
  BY <1>1, <1>2, <1>3, PersistFacts DEF CutoffInv, FenceHolds, MarginHolds
<1>4. CASE stable' = new /\ disk' = new
  BY <1>1, <1>2, <1>4 DEF CutoffInv, FenceHolds, MarginHolds
<1>5. QED BY <1>3, <1>4, PersistFacts

\* Every step preserves the order of cutoffs, fences and clock, and none lowers
\* the durable cutoff.
LEMMA CutoffStep ==
  ASSUME TypeOK, CutoffInv, [Next]_vars
  PROVE  CutoffInv' /\ stable'.cutoff >= stable.cutoff
<1>1. ASSUME NEW occurred \in Stamps, NEW w, Persist(Latched(occurred), w), fence' = fence
      PROVE  CutoffInv' /\ stable'.cutoff >= stable.cutoff
  <2>1. occurred \in Nat
    BY BoundAssumption DEF Stamps, TypeOK
  <2>2. MarginHolds(Latched(occurred))
    BY <2>1, LatchedFacts DEF MarginHolds
  <2>3. QED BY <1>1, <2>1, <2>2, LatchedFacts, WriteKeepsCutoffs
<1>2. ASSUME UNCHANGED <<disk, stable, fence>>
      PROVE  CutoffInv' /\ stable'.cutoff >= stable.cutoff
  BY <1>2 DEF CutoffInv, MarginHolds, FenceHolds, TypeOK, Snapshot
<1>3. ASSUME NEW w, NEW s \in Sessions, NEW iat, Admit(s, iat, w)
      PROVE  CutoffInv' /\ stable'.cutoff >= stable.cutoff
  <2>1. MarginHolds(WithAdmission(s))
    BY WithAdmissionFacts DEF MarginHolds, CutoffInv
  <2>2. WithAdmission(s).cutoff >= disk.cutoff
    BY WithAdmissionFacts DEF TypeOK, Snapshot
  <2>3. QED BY <1>3, <2>1, <2>2, WithAdmissionFacts, WriteKeepsCutoffs DEF Admit
<1>4. ASSUME NEW w, Reconcile(w)
      PROVE  CutoffInv' /\ stable'.cutoff >= stable.cutoff
  <2>1. /\ disk.ready = NoTime
        /\ MarginHolds(Released)
    BY <1>4, ReleasedFacts DEF Reconcile, Releasable, CutoffInv, MarginHolds
  <2>2. CASE ~Acknowledged(w)
    <3>1. fence' = fence
      BY <1>4, <2>2 DEF Reconcile
    <3>2. QED BY <1>4, <2>1, <3>1, ReleasedFacts, WriteKeepsCutoffs DEF Reconcile
  <2>3. CASE Acknowledged(w)
    <3>1. disk' = Released /\ stable' = Released /\ fence' = Later(fence, now)
      BY <1>4, <2>3, PersistFacts DEF Reconcile
    <3>2. fence \in Int /\ now \in Nat /\ Later(fence, now) \in {fence, now}
          /\ disk.cutoff \in Nat /\ stable.cutoff \in Nat /\ Released.cutoff \in Nat
      BY LaterFacts, ReleasedFacts DEF TypeOK, Time, NoTime, Snapshot
    <3>3. FenceHolds(disk)
      BY DEF CutoffInv
    <3>4. QED
      BY <2>1, <3>1, <3>2, <3>3, ReleasedFacts, BoundAssumption
      DEF CutoffInv, FenceHolds, MarginHolds
  <2>4. QED BY <2>2, <2>3
<1>5. ASSUME NEW w, PrepareRecovery(w)
      PROVE  CutoffInv' /\ stable'.cutoff >= stable.cutoff
  <2>1. MarginHolds(Prepared)
    <3>1. Prepared.required
      BY <1>5, PreparedFacts DEF PrepareRecovery
    <3>2. now \in Nat /\ now # NoTime
      BY DEF TypeOK, NoTime
    <3>3. Prepared.preparedAt # NoTime
      BY <3>2, PreparedFacts
    <3>4. Prepared.preparedAt + Skew <= Prepared.cutoff
      BY <3>2, PreparedFacts, BoundAssumption DEF Snapshot
    <3>5. Prepared.cutoff + Skew <= Prepared.ready
      BY PreparedFacts, BoundAssumption DEF Snapshot
    <3>6. QED BY <3>1, <3>3, <3>4, <3>5 DEF MarginHolds
  <2>2. QED BY <1>5, <2>1, PreparedFacts, WriteKeepsCutoffs DEF PrepareRecovery, history
<1>6. ASSUME NEW w, NEW stamped, CompleteRecovery(w, stamped)
      PROVE  CutoffInv' /\ stable'.cutoff >= stable.cutoff
  <2>1. MarginHolds(Recovered)
    BY RecoveredFacts DEF MarginHolds
  <2>2. Recovered.cutoff = disk.cutoff /\ disk.cutoff \in Nat /\ Recovered \in Snapshot
    BY RecoveredFacts DEF TypeOK, Snapshot
  <2>3. CASE ~Acknowledged(w)
    <3>1. fence' = fence
      BY <1>6, <2>3 DEF CompleteRecovery
    <3>2. QED BY <1>6, <2>1, <2>2, <3>1, WriteKeepsCutoffs DEF CompleteRecovery
  <2>4. CASE Acknowledged(w)
    <3>1. disk' = Recovered /\ stable' = Recovered /\ fence' = Later(fence, disk.preparedAt)
      BY <1>6, <2>4, PersistFacts DEF CompleteRecovery
    <3>2. fence \in Int /\ disk.preparedAt \in Int /\ stable.cutoff \in Nat
          /\ Later(fence, disk.preparedAt) \in {fence, disk.preparedAt}
      BY LaterFacts DEF TypeOK, Time, NoTime, Snapshot
    <3>3. disk.preparedAt + Skew <= disk.cutoff
      BY <1>6 DEF CompleteRecovery, MarginPassed, CutoffInv, MarginHolds
    <3>4. QED
      BY <2>1, <2>2, <3>1, <3>2, <3>3, BoundAssumption DEF CutoffInv, FenceHolds, MarginHolds
  <2>5. QED BY <2>3, <2>4
<1>7. ASSUME RebootHost
      PROVE  CutoffInv' /\ stable'.cutoff >= stable.cutoff
  BY <1>7 DEF RebootHost, CutoffInv, FenceHolds, MarginHolds, TypeOK, Snapshot
<1>8. QED
  BY <1>1, <1>2, <1>3, <1>4, <1>5, <1>6, <1>7
  DEF Next, Environment, Recovery, Startup, Ready, vars, volatile, recycle, history,
      StartTeardown, LaunchRecycle, Readmit, AdmitUnreadable, ChangeRequests, ReadFailure,
      AbandonRecycle, ReplaceStack, Crash, Start, AwaitMargin, FinishRecycle,
      AcknowledgeReset, Tick

\* The fences, and the cutoffs they need, hold in every state.
THEOREM CutoffsHold == Spec => [](TypeOK /\ CutoffInv)
<1>1. Init => CutoffInv
  BY DEF Init, Baseline, CutoffInv, MarginHolds, FenceHolds
<1>2. TypeOK /\ CutoffInv /\ [Next]_vars => CutoffInv'
  BY CutoffStep
<1>3. QED BY <1>1, <1>2, TypeCorrect, PTL DEF Spec

\* A ticket signed before an acknowledged release or a completed recovery was
\* prepared is never admitted, for any clock skew and whatever crashes.
THEOREM FencedTickets == Spec => []FencedTicketsStayOut
<1>1. TypeOK /\ CutoffInv => FencedTicketsStayOut
  <2> SUFFICES ASSUME TypeOK, CutoffInv,
                      NEW s \in Sessions, NEW t \in 0..now, t <= fence,
                      NEW iat \in IssueTimes(t)
               PROVE  ~Admissible(s, iat)
    BY DEF FencedTicketsStayOut
  <2>1. now \in Nat /\ fence \in Int /\ disk.cutoff \in Nat
    BY DEF TypeOK, Time, NoTime, Snapshot
  <2>2. t \in Nat /\ fence # NoTime
    BY <2>1 DEF NoTime
  <2>3. iat \in Int /\ iat <= t + Skew
    BY <2>2, LaterFacts, BoundAssumption DEF IssueTimes
  <2>4. fence + Skew <= disk.cutoff
    BY <2>2 DEF CutoffInv, FenceHolds
  <2>5. ~(iat > disk.cutoff)
    BY <2>1, <2>2, <2>3, <2>4, BoundAssumption
  <2>6. QED BY <2>5 DEF Admissible
<1>2. QED BY <1>1, CutoffsHold, PTL

\* No crash, lost rename or late stamp lowers the cutoff that survives them.
THEOREM CutoffMonotone == Spec => DurableCutoffNeverRegresses
<1>1. TypeOK /\ CutoffInv /\ [Next]_vars => stable'.cutoff >= stable.cutoff
  BY CutoffStep
<1>2. QED BY <1>1, CutoffsHold, PTL DEF Spec, DurableCutoffNeverRegresses

\* Nothing but a completed recovery lifts the latch of a serving process.
LEMMA OnlyCompletionReopens ==
  ASSUME TypeOK, [Next]_vars, up, up', disk.required, ~disk'.required
  PROVE  \E w \in Outcomes, stamped \in BOOLEAN : CompleteRecovery(w, stamped)
<1>1. ASSUME NEW occurred \in Stamps, NEW w, Persist(Latched(occurred), w)
      PROVE  FALSE
  <2>1. occurred \in Nat
    BY BoundAssumption DEF Stamps, TypeOK
  <2>2. Latched(occurred).required
    BY <2>1, LatchedFacts
  <2>3. QED BY <1>1, <2>2, PersistFacts
<1>2. ASSUME NEW w, NEW s \in Sessions, NEW i, Admit(s, i, w)
      PROVE  FALSE
  BY <1>2 DEF Admit, Admissible
<1>3. ASSUME NEW w, Reconcile(w) \/ PrepareRecovery(w)
      PROVE  FALSE
  <2>1. CASE Reconcile(w)
    BY <2>1 DEF Reconcile, Releasable
  <2>2. CASE PrepareRecovery(w)
    <3>1. Prepared.required
      BY PreparedFacts
    <3>2. QED BY <2>2, <3>1, PersistFacts DEF PrepareRecovery
  <2>3. QED BY <1>3, <2>1, <2>2
<1>4. disk' # disk
  OBVIOUS
<1>5. QED
  BY <1>1, <1>2, <1>3, <1>4
  DEF Next, Environment, Recovery, Startup, Ready, vars, volatile, recycle, history,
      StartTeardown, LaunchRecycle, Readmit, AdmitUnreadable, ChangeRequests, ReadFailure,
      AbandonRecycle, ReplaceStack, Crash, RebootHost, Start, AwaitMargin, FinishRecycle,
      AcknowledgeReset, Tick

\* Admission reopens only when every ticket the API can sign from then on,
\* even by a clock late by the skew, is newer than the cutoff.
LEMMA ReopenStep ==
  ASSUME TypeOK, CutoffInv, [Next]_vars, up, up', disk.required, ~disk'.required,
         NEW iat \in IssueTimes(now)
  PROVE  iat > disk'.cutoff
<1>1. PICK w \in Outcomes, stamped \in BOOLEAN : CompleteRecovery(w, stamped)
  BY OnlyCompletionReopens
<1>2. disk'.cutoff = disk.cutoff
  BY <1>1, PersistFacts, RecoveredFacts DEF CompleteRecovery
<1>3. disk.cutoff + Skew <= disk.ready /\ now > disk.ready
  BY <1>1 DEF CompleteRecovery, MarginPassed, CutoffInv, MarginHolds
<1>4. now \in Nat /\ disk.cutoff \in Nat /\ disk.ready \in Int
  BY DEF TypeOK, Snapshot, Time, NoTime
<1>5. iat \in Int /\ iat >= now - Skew
  BY <1>4, LaterFacts, BoundAssumption DEF IssueTimes
<1>6. QED BY <1>2, <1>3, <1>4, <1>5, BoundAssumption

\* The property of the run, from the step above.
THEOREM ReopensBehindCutoff == Spec => ReopenAdmitsNewTickets
<1>1. TypeOK /\ CutoffInv /\ [Next]_vars
        => (up /\ up' /\ disk.required /\ ~disk'.required
              => \A iat \in IssueTimes(now) : iat > disk'.cutoff)
  BY ReopenStep
<1>2. QED BY <1>1, CutoffsHold, PTL DEF Spec, ReopenAdmitsNewTickets

-----------------------------------------------------------------------------
(* The latch.                                                              *)

\* Every step preserves the teardown latch.
LEMMA LatchStep ==
  ASSUME TypeOK, TeardownStaysLatched, [Next]_vars
  PROVE  TeardownStaysLatched'
<1>1. ASSUME NEW occurred \in Stamps, NEW w, Persist(Latched(occurred), w),
             latched' = (latched \/ Acknowledged(w))
      PROVE  TeardownStaysLatched'
  <2>1. occurred \in Nat
    BY BoundAssumption DEF Stamps, TypeOK
  <2>2. Latched(occurred).required
    BY <2>1, LatchedFacts
  <2>3. QED BY <1>1, <2>2, PersistFacts DEF TeardownStaysLatched
<1>2. ASSUME UNCHANGED <<disk, stable, latched>>
      PROVE  TeardownStaysLatched'
  BY <1>2 DEF TeardownStaysLatched
<1>3. ASSUME NEW w, NEW s \in Sessions, NEW iat, Admit(s, iat, w)
      PROVE  TeardownStaysLatched'
  BY <1>3, WithAdmissionFacts, PersistFacts DEF Admit, Admissible, TeardownStaysLatched
<1>4. ASSUME NEW w, Reconcile(w)
      PROVE  TeardownStaysLatched'
  BY <1>4 DEF Reconcile, Releasable, TeardownStaysLatched
<1>5. ASSUME NEW w, PrepareRecovery(w)
      PROVE  TeardownStaysLatched'
  <2>1. Prepared.required
    BY <1>5, PreparedFacts DEF PrepareRecovery
  <2>2. latched' = latched
    BY <1>5 DEF PrepareRecovery, history
  <2>3. QED BY <1>5, <2>1, <2>2, PersistFacts DEF PrepareRecovery, TeardownStaysLatched
<1>6. ASSUME NEW w, NEW stamped, CompleteRecovery(w, stamped)
      PROVE  TeardownStaysLatched'
  BY <1>6 DEF CompleteRecovery, Persist, TeardownStaysLatched
<1>7. ASSUME RebootHost
      PROVE  TeardownStaysLatched'
  BY <1>7 DEF RebootHost, TeardownStaysLatched
<1>8. ASSUME NEW t, NEW occurred \in Stamps, LaunchRecycle(t, occurred)
      PROVE  TeardownStaysLatched'
  <2>1. Acknowledged("durable")
    BY DEF Acknowledged
  <2>2. QED BY <1>1, <1>8, <2>1 DEF LaunchRecycle
<1>9. QED
  BY <1>1, <1>2, <1>3, <1>4, <1>5, <1>6, <1>7, <1>8
  DEF Next, Environment, Recovery, Startup, Ready, vars, volatile, recycle, history,
      StartTeardown, Readmit, AdmitUnreadable, ChangeRequests, ReadFailure,
      AbandonRecycle, ReplaceStack, Crash, Start, AwaitMargin, FinishRecycle,
      AcknowledgeReset, Tick

\* An acknowledged teardown stays latched until its recovery is written.
THEOREM TeardownLatched == Spec => []TeardownStaysLatched
<1>1. Init => TeardownStaysLatched
  BY DEF Init, TeardownStaysLatched
<1>2. QED BY <1>1, LatchStep, TypeCorrect, PTL DEF Spec

-----------------------------------------------------------------------------
(* The recycle token. A helper runs only behind a latch that no recovery   *)
(* can lift before the helper has marked its replacement.                  *)

TokenHolds(x) == ~x.required /\ marker \in Tokens => marker \in Completed(x)

TokenInv ==
  /\ pending => proven
  /\ helper => ~proven /\ disk.required /\ stable.required
  /\ proven => TokenHolds(disk) /\ TokenHolds(stable)

\* A write that keeps the latch, or the latch and the tokens, keeps TokenInv.
LEMMA WriteKeepsTokens ==
  ASSUME TokenInv, NEW new, NEW w, Persist(new, w),
         \/ new.required
         \/ ~disk.required /\ new.done = disk.done,
         UNCHANGED <<marker, proven, helper>>, pending' => proven
  PROVE  TokenInv'
<1>1. helper => disk.required /\ stable.required
  BY DEF TokenInv
<1>2. helper => new.required
  BY <1>1
<1>3. helper' => ~proven' /\ disk'.required /\ stable'.required
  BY <1>1, <1>2, PersistFacts DEF TokenInv
<1>4. proven => TokenHolds(new) /\ TokenHolds(disk) /\ TokenHolds(stable)
  BY DEF TokenInv, TokenHolds, Completed
<1>5. proven' => TokenHolds(disk)' /\ TokenHolds(stable)'
  BY <1>4, PersistFacts DEF TokenHolds, Completed
<1>6. QED BY <1>3, <1>5 DEF TokenInv

\* Every step keeps marker, helper and completed tokens consistent.
LEMMA TokenStep ==
  ASSUME TypeOK, TokenInv, [Next]_vars
  PROVE  TokenInv'
<1>1. ASSUME NEW occurred \in Stamps
      PROVE  Latched(occurred).required
  <2>1. occurred \in Nat
    BY BoundAssumption DEF Stamps, TypeOK
  <2>2. QED BY <2>1, LatchedFacts
<1>2. ASSUME NEW occurred \in Stamps, NEW w, StartTeardown(occurred, w)
      PROVE  TokenInv'
  BY <1>1, <1>2, WriteKeepsTokens DEF StartTeardown, recycle, TokenInv
<1>3. ASSUME NEW w, NEW s \in Sessions, NEW iat, Admit(s, iat, w)
      PROVE  TokenInv'
  BY <1>3, WithAdmissionFacts, WriteKeepsTokens
  DEF Admit, Admissible, recycle, TokenInv
<1>4. ASSUME NEW w, Reconcile(w)
      PROVE  TokenInv'
  BY <1>4, ReleasedFacts, WriteKeepsTokens
  DEF Reconcile, Releasable, recycle, TokenInv
<1>5. ASSUME NEW t, NEW occurred \in Stamps, LaunchRecycle(t, occurred)
      PROVE  TokenInv'
  <2>1. disk'.required /\ stable'.required
    BY <1>1, <1>5, PersistFacts DEF LaunchRecycle, Acknowledged
  <2>2. QED BY <1>5, <2>1 DEF LaunchRecycle, TokenInv
<1>6. ASSUME AbandonRecycle
      PROVE  TokenInv'
  BY <1>6 DEF AbandonRecycle, TokenInv
<1>7. ASSUME ReplaceStack
      PROVE  TokenInv'
  BY <1>7 DEF ReplaceStack, TokenInv, TokenHolds
<1>8. ASSUME Crash
      PROVE  TokenInv'
  BY <1>8 DEF Crash, TokenInv, TokenHolds, Completed
<1>9. ASSUME RebootHost
      PROVE  TokenInv'
  BY <1>9 DEF RebootHost, TokenInv, TokenHolds, Completed
<1>10. ASSUME NEW w, NEW live, NEW occurred \in Stamps, Start(live, occurred, w)
       PROVE  TokenInv'
  <2>1. pending' => proven
    BY <1>10 DEF Start, ReplacementProof
  <2>2. CASE UNCHANGED <<disk, stable>>
    BY <1>10, <2>1, <2>2 DEF Start, TokenInv, TokenHolds, Completed
  <2>3. CASE Persist(Latched(occurred), w)
    BY <1>1, <1>10, <2>1, <2>3, WriteKeepsTokens DEF Start
  <2>4. QED BY <1>10, <2>2, <2>3 DEF Start
<1>11. ASSUME NEW w, PrepareRecovery(w)
       PROVE  TokenInv'
  <2>1. Prepared.required
    BY <1>11, PreparedFacts DEF PrepareRecovery
  <2>2. QED BY <1>11, <2>1, WriteKeepsTokens DEF PrepareRecovery, recycle, TokenInv
<1>12. ASSUME NEW w, NEW stamped, CompleteRecovery(w, stamped)
       PROVE  TokenInv'
  <2>1. pending /\ proven /\ ~helper
    BY <1>12 DEF CompleteRecovery, TokenInv
  <2>2. TokenHolds(Recovered) /\ TokenHolds(disk) /\ TokenHolds(stable)
    BY <2>1, RecoveredFacts DEF TokenHolds, TokenInv
  <2>3. UNCHANGED <<marker, proven, helper>>
    BY <1>12 DEF CompleteRecovery
  <2>4. TokenHolds(disk)' /\ TokenHolds(stable)'
    BY <1>12, <2>2, <2>3, PersistFacts DEF CompleteRecovery, TokenHolds, Completed
  <2>5. QED BY <2>1, <2>3, <2>4 DEF TokenInv
<1>13. ASSUME FinishRecycle
       PROVE  TokenInv'
  BY <1>13 DEF FinishRecycle, TokenInv, TokenHolds, Completed
<1>14. ASSUME AcknowledgeReset
       PROVE  TokenInv'
  BY <1>14 DEF AcknowledgeReset, TokenInv
<1>15. ASSUME UNCHANGED <<disk, stable, recycle>>
       PROVE  TokenInv'
  BY <1>15 DEF recycle, TokenInv, TokenHolds, Completed
<1>16. QED
  BY <1>2, <1>3, <1>4, <1>5, <1>6, <1>7, <1>8, <1>9, <1>10, <1>11, <1>12, <1>13,
     <1>14, <1>15
  DEF Next, Environment, Recovery, Startup, Ready, vars, Readmit, AdmitUnreadable,
      ChangeRequests, ReadFailure, AwaitMargin, Tick

\* The helper and the tokens of the recycle are in order in every state.
THEOREM TokensHold == Spec => []TokenInv
<1>1. Init => TokenInv
  BY DEF Init, TokenInv
<1>2. QED BY <1>1, TokenStep, TypeCorrect, PTL DEF Spec

\* A recycle token that still has a proven replacement cannot recycle the next
\* customer: when admission is open, the file has it as completed.
THEOREM TokenFenced == Spec => []ReopenedRecycleIsFenced
<1>1. TokenInv => ReopenedRecycleIsFenced
  BY DEF TokenInv, TokenHolds, ReopenedRecycleIsFenced
<1>2. QED BY <1>1, TokensHold, PTL

-----------------------------------------------------------------------------
(* Use of the runtime, on a host whose processes stop only with the stack  *)
(* or the host, and whose recycle marker can always be stamped.            *)

UseInv ==
  /\ proven \/ helper => marker # NoMarker
  /\ pending => disk.required \/ failed
  /\ occupants # {} => up /\ admittedHere /\ ~pending
  /\ OneCustomerPerRuntime

\* Every step keeps the link between the runtime in use and the evidence of
\* its customer, if no process stops alone and every marker can be stamped.
LEMMA UseStep ==
  ASSUME TypeOK, TokenInv, UseInv, [Next]_vars,
         "process" \notin Faults, "marker" \notin Faults
  PROVE  UseInv'
<1> USE DEF UseInv, OneCustomerPerRuntime
<1>1. ASSUME NEW occurred \in Stamps
      PROVE  Latched(occurred).required /\ Latched(occurred).owner = disk.owner
  <2>1. occurred \in Nat
    BY BoundAssumption DEF Stamps, TypeOK
  <2>2. QED BY <2>1, LatchedFacts
<1>2. ASSUME NEW occurred \in Stamps, NEW w, StartTeardown(occurred, w)
      PROVE  UseInv'
  <2>1. disk'.required \/ failed'
    <3>1. CASE Acknowledged(w)
      BY <1>1, <1>2, <3>1, PersistFacts DEF StartTeardown
    <3>2. CASE ~Acknowledged(w)
      BY <1>2, <3>2 DEF StartTeardown
    <3>3. QED BY <3>1, <3>2
  <2>2. disk'.owner = disk.owner
    BY <1>1, <1>2, PersistFacts DEF StartTeardown
  <2>3. QED BY <1>2, <2>1, <2>2 DEF StartTeardown, recycle
<1>3. ASSUME NEW w, NEW s \in Sessions, NEW iat, Admit(s, iat, w)
      PROVE  UseInv'
  <2>1. ~pending
    BY <1>3 DEF Admit, Admissible
  <2>2. \A o \in occupants : o = s
    BY <1>3, SessionAssumption DEF Admit, TypeOK
  <2>3. CASE Acknowledged(w)
    <3>1. disk' = WithAdmission(s)
      BY <1>3, <2>3, PersistFacts DEF Admit
    <3>2. disk'.owner = s
      BY <3>1, WithAdmissionFacts
    <3>3. \A o \in occupants' : o = s
      BY <1>3, <2>2, <2>3 DEF Admit
    <3>4. up' /\ admittedHere' /\ ~pending'
      BY <1>3, <2>1, <2>3 DEF Admit, Admissible, recycle
    <3>5. UNCHANGED <<marker, proven, helper>>
      BY <1>3 DEF Admit, recycle
    <3>6. QED BY <3>2, <3>3, <3>4, <3>5
  <2>4. CASE ~Acknowledged(w)
    <3>1. occupants # {} => disk'.owner = s
      BY <1>3, <2>2, WithAdmissionFacts, PersistFacts DEF Admit
    <3>2. QED BY <1>3, <2>1, <2>2, <2>4, <3>1 DEF Admit, Admissible, recycle
  <2>5. QED BY <2>3, <2>4
<1>4. ASSUME NEW s \in Sessions, NEW iat, Readmit(s, iat)
      PROVE  UseInv'
  BY <1>4 DEF Readmit, Admissible, recycle
<1>5. ASSUME NEW w, Reconcile(w)
      PROVE  UseInv'
  <2>1. occupants = {} /\ occupants' = {}
    BY <1>5 DEF Reconcile, Releasable
  <2>2. pending => disk'.required \/ failed'
    BY <1>5 DEF Reconcile, Releasable
  <2>3. QED BY <1>5, <2>1, <2>2 DEF Reconcile, recycle
<1>6. ASSUME NEW t \in Recycles, NEW occurred \in Stamps, LaunchRecycle(t, occurred)
      PROVE  UseInv'
  <2>1. disk'.required /\ disk'.owner = disk.owner
    BY <1>1, <1>6, PersistFacts DEF LaunchRecycle, Acknowledged
  <2>2. t # NoMarker
    BY <1>6, TokenAssumption
  <2>3. QED BY <1>6, <2>1, <2>2 DEF LaunchRecycle
<1>7. CASE ReplaceStack \/ RebootHost
  BY <1>7 DEF ReplaceStack, RebootHost
<1>8. CASE AbandonRecycle \/ ReadFailure \/ Crash
  BY <1>8 DEF AbandonRecycle, ReadFailure, Crash, TokenInv, recycle, history, volatile
<1>9. ASSUME NEW s \in Sessions, NEW iat, AdmitUnreadable(s, iat)
      PROVE  UseInv'
  BY <1>9 DEF AdmitUnreadable, recycle, history
<1>10. ASSUME NEW w, NEW live, NEW occurred \in Stamps, Start(live, occurred, w)
       PROVE  UseInv'
  <2>1. occupants = {} /\ occupants' = {}
    BY <1>10 DEF Start
  <2>2. pending' => disk'.required
    <3>1. SUFFICES ASSUME pending' PROVE disk'.required
      OBVIOUS
    <3>2. up' /\ proven
      BY <1>10, <3>1 DEF Start, ReplacementProof
    <3>3. CASE MustLatch(live)
      <4>1. Persist(Latched(occurred), w) /\ Acknowledged(w)
        BY <1>10, <3>2, <3>3 DEF Start
      <4>2. QED BY <1>1, <4>1, PersistFacts
    <3>4. CASE ~MustLatch(live)
      <4>1. marker # NoMarker => disk.required
        BY <3>4 DEF MustLatch
      <4>2. QED
        BY <1>10, <3>2, <3>4, <4>1 DEF Start
    <3>5. QED BY <3>3, <3>4
  <2>3. UNCHANGED <<marker, proven, helper>>
    BY <1>10 DEF Start
  <2>4. QED BY <2>1, <2>2, <2>3
<1>11. ASSUME NEW w, PrepareRecovery(w)
       PROVE  UseInv'
  <2>1. Prepared.required /\ Prepared.owner = disk.owner
    BY <1>11, PreparedFacts DEF PrepareRecovery
  <2>2. disk'.required
    BY <1>11, <2>1, PersistFacts DEF PrepareRecovery
  <2>3. occupants = {}
    BY <1>11 DEF PrepareRecovery
  <2>4. QED BY <1>11, <2>2, <2>3 DEF PrepareRecovery, recycle, history
<1>12. ASSUME NEW w, NEW stamped \in BOOLEAN, CompleteRecovery(w, stamped)
       PROVE  UseInv'
  <2>1. stamped /\ occupants = {} /\ occupants' = {}
    BY <1>12 DEF CompleteRecovery
  <2>2. pending' => failed'
    BY <1>12, <2>1 DEF CompleteRecovery
  <2>3. UNCHANGED <<marker, proven, helper>>
    BY <1>12 DEF CompleteRecovery
  <2>4. QED BY <2>1, <2>2, <2>3
<1>13. CASE AwaitMargin \/ FinishRecycle \/ AcknowledgeReset \/ Tick
  BY <1>13 DEF AwaitMargin, FinishRecycle, AcknowledgeReset, Tick, TokenInv,
     RecoveryRequired, volatile, recycle, history
<1>14. ASSUME NEW rs, ChangeRequests(rs)
       PROVE  UseInv'
  BY <1>14 DEF ChangeRequests, volatile, recycle, history
<1>15. CASE UNCHANGED vars
  BY <1>15 DEF vars, volatile, recycle, history
<1>16. QED
  BY <1>2, <1>3, <1>4, <1>5, <1>6, <1>7, <1>8, <1>9, <1>10, <1>11, <1>12, <1>13,
     <1>14, <1>15
  DEF Next, Environment, Recovery, Startup, Ready

\* The use of the runtime is in order in every state.
LEMMA UseHolds ==
  ASSUME "process" \notin Faults, "marker" \notin Faults
  PROVE  Spec => []UseInv
<1>1. Init => UseInv
  <2>1. Init => ~(proven \/ helper) /\ ~pending
    BY DEF Init
  <2>2. Init => occupants = {}
    BY DEF Init
  <2>3. QED BY <2>1, <2>2 DEF UseInv, OneCustomerPerRuntime
<1>2. TypeOK /\ TokenInv /\ UseInv /\ [Next]_vars => UseInv'
  BY UseStep
<1>3. QED BY <1>1, <1>2, TypeCorrect, TokensHold, PTL DEF Spec

\* A runtime that only its stack and its host can stop never admits a second
\* customer before it is replaced.
THEOREM OneCustomer ==
  ASSUME "process" \notin Faults, "marker" \notin Faults
  PROVE  Spec => []OneCustomerPerRuntime
<1>1. UseInv => OneCustomerPerRuntime
  BY DEF UseInv
<1>2. QED BY <1>1, UseHolds, PTL

\* Such a runtime reopens only on a stack that admitted nobody: a recovery is
\* never completed on the strength of an earlier replacement.
THEOREM RecoveryReplaces ==
  ASSUME "process" \notin Faults, "marker" \notin Faults
  PROVE  Spec => RecoveryNeedsReplacement
<1>1. TypeOK /\ UseInv /\ [Next]_vars
        => (up /\ up' /\ disk.required /\ ~disk'.required => occupants = {})
  BY OnlyCompletionReopens DEF CompleteRecovery, UseInv
<1>2. QED BY <1>1, UseHolds, TypeCorrect, PTL DEF Spec, RecoveryNeedsReplacement

\* Such a runtime releases its assignment only while nobody has used it.
THEOREM ReleaseUnused ==
  ASSUME "process" \notin Faults, "marker" \notin Faults
  PROVE  Spec => ReleaseOnlyUnused
<1>1. ASSUME TypeOK, UseInv, [Next]_vars, up, up', ~disk.required, ~disk'.required,
             disk.owner # NoSession, disk'.owner = NoSession
      PROVE  occupants = {}
  <2>1. ASSUME NEW occurred \in Stamps, NEW w, Persist(Latched(occurred), w)
        PROVE  disk' = disk
    <3>1. occurred \in Nat
      BY <1>1, BoundAssumption DEF Stamps, TypeOK
    <3>2. Latched(occurred).required
      BY <1>1, <3>1, LatchedFacts
    <3>3. QED BY <1>1, <2>1, <3>2, PersistFacts
  <2>2. ASSUME NEW w, NEW s \in Sessions, NEW i, Admit(s, i, w)
        PROVE  FALSE
    <3>1. disk'.owner \in {disk.owner, s}
      BY <1>1, <2>2, WithAdmissionFacts, PersistFacts DEF Admit
    <3>2. QED BY <1>1, <3>1, SessionAssumption
  <2>3. ASSUME NEW w, Reconcile(w)
        PROVE  occupants = {}
    BY <1>1, <2>3 DEF Reconcile, Releasable, UseInv
  <2>4. ASSUME NEW w, PrepareRecovery(w) \/ \E stamped \in BOOLEAN : CompleteRecovery(w, stamped)
        PROVE  FALSE
    BY <1>1, <2>4 DEF PrepareRecovery, CompleteRecovery
  <2>5. disk' # disk
    BY <1>1
  <2>6. QED
    BY <1>1, <2>1, <2>2, <2>3, <2>4, <2>5
    DEF Next, Environment, Recovery, Startup, Ready, vars, volatile, recycle, history,
        StartTeardown, LaunchRecycle, Readmit, AdmitUnreadable, ChangeRequests, ReadFailure,
        AbandonRecycle, ReplaceStack, Crash, RebootHost, Start, AwaitMargin, FinishRecycle,
        AcknowledgeReset, Tick
<1>2. TypeOK /\ UseInv /\ [Next]_vars
        => (up /\ up' /\ ~disk.required /\ ~disk'.required
              /\ disk.owner # NoSession /\ disk'.owner = NoSession => occupants = {})
  BY <1>1
<1>3. QED BY <1>2, UseHolds, TypeCorrect, PTL DEF Spec, ReleaseOnlyUnused

=============================================================================
