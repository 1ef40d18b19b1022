--------------------------- MODULE EvidenceProofs ---------------------------
(***************************************************************************)
(* Theorems about the durable outboxes of the instance.                    *)
(*                                                                         *)
(* The agent's reports, for any events, evidence and files, any bounds,    *)
(* and any number of lost calls, failed writes and crashes: what is owed   *)
(* to the control plane is kept until it has it, the marker of a recycle   *)
(* stays while its token is asked for, and nothing vanishes from the       *)
(* outbox.  The artifacts of sessions, for either manager, any artifacts,  *)
(* customers and screenshots, and any number of faults: a bundle is owed   *)
(* until it is registered or given up, no customer's screenshots are       *)
(* bundled for a later one, and a log is cut only where an uploaded bundle *)
(* ends.                                                                   *)
(*                                                                         *)
(* The handlers are operators from a process, and its files, to the next   *)
(* ones; an invariant is one of a process, files and the world around it,  *)
(* which every operator keeps.                                             *)
(***************************************************************************)
EXTENDS Evidence, FiniteSetTheorems, SequenceTheorems, WellFoundedInduction, TLAPS

\* The outbox: bounded, and each event in it once.
Outbox(q) == q \in Seq(Event) /\ Len(q) <= MaxPending /\ IsInjective(q)

Typed(x, d, c) ==
  /\ x \in Process /\ d \in Storage /\ c \in ControlPlane
  /\ Outbox(x.pending)
  /\ x.codecs = d.codecs

\* An item is on disk, or with the control plane.
Safe(d, c) == Debt(d) \cup c.received

Accepted(reply) == reply # None /\ reply.code = "200"

\* What a call, and the answer to it, may say of what is owed, and of what is asked.
TickSound(x, d, c) ==
  x.tick # None =>
    /\ x.tick.head # None => x.tick.head \in ToSet(Recorded(d)) \cup c.received
    /\ x.tick.kind = "bootstrap" /\ x.tick.reply # None => x.tick.reply.code = "200"
    /\ Accepted(x.tick.reply) =>
         /\ x.tick.reply.ack # None => x.tick.reply.ack \in c.received
         /\ c.asks => x.tick.reply.asks
    /\ x.tick.late /\ c.asks => x.asks

FlushSound(x, d, c) ==
  x.flush # None =>
    /\ \A e \in ToSet(x.flush.events) : e.what \in Durable => e.what \in Safe(d, c)
    /\ Accepted(x.flush.reply) =>
         /\ x.flush.reply.accepted <= Len(x.flush.events)
         /\ \A i \in 1 .. x.flush.reply.accepted : x.flush.events[i].what \in c.received
         /\ c.asks => x.flush.reply.asks
    /\ x.flush.late /\ c.asks => x.asks

UploadSound(x, d) ==
  x.upload # None => x.upload.batch # <<>> /\ ToSet(x.upload.batch) \subseteq ToSet(d.codecs)

\* The completion of a recycle is claimed only with its marker, or once it is known.
ResetSound(x, d, c) ==
  /\ x.awaiting \/ (\E e \in ToSet(x.pending) : e.what = Reset) => Reset \in Safe(d, c)
  /\ x.clearing => Reset \in c.received /\ ~c.asks
  /\ c.asks => d.marker

Sound(x, d, c) ==
  /\ Typed(x, d, c)
  /\ ToSet(x.evidences) \subseteq ToSet(Recorded(d)) \cup c.received
  /\ TickSound(x, d, c) /\ FlushSound(x, d, c) /\ UploadSound(x, d) /\ ResetSound(x, d, c)
  /\ x.projection \in Customers => d.projection = x.projection

Inv == Sound(s, disk, api)

-----------------------------------------------------------------------------
(* Sequences.                                                              *)

\* What holds at 0 and from each number to the next holds up to n.
LEMMA UpTo ==
  ASSUME NEW n \in Nat, NEW good, 0 \in good,
         \A i \in 1 .. n : i - 1 \in good => i \in good
  PROVE  0 .. n \subseteq good
<1> DEFINE R == {ss \in Nat \X Nat : ss[1] < ss[2]}
           bad == (0 .. n) \ good
<1>1. IsWellFoundedOn(R, Nat)
  BY NatLessThanWellFounded DEF OpToRel
<1>2. SUFFICES ASSUME bad # {} PROVE FALSE
  OBVIOUS
<1>3. bad \subseteq Nat
  OBVIOUS
<1>4. PICK i \in bad : \A j \in bad : <<j, i>> \notin R
  <2> HIDE DEF bad, R
  <2>1. QED BY <1>1, <1>2, <1>3, WFMin
<1>5. i \in 1 .. n /\ i - 1 \in 0 .. n
  OBVIOUS
<1>6. i - 1 \in good
  <2>1. <<i - 1, i>> \in R
    BY <1>3, <1>5
  <2>2. i - 1 \notin bad
    BY <1>4, <2>1
  <2>3. QED BY <1>5, <2>2
<1>7. QED BY <1>5, <1>6

\* A filtered sequence: the elements that are not out, each as often as before, in a
\* sequence that is shorter unless it is the same.
LEMMA LessFacts ==
  ASSUME NEW S, NEW q \in Seq(S), NEW out
  PROVE  /\ Less(q, out) \in Seq(S)
         /\ ToSet(Less(q, out)) = ToSet(q) \ out
         /\ Len(Less(q, out)) <= Len(q)
         /\ Len(Less(q, out)) = Len(q) => Less(q, out) = q
         /\ IsInjective(q) => IsInjective(Less(q, out))
<1> DEFINE n == Len(q)
           step(f, i) == IF i = 0 THEN <<>>
                         ELSE IF q[i] \in out THEN f[i - 1] ELSE Append(f[i - 1], q[i])
           is(f, m) == f = [i \in 0 .. m |-> step(f, i)]
           known == {m \in 0 .. n : \E f : is(f, m)}
           kept == CHOOSE f : is(f, n)
<1>1. n \in Nat /\ q \in [1 .. n -> S]
  OBVIOUS
<1>2. is(kept, n)
  <2>1. 0 \in known
    <3>1. is([i \in 0 .. 0 |-> <<>>], 0)
      OBVIOUS
    <3> HIDE DEF is
    <3>2. QED BY <1>1, <3>1
  <2>2. ASSUME NEW m \in 1 .. n, m - 1 \in known PROVE m \in known
    <3>1. PICK f : is(f, m - 1)
      BY <2>2
    <3> DEFINE g == [i \in 0 .. m |-> IF i < m THEN f[i] ELSE step(f, m)]
    <3>2. \A i \in 0 .. m : g[i] = IF i < m THEN f[i] ELSE step(f, m)
      OBVIOUS
    <3>3. \A i \in 0 .. m - 1 : f[i] = step(f, i)
      BY <3>1
    <3>4. \A i \in 0 .. m : step(g, i) = step(f, i)
      <4> HIDE DEF g
      <4>1. QED BY <3>2
    <3>5. \A i \in 0 .. m : g[i] = step(g, i)
      <4>1. \A i \in 0 .. m : g[i] = step(f, i)
        <5> HIDE DEF g, step
        <5>1. QED BY <3>2, <3>3
      <4> HIDE DEF g, step
      <4>2. QED BY <4>1, <3>4
    <3>6. is(g, m)
      <4>1. g = [i \in 0 .. m |-> g[i]]
        OBVIOUS
      <4> HIDE DEF g, step
      <4>2. QED BY <4>1, <3>5
    <3> HIDE DEF is, g
    <3>7. QED BY <3>6
  <2>3. 0 .. n \subseteq known
    <3> HIDE DEF known, n
    <3>1. QED BY <1>1, <2>1, <2>2, UpTo
  <2>4. \E f : is(f, n)
    BY <1>1, <2>3
  <2> HIDE DEF is
  <2>5. QED BY <2>4
<1>3. Less(q, out) = kept[n]
  BY DEF Less
<1>4. kept[0] = <<>> /\ \A i \in 1 .. n :
        kept[i] = IF q[i] \in out THEN kept[i - 1] ELSE Append(kept[i - 1], q[i])
  <2> HIDE DEF kept
  <2>1. \A i \in 0 .. n : kept[i] = step(kept, i)
    <3> HIDE DEF step
    <3>1. QED BY <1>2
  <2> HIDE DEF n
  <2>2. 0 \in 0 .. n /\ \A i \in 1 .. n : i \in 0 .. n /\ i # 0
    BY <1>1
  <2>3. QED BY <2>1, <2>2
<1> DEFINE right(i) ==
             /\ kept[i] \in Seq(S) /\ Len(kept[i]) <= i
             /\ \A e : e \in ToSet(kept[i]) <=> \E j \in 1 .. i : q[j] = e /\ e \notin out
             /\ Len(kept[i]) = i => \A j \in 1 .. i : kept[i][j] = q[j]
             /\ IsInjective(q) => IsInjective(kept[i])
           good == {i \in 0 .. n : right(i)}
<1> HIDE DEF kept
<1>5. 0 \in good
  <2>1. DOMAIN <<>> = {} /\ <<>> \in Seq(S) /\ Len(<<>>) = 0
    OBVIOUS
  <2>2. right(0)
    BY <1>4, <2>1 DEF ToSet, IsInjective
  <2> HIDE DEF right
  <2>3. QED BY <1>1, <2>2
<1>6. ASSUME NEW i \in 1 .. n, i - 1 \in good PROVE i \in good
  <2>1. right(i - 1) /\ i \in Nat /\ i - 1 \in Nat
    BY <1>6
  <2>2. CASE q[i] \in out
    <3>1. kept[i] = kept[i - 1]
      BY <1>4, <2>2
    <3>2. \A e : (\E j \in 1 .. i : q[j] = e /\ e \notin out) <=>
                 (\E j \in 1 .. i - 1 : q[j] = e /\ e \notin out)
      BY <2>2
    <3>3. QED BY <2>1, <3>1, <3>2
  <2>3. CASE q[i] \notin out
    <3> DEFINE k == kept[i - 1]
    <3>1. kept[i] = Append(k, q[i])
      BY <1>4, <2>3
    <3>2. k \in Seq(S) /\ q[i] \in S /\ Len(k) \in Nat /\ Len(k) <= i - 1
      BY <1>1, <2>1
    <3>3. /\ kept[i] \in Seq(S) /\ Len(kept[i]) = Len(k) + 1
          /\ \A j \in 1 .. Len(k) : kept[i][j] = k[j]
          /\ kept[i][Len(k) + 1] = q[i]
      BY <3>1, <3>2, AppendProperties
    <3>4. \A e : e \in ToSet(kept[i]) <=> e \in ToSet(k) \/ e = q[i]
      <4> HIDE DEF k
      <4>1. DOMAIN k = 1 .. Len(k) /\ DOMAIN kept[i] = 1 .. Len(k) + 1
        BY <3>2, <3>3
      <4>2. QED BY <3>2, <3>3, <4>1 DEF ToSet
    <3>5. \A e : (\E j \in 1 .. i : q[j] = e /\ e \notin out) <=>
                 (\E j \in 1 .. i - 1 : q[j] = e /\ e \notin out) \/ e = q[i]
      BY <2>3
    <3>6. \A e : e \in ToSet(kept[i]) <=> \E j \in 1 .. i : q[j] = e /\ e \notin out
      BY <2>1, <3>4, <3>5
    <3>7. Len(kept[i]) = i => \A j \in 1 .. i : kept[i][j] = q[j]
      <4> SUFFICES ASSUME Len(kept[i]) = i, NEW j \in 1 .. i PROVE kept[i][j] = q[j]
        OBVIOUS
      <4>1. Len(k) = i - 1
        BY <3>2, <3>3
      <4>2. CASE j = i
        BY <3>3, <4>1, <4>2
      <4>3. CASE j \in 1 .. i - 1
        BY <2>1, <3>3, <4>1, <4>3
      <4>4. QED BY <4>2, <4>3
    <3>8. IsInjective(q) => IsInjective(kept[i])
      <4> SUFFICES ASSUME IsInjective(q),
                          NEW a \in 1 .. Len(k) + 1, NEW b \in 1 .. Len(k) + 1,
                          kept[i][a] = kept[i][b], a < b
                   PROVE  FALSE
        <5>1. DOMAIN kept[i] = 1 .. Len(k) + 1
          BY <3>2, <3>3
        <5>2. QED BY <3>2, <5>1 DEF IsInjective
      <4>1. a \in 1 .. Len(k) /\ kept[i][a] = k[a]
        BY <3>2, <3>3
      <4>a. DOMAIN k = 1 .. Len(k)
        BY <3>2
      <4>2. CASE b \in 1 .. Len(k)
        <5>1. kept[i][b] = k[b] /\ k[a] = k[b] /\ a # b
          <6> HIDE DEF k
          <6>1. a \in Int /\ b \in Int
            BY <3>2
          <6>2. a # b
            BY <6>1
          <6>3. kept[i][b] = k[b]
            BY <3>3, <4>2
          <6>4. QED BY <4>1, <6>2, <6>3
        <5>2. IsInjective(k)
          BY <2>1
        <5> HIDE DEF k
        <5>3. QED BY <4>a, <4>1, <4>2, <5>1, <5>2 DEF IsInjective
      <4>3. CASE b = Len(k) + 1
        <5>1. q[i] \in ToSet(k)
          <6> HIDE DEF k
          <6>1. k[a] = q[i]
            BY <3>3, <4>1, <4>3
          <6>2. QED BY <4>a, <4>1, <6>1 DEF ToSet
        <5>2. PICK j \in 1 .. i - 1 : q[j] = q[i]
          BY <2>1, <5>1
        <5>3. i \in DOMAIN q /\ j \in DOMAIN q /\ j # i
          BY <1>1
        <5>4. QED BY <5>2, <5>3 DEF IsInjective
      <4>4. QED BY <3>2, <4>2, <4>3
    <3>9. right(i)
      BY <3>2, <3>3, <3>6, <3>7, <3>8
    <3> HIDE DEF right
    <3>10. QED BY <3>9
  <2>4. QED BY <2>2, <2>3
<1>7. right(n)
  <2>1. 0 .. n \subseteq good
    <3> HIDE DEF good, n
    <3>1. QED BY <1>1, <1>5, <1>6, UpTo
  <2> HIDE DEF right
  <2>2. QED BY <1>1, <2>1
<1>8. ToSet(kept[n]) = ToSet(q) \ out
  <2>1. DOMAIN q = 1 .. n
    OBVIOUS
  <2>2. \A e : e \in ToSet(q) <=> \E j \in 1 .. n : q[j] = e
    BY <2>1 DEF ToSet
  <2>3. QED BY <1>7, <2>2
<1>9. Len(kept[n]) = n => kept[n] = q
  BY <1>1, <1>7, SeqEqual
<1> HIDE DEF n
<1>10. QED BY <1>3, <1>7, <1>8, <1>9 DEF n

\* A part of a sequence.
LEMMA PartFacts ==
  ASSUME NEW S, NEW q \in Seq(S), NEW m \in 1 .. Len(q) + 1, NEW n \in 0 .. Len(q), m <= n + 1
  PROVE  /\ SubSeq(q, m, n) \in Seq(S)
         /\ Len(SubSeq(q, m, n)) = n - m + 1
         /\ \A i \in 1 .. n - m + 1 : SubSeq(q, m, n)[i] = q[m + i - 1]
         /\ DOMAIN SubSeq(q, m, n) = 1 .. n - m + 1
         /\ ToSet(SubSeq(q, m, n)) = {q[j] : j \in m .. n}
<1>1. m \in Int /\ n \in Int /\ \A i \in m .. n : q[i] \in S
  OBVIOUS
<1>2. /\ SubSeq(q, m, n) \in Seq(S)
      /\ Len(SubSeq(q, m, n)) = n - m + 1
      /\ \A i \in 1 .. n - m + 1 : SubSeq(q, m, n)[i] = q[m + i - 1]
  BY <1>1, SubSeqProperties
<1> DEFINE part == SubSeq(q, m, n)
<1> HIDE DEF part
<1>3. DOMAIN part = 1 .. n - m + 1
  BY <1>2 DEF part
<1>4. ToSet(part) = {part[i] : i \in 1 .. n - m + 1}
  BY <1>3 DEF ToSet
<1>5. \A j \in m .. n : j - m + 1 \in 1 .. n - m + 1 /\ m + (j - m + 1) - 1 = j
  BY <1>1
<1>6. \A i \in 1 .. n - m + 1 : m + i - 1 \in m .. n
  BY <1>1
<1>7. \A i \in 1 .. n - m + 1 : part[i] = q[m + i - 1]
  BY <1>2 DEF part
<1>8. {part[i] : i \in 1 .. n - m + 1} = {q[j] : j \in m .. n}
  <2>1. \A i \in 1 .. n - m + 1 : part[i] \in {q[j] : j \in m .. n}
    BY <1>6, <1>7
  <2>2. \A j \in m .. n : q[j] = part[j - m + 1]
    BY <1>5, <1>7
  <2>3. \A j \in m .. n : q[j] \in {part[i] : i \in 1 .. n - m + 1}
    BY <1>5, <2>2
  <2>4. QED BY <2>1, <2>3
<1>9. QED BY <1>2, <1>3, <1>4, <1>8 DEF part

\* A part that starts at the front.
LEMMA PrefixFacts ==
  ASSUME NEW S, NEW q \in Seq(S), NEW n \in 0 .. Len(q)
  PROVE  /\ SubSeq(q, 1, n) \in Seq(S) /\ Len(SubSeq(q, 1, n)) = n
         /\ \A i \in 1 .. n : SubSeq(q, 1, n)[i] = q[i]
         /\ ToSet(SubSeq(q, 1, n)) = {q[j] : j \in 1 .. n}
<1>1. PICK m : m = 1
  OBVIOUS
<1>2. m \in 1 .. Len(q) + 1 /\ m <= n + 1
  BY <1>1
<1>3. /\ SubSeq(q, m, n) \in Seq(S)
      /\ Len(SubSeq(q, m, n)) = n - m + 1
      /\ \A i \in 1 .. n - m + 1 : SubSeq(q, m, n)[i] = q[m + i - 1]
      /\ DOMAIN SubSeq(q, m, n) = 1 .. n - m + 1
      /\ ToSet(SubSeq(q, m, n)) = {q[j] : j \in m .. n}
  BY <1>2, PartFacts
<1>4. n - m + 1 = n /\ \A i \in 1 .. n : m + i - 1 = i
  BY <1>1
<1>5. QED BY <1>1, <1>3, <1>4

\* The ids of a sequence are finitely many.
LEMMA FewIds ==
  ASSUME NEW S, NEW q \in Seq(S)
  PROVE  IsFiniteSet({e.id : e \in ToSet(q)})
<1> DEFINE n == Len(q)
           T == {e.id : e \in ToSet(q)}
           f == [i \in 1 .. n |-> q[i].id]
<1>1. n \in Nat /\ DOMAIN q = 1 .. n
  OBVIOUS
<1>2. f \in [1 .. n -> T]
  BY <1>1 DEF ToSet
<1>3. \A v \in T : \E i \in 1 .. n : f[i] = v
  BY <1>1 DEF ToSet
<1>4. ExistsSurjection(1 .. n, T)
  <2> HIDE DEF n, f, T
  <2>1. f \in Surjection(1 .. n, T)
    BY <1>2, <1>3 DEF Surjection
  <2>2. QED BY <2>1 DEF ExistsSurjection
<1>5. QED
  <2> HIDE DEF n, T
  <2>1. IsFiniteSet(T)
    BY <1>1, <1>4, FS_NatSurjection
  <2>2. QED BY <2>1 DEF T

\* The id of a new event is not in use.
LEMMA NewId ==
  ASSUME NEW x \in Process
  PROVE  LET id == CHOOSE n \in 1 .. Cardinality(UsedIds(x)) + 1 : n \notin UsedIds(x)
         IN id \in Nat /\ id \notin UsedIds(x)
<1> DEFINE U == UsedIds(x)
           k == Cardinality(U)
<1>1. IsFiniteSet(U)
  <2>1. x.pending \in Seq(Event) /\ (x.flush # None => x.flush.events \in Seq(Sendable))
    BY DEF Process, FlushCall
  <2>2. IsFiniteSet({e.id : e \in ToSet(x.pending)})
    BY <2>1, FewIds
  <2>3. IsFiniteSet(IF x.flush = None THEN {} ELSE {e.id : e \in ToSet(x.flush.events)})
    BY <2>1, FewIds, FS_EmptySet
  <2>4. QED BY <2>2, <2>3, FS_Union DEF UsedIds
<1>2. k \in Nat
  BY <1>1, FS_CardinalityType
<1>3. \E n \in 1 .. k + 1 : n \notin U
  <2>1. SUFFICES ASSUME 1 .. k + 1 \subseteq U PROVE FALSE
    OBVIOUS
  <2> HIDE DEF U
  <2>2. Cardinality(1 .. k + 1) <= k
    BY <1>1, <2>1, FS_Subset
  <2>3. Cardinality(1 .. k + 1) = k + 1
    BY <1>2, FS_Interval
  <2>4. QED BY <1>2, <2>2, <2>3
<1> DEFINE id == CHOOSE n \in 1 .. k + 1 : n \notin U
<1>4. id \in 1 .. k + 1 /\ id \notin U
  <2> HIDE DEF U, k
  <2>1. QED BY <1>3
<1>5. QED BY <1>2, <1>4

-----------------------------------------------------------------------------
(* The outbox.                                                             *)

\* A new event is in the outbox, and nothing is lost from it but the oldest when it
\* was full.
LEMMA QueuedFacts ==
  ASSUME NEW x \in Process, Outbox(x.pending),
         NEW what \in Events \cup {Reset}
  PROVE  \E q :
           /\ Queued(x, what) = [x EXCEPT !.pending = q]
           /\ Outbox(q) /\ q # <<>>
           /\ \A e \in ToSet(q) : e \in ToSet(x.pending) \/ e.what = what
           /\ \A e \in ToSet(x.pending) \ ToSet(q) :
                Len(x.pending) = MaxPending /\ e = x.pending[1]
<1> DEFINE id == CHOOSE n \in 1 .. Cardinality(UsedIds(x)) + 1 : n \notin UsedIds(x)
           p == x.pending
           new == [what |-> what, id |-> id]
           all == Append(p, new)
           q == Newest(all)
<1>1. id \in Nat /\ id \notin UsedIds(x)
  BY NewId
<1>2. p \in Seq(Event) /\ Len(p) \in Nat /\ Len(p) <= MaxPending /\ IsInjective(p)
      /\ MaxPending \in Nat \ {0}
  BY BoundAssumption DEF Outbox
<1>3. new \in Event /\ new.what = what /\ new.id = id
  BY <1>1 DEF Event
<1>4. new \notin ToSet(p)
  BY <1>1, <1>3 DEF UsedIds
<1>5. Queued(x, what) = [x EXCEPT !.pending = q]
  BY DEF Queued
<1> HIDE DEF id, p, new
<1>6. /\ all \in Seq(Event) /\ Len(all) = Len(p) + 1 /\ DOMAIN all = 1 .. Len(p) + 1
      /\ \A i \in 1 .. Len(p) : all[i] = p[i]
      /\ all[Len(p) + 1] = new
  <2>1. /\ all \in Seq(Event) /\ Len(all) = Len(p) + 1
        /\ \A i \in 1 .. Len(p) : all[i] = p[i]
        /\ all[Len(p) + 1] = new
    BY <1>2, <1>3, AppendProperties
  <2>2. QED BY <2>1
<1> HIDE DEF all
<1>7. DOMAIN p = 1 .. Len(p)
  BY <1>2
<1>8. ToSet(p) = {p[j] : j \in 1 .. Len(p)}
  BY <1>7 DEF ToSet
<1>9. IsInjective(all)
  <2>1. \A j \in 1 .. Len(p) : p[j] # new
    BY <1>4, <1>8
  <2>2. SUFFICES ASSUME NEW a \in 1 .. Len(p) + 1, NEW b \in 1 .. Len(p) + 1,
                        all[a] = all[b]
                 PROVE  a = b
    BY <1>6 DEF IsInjective
  <2>3. CASE a \in 1 .. Len(p) /\ b \in 1 .. Len(p)
    BY <1>2, <1>6, <1>7, <2>2, <2>3 DEF IsInjective
  <2>4. CASE a = Len(p) + 1 /\ b \in 1 .. Len(p)
    BY <1>6, <2>1, <2>2, <2>4
  <2>5. CASE b = Len(p) + 1 /\ a \in 1 .. Len(p)
    BY <1>6, <2>1, <2>2, <2>5
  <2>6. QED BY <1>2, <2>3, <2>4, <2>5
<1>10. CASE Len(p) < MaxPending
  <2>1. q = all
    BY <1>2, <1>6, <1>10 DEF Newest
  <2>2. ToSet(all) = ToSet(p) \cup {new}
    BY <1>2, <1>6, <1>8 DEF ToSet
  <2>3. Outbox(q) /\ q # <<>>
    BY <1>2, <1>6, <1>9, <1>10, <2>1 DEF Outbox
  <2>4. \A e \in ToSet(q) : e \in ToSet(p) \/ e.what = what
    BY <1>3, <2>1, <2>2
  <2>5. ToSet(p) \ ToSet(q) = {}
    BY <2>1, <2>2
  <2> HIDE DEF q
  <2>6. QED BY <1>5, <2>3, <2>4, <2>5 DEF p
<1>11. CASE Len(p) = MaxPending
  <2>1. q = SubSeq(all, 2, Len(p) + 1)
    BY <1>2, <1>6, <1>11 DEF Newest
  <2>2. /\ q \in Seq(Event) /\ Len(q) = Len(p)
        /\ \A i \in 1 .. Len(p) : q[i] = all[i + 1]
        /\ DOMAIN q = 1 .. Len(p)
        /\ ToSet(q) = {all[j] : j \in 2 .. Len(p) + 1}
    <3>1. 2 \in 1 .. Len(all) + 1 /\ Len(p) + 1 \in 0 .. Len(all) /\ 2 <= Len(p) + 1 + 1
      BY <1>2, <1>6
    <3>2. Len(p) + 1 - 2 + 1 = Len(p) /\ \A i \in 1 .. Len(p) : 2 + i - 1 = i + 1
      BY <1>2
    <3>3. /\ SubSeq(all, 2, Len(p) + 1) \in Seq(Event)
          /\ Len(SubSeq(all, 2, Len(p) + 1)) = Len(p) + 1 - 2 + 1
          /\ \A i \in 1 .. Len(p) + 1 - 2 + 1 : SubSeq(all, 2, Len(p) + 1)[i] = all[2 + i - 1]
          /\ DOMAIN SubSeq(all, 2, Len(p) + 1) = 1 .. Len(p) + 1 - 2 + 1
          /\ ToSet(SubSeq(all, 2, Len(p) + 1)) = {all[j] : j \in 2 .. Len(p) + 1}
      BY <1>6, <3>1, PartFacts
    <3> HIDE DEF q
    <3>4. QED BY <2>1, <3>2, <3>3
  <2> HIDE DEF q
  <2>3. IsInjective(q)
    <3>1. SUFFICES ASSUME NEW a \in 1 .. Len(p), NEW b \in 1 .. Len(p), q[a] = q[b]
                   PROVE  a = b
      BY <2>2 DEF IsInjective
    <3>2. a + 1 \in DOMAIN all /\ b + 1 \in DOMAIN all /\ all[a + 1] = all[b + 1]
      BY <1>2, <1>6, <2>2, <3>1
    <3>3. a + 1 = b + 1
      BY <1>9, <3>2 DEF IsInjective
    <3>4. QED BY <1>2, <3>3
  <2>4. Outbox(q) /\ q # <<>>
    BY <1>2, <1>11, <2>2, <2>3 DEF Outbox
  <2>5. \A e \in ToSet(q) : e \in ToSet(p) \/ e.what = what
    <3>1. SUFFICES ASSUME NEW j \in 2 .. Len(p) + 1
                   PROVE  all[j] \in ToSet(p) \/ all[j].what = what
      BY <2>2
    <3>2. CASE j = Len(p) + 1
      BY <1>3, <1>6, <3>2
    <3>3. CASE j \in 1 .. Len(p)
      BY <1>6, <1>8, <3>3
    <3>4. QED BY <1>2, <3>2, <3>3
  <2>6. \A e \in ToSet(p) \ ToSet(q) : e = p[1]
    <3>1. SUFFICES ASSUME NEW j \in 1 .. Len(p), p[j] \notin ToSet(q) PROVE j = 1
      BY <1>8
    <3>2. all[j] = p[j] /\ (j # 1 => j \in 2 .. Len(p) + 1)
      BY <1>2, <1>6
    <3>3. QED BY <2>2, <3>1, <3>2
  <2>7. QED BY <1>5, <1>11, <2>4, <2>5, <2>6 DEF p
<1>12. QED BY <1>2, <1>10, <1>11

\* What is sent is queued, or is a fault file.
LEMMA BatchFacts ==
  ASSUME NEW x \in Process, NEW d \in Storage
  PROVE  /\ Batch(x, d) \in Seq(Sendable)
         /\ \A e \in ToSet(Batch(x, d)) : e \in ToSet(x.pending) \/ e.what \in d.faults
<1> DEFINE n == Cardinality(d.faults)
           files == [i \in 1 .. n |-> [what |-> Files(d)[i], id |-> 0]]
           k == Least(MaxFiles, Len(files))
           first == SubSeq(files, 1, k)
           all == first \o x.pending
           m == Least(MaxPending, Len(all))
<1>1. n \in Nat /\ ExistsBijection(1 .. n, d.faults)
  <2>1. d.faults \in SUBSET Faults
    BY DEF Storage
  <2>2. IsFiniteSet(d.faults)
    BY <2>1, FilesAssumption, FS_Subset
  <2>3. QED BY <2>2, FS_CardinalityType
<1>2. Files(d) \in [1 .. n -> d.faults]
  <2>1. \E f \in [1 .. n -> d.faults] : IsInjective(f)
    BY <1>1 DEF ExistsBijection, Bijection, Injection, Surjection
  <2>2. QED BY <2>1 DEF Files, SetToSeq
<1>3. d.faults \subseteq Faults /\ x.pending \in Seq(Sendable)
  <2>1. Event \subseteq Sendable
    BY DEF Event, Sendable
  <2>2. x.pending \in Seq(Event)
    BY DEF Process
  <2>3. x.pending \in Seq(Sendable)
    BY <2>1, <2>2, SeqMonotonic
  <2>4. QED BY <2>3 DEF Storage
<1>4. files \in Seq(Sendable) /\ Len(files) = n /\ \A i \in 1 .. n : files[i].what \in d.faults
  <2>1. \A i \in 1 .. n : [what |-> Files(d)[i], id |-> 0] \in Sendable
    BY <1>2, <1>3 DEF Sendable
  <2>2. files \in [1 .. n -> Sendable]
    BY <2>1
  <2>3. \A i \in 1 .. n : files[i].what = Files(d)[i]
    OBVIOUS
  <2>4. \A i \in 1 .. n : Files(d)[i] \in d.faults
    BY <1>2
  <2> HIDE DEF files, n
  <2>5. files \in Seq(Sendable) /\ Len(files) = n
    BY <1>1, <2>2
  <2>6. QED BY <2>3, <2>4, <2>5
<1>5. k \in 0 .. n
  BY <1>1, <1>4, BoundAssumption DEF Least
<1>6. first \in Seq(Sendable) /\ ToSet(first) = {files[j] : j \in 1 .. k}
  <2> HIDE DEF files, k, n
  <2>1. k \in 0 .. Len(files)
    BY <1>1, <1>4, <1>5
  <2>2. QED BY <1>4, <2>1, PrefixFacts
<1> HIDE DEF first
<1>7. all \in Seq(Sendable) /\ \A i \in 1 .. Len(all) : all[i] \in ToSet(first) \cup ToSet(x.pending)
  <2>1. all \in Seq(Sendable) /\ Len(all) = Len(first) + Len(x.pending)
        /\ \A i \in 1 .. Len(first) + Len(x.pending) :
             all[i] = IF i <= Len(first) THEN first[i] ELSE x.pending[i - Len(first)]
    BY <1>3, <1>6, ConcatProperties
  <2>2. DOMAIN first = 1 .. Len(first) /\ DOMAIN x.pending = 1 .. Len(x.pending)
        /\ Len(first) \in Nat /\ Len(x.pending) \in Nat
    BY <1>3, <1>6
  <2> HIDE DEF all
  <2>3. ASSUME NEW i \in 1 .. Len(all)
        PROVE  all[i] \in ToSet(first) \cup ToSet(x.pending)
    <3>1. CASE i <= Len(first)
      <4>1. i \in DOMAIN first /\ all[i] = first[i]
        BY <2>1, <2>2, <3>1
      <4>2. QED BY <4>1 DEF ToSet
    <3>2. CASE ~(i <= Len(first))
      <4>1. i - Len(first) \in DOMAIN x.pending /\ all[i] = x.pending[i - Len(first)]
        BY <2>1, <2>2, <3>2
      <4>2. QED BY <4>1 DEF ToSet
    <3>3. QED BY <3>1, <3>2
  <2>4. QED BY <2>1, <2>3
<1> HIDE DEF all
<1>8. m \in 0 .. Len(all)
  BY <1>7, BoundAssumption DEF Least
<1>9. SubSeq(all, 1, m) \in Seq(Sendable) /\ ToSet(SubSeq(all, 1, m)) = {all[j] : j \in 1 .. m}
  <2> HIDE DEF m
  <2>1. QED BY <1>7, <1>8, PrefixFacts
<1>10. Batch(x, d) = SubSeq(all, 1, m)
  BY DEF Batch, all, first
<1>11. \A e \in ToSet(first) : e.what \in d.faults
  <2>1. \A j \in 1 .. k : j \in 1 .. n
    <3> HIDE DEF k, n
    <3>1. QED BY <1>1, <1>5
  <2> HIDE DEF files, k, n
  <2>2. QED BY <1>4, <1>6, <2>1
<1>12. \A j \in 1 .. m : j \in 1 .. Len(all)
  BY <1>7, <1>8
<1> HIDE DEF m
<1>13. QED BY <1>7, <1>9, <1>10, <1>11, <1>12

-----------------------------------------------------------------------------
(* Parts of the invariant that a change leaves alone.                      *)

LEMMA PendingKeeps ==
  ASSUME NEW x, NEW d, NEW c, Sound(x, d, c), NEW q, Outbox(q),
         (\E e \in ToSet(q) : e.what = Reset) => Reset \in Safe(d, c)
  PROVE  Sound([x EXCEPT !.pending = q], d, c)
<1> DEFINE y == [x EXCEPT !.pending = q]
<1>1. x \in Process /\ q \in Seq(Event)
  BY DEF Sound, Typed, Outbox
<1>2. y \in Process
  BY <1>1, Zenon DEF Process
<1>3. /\ y.pending = q /\ y.tick = x.tick /\ y.flush = x.flush /\ y.upload = x.upload
      /\ y.asks = x.asks /\ y.awaiting = x.awaiting /\ y.clearing = x.clearing
      /\ y.evidences = x.evidences /\ y.codecs = x.codecs /\ y.projection = x.projection
  BY <1>1 DEF Process
<1> HIDE DEF y
<1>4. Sound(y, d, c)
  BY <1>2, <1>3 DEF Sound, Typed, TickSound, FlushSound, UploadSound, ResetSound
<1>5. QED BY <1>4 DEF y

\* The files may lose what the control plane has.
LEMMA FilesKeep ==
  ASSUME NEW x, NEW d, NEW c, Sound(x, d, c), NEW f \in Storage,
         f.codecs = d.codecs, f.projection = d.projection,
         Safe(d, c) \subseteq Safe(f, c),
         ToSet(Recorded(d)) \subseteq ToSet(Recorded(f)) \cup c.received,
         c.asks => f.marker
  PROVE  Sound(x, f, c)
BY DEF Sound, Typed, TickSound, FlushSound, UploadSound, ResetSound

\* The control plane receives more and asks less.
LEMMA ControlKeeps ==
  ASSUME NEW x, NEW d, NEW c, Sound(x, d, c), NEW k \in ControlPlane,
         c.received \subseteq k.received, k.asks => c.asks
  PROVE  Sound(x, d, k)
<1>1. Safe(d, c) \subseteq Safe(d, k)
  BY DEF Safe
<1>2. QED BY <1>1 DEF Sound, Typed, TickSound, FlushSound, UploadSound, ResetSound

\* Calls that are over, and tokens that are dropped, claim nothing.
LEMMA CallsEnd ==
  ASSUME NEW x, NEW d, NEW c, Sound(x, d, c)
  PROVE  /\ Sound([x EXCEPT !.tick = None], d, c)
         /\ Sound([x EXCEPT !.flush = None], d, c)
         /\ Sound([x EXCEPT !.upload = None], d, c)
         /\ \A n \in Nat : Sound([x EXCEPT !.token = n], d, c)
<1>1. x \in Process
  BY DEF Sound, Typed
<1>2. Sound([x EXCEPT !.tick = None], d, c)
  <2> DEFINE y == [x EXCEPT !.tick = None]
  <2>1. y \in Process
    BY <1>1, Zenon DEF Process
  <2>2. /\ y.pending = x.pending /\ y.tick = None /\ y.flush = x.flush /\ y.upload = x.upload
        /\ y.asks = x.asks /\ y.awaiting = x.awaiting /\ y.clearing = x.clearing
        /\ y.evidences = x.evidences /\ y.codecs = x.codecs /\ y.projection = x.projection
    BY <1>1 DEF Process
  <2> HIDE DEF y
  <2>3. Sound(y, d, c)
    BY <2>1, <2>2 DEF Sound, Typed, TickSound, FlushSound, UploadSound, ResetSound
  <2>4. QED BY <2>3 DEF y
<1>3. Sound([x EXCEPT !.flush = None], d, c)
  <2> DEFINE y == [x EXCEPT !.flush = None]
  <2>1. y \in Process
    BY <1>1, Zenon DEF Process
  <2>2. /\ y.pending = x.pending /\ y.tick = x.tick /\ y.flush = None /\ y.upload = x.upload
        /\ y.asks = x.asks /\ y.awaiting = x.awaiting /\ y.clearing = x.clearing
        /\ y.evidences = x.evidences /\ y.codecs = x.codecs /\ y.projection = x.projection
    BY <1>1 DEF Process
  <2> HIDE DEF y
  <2>3. Sound(y, d, c)
    BY <2>1, <2>2 DEF Sound, Typed, TickSound, FlushSound, UploadSound, ResetSound
  <2>4. QED BY <2>3 DEF y
<1>4. Sound([x EXCEPT !.upload = None], d, c)
  <2> DEFINE y == [x EXCEPT !.upload = None]
  <2>1. y \in Process
    BY <1>1, Zenon DEF Process
  <2>2. /\ y.pending = x.pending /\ y.tick = x.tick /\ y.flush = x.flush /\ y.upload = None
        /\ y.asks = x.asks /\ y.awaiting = x.awaiting /\ y.clearing = x.clearing
        /\ y.evidences = x.evidences /\ y.codecs = x.codecs /\ y.projection = x.projection
    BY <1>1 DEF Process
  <2> HIDE DEF y
  <2>3. Sound(y, d, c)
    BY <2>1, <2>2 DEF Sound, Typed, TickSound, FlushSound, UploadSound, ResetSound
  <2>4. QED BY <2>3 DEF y
<1>5. ASSUME NEW n \in Nat PROVE Sound([x EXCEPT !.token = n], d, c)
  <2> DEFINE y == [x EXCEPT !.token = n]
  <2>1. y \in Process
    BY <1>1, Zenon DEF Process
  <2>2. /\ y.pending = x.pending /\ y.tick = x.tick /\ y.flush = x.flush /\ y.upload = x.upload
        /\ y.asks = x.asks /\ y.awaiting = x.awaiting /\ y.clearing = x.clearing
        /\ y.evidences = x.evidences /\ y.codecs = x.codecs /\ y.projection = x.projection
    BY <1>1 DEF Process
  <2> HIDE DEF y
  <2>3. Sound(y, d, c)
    BY <2>1, <2>2 DEF Sound, Typed, TickSound, FlushSound, UploadSound, ResetSound
  <2>4. QED BY <2>3 DEF y
<1>6. QED BY <1>2, <1>3, <1>4, <1>5

\* Whether the journal is usable, its cutoff durable, and codec evidence refused.
LEMMA FlagsKeep ==
  ASSUME NEW x, NEW d, NEW c, Sound(x, d, c), NEW v \in BOOLEAN, NEW w \in BOOLEAN
  PROVE  /\ Sound([x EXCEPT !.blocked = v], d, c)
         /\ Sound([x EXCEPT !.durable = v], d, c)
         /\ Sound([x EXCEPT !.durable = v, !.blocked = w], d, c)
<1>1. x \in Process
  BY DEF Sound, Typed
<1>2. ASSUME NEW y \in {[x EXCEPT !.blocked = v], [x EXCEPT !.durable = v],
                        [x EXCEPT !.durable = v, !.blocked = w]}
      PROVE  Sound(y, d, c)
  <2>1. y \in Process
    <3>1. /\ [x EXCEPT !.blocked = v] \in Process
          /\ [x EXCEPT !.durable = v] \in Process
          /\ [x EXCEPT !.durable = v, !.blocked = w] \in Process
      BY <1>1, Zenon DEF Process
    <3>2. QED BY <1>2, <3>1
  <2>2. /\ y.pending = x.pending /\ y.tick = x.tick /\ y.flush = x.flush
        /\ y.upload = x.upload /\ y.asks = x.asks /\ y.awaiting = x.awaiting
        /\ y.clearing = x.clearing /\ y.evidences = x.evidences /\ y.codecs = x.codecs
        /\ y.projection = x.projection
    BY <1>1, <1>2 DEF Process
  <2>3. QED BY <2>1, <2>2 DEF Sound, Typed, TickSound, FlushSound, UploadSound, ResetSound
<1>3. QED BY <1>2

-----------------------------------------------------------------------------
(* The operators of the outbox keep the invariant.                         *)

LEMMA QueuedKeeps ==
  ASSUME NEW x, NEW d, NEW c, Sound(x, d, c),
         NEW what \in Events \cup {Reset}, what = Reset => Reset \in Safe(d, c)
  PROVE  Sound(Queued(x, what), d, c)
<1>1. x \in Process /\ Outbox(x.pending)
  BY DEF Sound, Typed
<1>2. PICK q :
        /\ Queued(x, what) = [x EXCEPT !.pending = q]
        /\ Outbox(q)
        /\ \A e \in ToSet(q) : e \in ToSet(x.pending) \/ e.what = what
  BY <1>1, QueuedFacts
<1>3. (\E e \in ToSet(q) : e.what = Reset) => Reset \in Safe(d, c)
  BY <1>2 DEF Sound, ResetSound
<1>4. QED BY <1>2, <1>3, PendingKeeps

\* A filtered outbox.
LEMMA RemovedKeeps ==
  ASSUME NEW x, NEW d, NEW c, Sound(x, d, c), NEW out
  PROVE  Sound([x EXCEPT !.pending = Less(@, out)], d, c)
<1>1. x \in Process /\ Outbox(x.pending)
  BY DEF Sound, Typed
<1> DEFINE q == Less(x.pending, out)
<1>2. Outbox(q) /\ ToSet(q) \subseteq ToSet(x.pending)
  <2>1. /\ q \in Seq(Event) /\ ToSet(q) = ToSet(x.pending) \ out
        /\ Len(q) <= Len(x.pending)
        /\ IsInjective(x.pending) => IsInjective(q)
    BY <1>1, LessFacts DEF Outbox
  <2> HIDE DEF q
  <2>2. Len(q) <= MaxPending
    BY <1>1, <2>1, BoundAssumption DEF Outbox
  <2>3. QED BY <1>1, <2>1, <2>2 DEF Outbox
<1> HIDE DEF q
<1>3. (\E e \in ToSet(q) : e.what = Reset) => Reset \in Safe(d, c)
  BY <1>2 DEF Sound, ResetSound
<1>4. Sound([x EXCEPT !.pending = q], d, c)
  BY <1>2, <1>3, PendingKeeps
<1>5. QED BY <1>4 DEF q

LEMMA QualityKeeps ==
  ASSUME NEW x, NEW d, NEW c, Sound(x, d, c), NEW what \in Qualities
  PROVE  Sound(QualityQueued(x, what), d, c)
<1> DEFINE y == [x EXCEPT !.pending = Less(@, {e \in ToSet(@) : e.what \in Qualities})]
<1>1. Sound(y, d, c)
  <2> DEFINE out == {e \in ToSet(x.pending) : e.what \in Qualities}
  <2>1. y = [x EXCEPT !.pending = Less(@, out)]
    OBVIOUS
  <2> HIDE DEF out, y
  <2>2. QED BY <2>1, RemovedKeeps
<1>2. what \in Events \cup {Reset} /\ what # Reset
  BY KindAssumption DEF Events, Durable
<1> HIDE DEF y
<1>3. Sound(Queued(y, what), d, c)
  BY <1>1, <1>2, QueuedKeeps
<1>4. QED BY <1>1, <1>3 DEF QualityQueued, y

LEMMA ResetEnsuredKeeps ==
  ASSUME NEW x, NEW d, NEW c, Sound(x, d, c)
  PROVE  Sound(ResetEnsured(x), d, c)
<1>1. x.awaiting => Reset \in Safe(d, c)
  BY DEF Sound, ResetSound
<1>2. x.awaiting => Sound(Queued(x, Reset), d, c)
  BY <1>1, QueuedKeeps
<1>3. QED BY <1>2 DEF ResetEnsured

\* A request carries what is safe.
LEMMA FlushedKeeps ==
  ASSUME NEW x, NEW d, NEW c, Sound(x, d, c)
  PROVE  Sound(Flushed(x, d), d, c) /\ Flushed(x, d).pending = x.pending
<1> DEFINE call == [token |-> x.token, events |-> Batch(x, d), newer |-> (x.tick # None),
                    late |-> FALSE, reply |-> None]
           tick == IF x.tick = None THEN x.tick ELSE [x.tick EXCEPT !.newer = FALSE]
           y == [x EXCEPT !.flush = call, !.tick = tick]
<1>1. x \in Process /\ d \in Storage
  BY DEF Sound, Typed
<1>2. /\ Batch(x, d) \in Seq(Sendable)
      /\ \A e \in ToSet(Batch(x, d)) : e \in ToSet(x.pending) \/ e.what \in d.faults
  BY <1>1, BatchFacts
<1>3. Flushed(x, d) = x \/ Flushed(x, d) = y
  BY DEF Flushed
<1>4. /\ call \in FlushCall /\ call.events = Batch(x, d) /\ call.reply = None /\ ~call.late
  <2>1. x.token \in Nat
    BY <1>1 DEF Process
  <2>2. QED BY <1>2, <2>1 DEF FlushCall
<1>5. /\ tick \in TickCall \cup {None}
      /\ tick # None => /\ x.tick # None /\ tick.head = x.tick.head /\ tick.kind = x.tick.kind
                        /\ tick.reply = x.tick.reply /\ tick.late = x.tick.late
  <2>1. x.tick \in TickCall \cup {None}
    BY <1>1 DEF Process
  <2>2. CASE x.tick = None
    BY <2>2
  <2>3. CASE x.tick # None
    <3>1. x.tick \in TickCall
      BY <2>1, <2>3
    <3>2. [x.tick EXCEPT !.newer = FALSE] \in TickCall
      BY <3>1, Zenon DEF TickCall
    <3>3. QED BY <2>3, <3>1, <3>2 DEF TickCall
  <2>4. QED BY <2>2, <2>3
<1> HIDE DEF call, tick
<1>6. y \in Process
  BY <1>1, <1>4, <1>5, Zenon DEF Process
<1>7. /\ y.pending = x.pending /\ y.tick = tick /\ y.flush = call
      /\ y.upload = x.upload /\ y.asks = x.asks /\ y.awaiting = x.awaiting
      /\ y.clearing = x.clearing /\ y.evidences = x.evidences /\ y.codecs = x.codecs
      /\ y.projection = x.projection
  BY <1>1 DEF Process
<1>8. \A e \in ToSet(Batch(x, d)) : e.what \in Durable => e.what \in Safe(d, c)
  <2>1. SUFFICES ASSUME NEW e \in ToSet(x.pending), e.what \in Durable
                 PROVE  e.what \in Safe(d, c)
    BY <1>2 DEF Safe, Debt
  <2>2. e.what \in Events \cup {Reset}
    <3>1. x.pending \in Seq(Event)
      BY <1>1 DEF Process
    <3>2. e \in Event
      BY <2>1, <3>1 DEF ToSet
    <3>3. QED BY <3>2 DEF Event
  <2>3. e.what = Reset
    BY <2>1, <2>2, KindAssumption
  <2>4. QED BY <2>3 DEF Sound, ResetSound
<1>9. ~Accepted(None)
  BY DEF Accepted
<1> HIDE DEF y
<1>10. FlushSound(y, d, c)
  BY <1>4, <1>7, <1>8, <1>9 DEF FlushSound
<1>11. TickSound(y, d, c)
  BY <1>5, <1>7 DEF Sound, TickSound
<1>12. Sound(y, d, c)
  BY <1>6, <1>7, <1>10, <1>11 DEF Sound, Typed, UploadSound, ResetSound
<1>13. QED BY <1>3, <1>7, <1>12

\* A request of the tick carries evidence that is safe.
LEMMA TickSentKeeps ==
  ASSUME NEW x, NEW d, NEW c, Sound(x, d, c), NEW kind \in {"bootstrap", "heartbeat"}
  PROVE  Sound(TickSent(x, kind), d, c)
<1> DEFINE head == IF x.evidences = <<>> THEN None ELSE Head(x.evidences)
           call == [kind |-> kind, token |-> x.token, head |-> head,
                    newer |-> (x.flush # None), late |-> FALSE, reply |-> None]
           flush == IF x.flush = None THEN x.flush ELSE [x.flush EXCEPT !.newer = FALSE]
           y == [x EXCEPT !.tick = call, !.flush = flush]
<1>1. x \in Process
  BY DEF Sound, Typed
<1>2. TickSent(x, kind) = y
  BY DEF TickSent
<1>3. head = None \/ head \in Evidences \cap ToSet(x.evidences)
  <2>1. x.evidences \in Seq(Evidences)
    BY <1>1 DEF Process
  <2>2. CASE x.evidences # <<>>
    <3>1. 1 \in DOMAIN x.evidences /\ Head(x.evidences) = x.evidences[1]
          /\ x.evidences[1] \in Evidences
      BY <2>1, <2>2
    <3>2. QED BY <2>2, <3>1 DEF ToSet
  <2>3. QED BY <2>2
<1> HIDE DEF head
<1>4. call \in TickCall /\ call.head = head /\ call.reply = None /\ ~call.late
  <2>1. x.token \in Nat
    BY <1>1 DEF Process
  <2>2. QED BY <1>3, <2>1 DEF TickCall
<1>5. /\ flush \in FlushCall \cup {None}
      /\ flush # None => /\ x.flush # None /\ flush.events = x.flush.events
                         /\ flush.reply = x.flush.reply /\ flush.late = x.flush.late
  <2>1. x.flush \in FlushCall \cup {None}
    BY <1>1 DEF Process
  <2>2. CASE x.flush = None
    BY <2>2
  <2>3. CASE x.flush # None
    <3>1. x.flush \in FlushCall
      BY <2>1, <2>3
    <3>2. [x.flush EXCEPT !.newer = FALSE] \in FlushCall
      BY <3>1, Zenon DEF FlushCall
    <3>3. QED BY <2>3, <3>1, <3>2 DEF FlushCall
  <2>4. QED BY <2>2, <2>3
<1> HIDE DEF call, flush
<1>6. y \in Process
  BY <1>1, <1>4, <1>5, Zenon DEF Process
<1>7. /\ y.pending = x.pending /\ y.tick = call /\ y.flush = flush
      /\ y.upload = x.upload /\ y.asks = x.asks /\ y.awaiting = x.awaiting
      /\ y.clearing = x.clearing /\ y.evidences = x.evidences /\ y.codecs = x.codecs
      /\ y.projection = x.projection
  BY <1>1 DEF Process
<1>8. ~Accepted(None)
  BY DEF Accepted
<1> HIDE DEF y
<1>9. TickSound(y, d, c)
  BY <1>3, <1>4, <1>7, <1>8 DEF Sound, TickSound
<1>10. FlushSound(y, d, c)
  BY <1>5, <1>7 DEF Sound, FlushSound
<1>11. Sound(y, d, c)
  BY <1>6, <1>7, <1>9, <1>10 DEF Sound, Typed, UploadSound, ResetSound
<1>12. QED BY <1>2, <1>11

LEMMA SentKeeps ==
  ASSUME NEW x, NEW d, NEW c, Sound(x, d, c)
  PROVE  Sound(Sent(x), d, c) /\ Sent(x).pending = x.pending
<1>1. x \in Process
  BY DEF Sound, Typed
<1>2. \A kind : TickSent(x, kind).pending = x.pending
  BY <1>1 DEF TickSent, Process
<1>3. QED BY <1>2, TickSentKeeps DEF Sent

\* The response to the tick is applied, unless it was overtaken; then what it was
\* overtaken by is what the agent goes by.
LEMMA TickAcceptedKeeps ==
  ASSUME NEW x, NEW d, NEW c, Sound(x, d, c), x.tick # None, Accepted(x.tick.reply)
  PROVE  /\ Sound(TickAccepted(x), d, c)
         /\ TickAccepted(x).pending = x.pending /\ TickAccepted(x).tick = x.tick
<1> DEFINE late == x.flush.late \/ (x.tick.newer /\ ~x.tick.late)
           flush == IF x.flush = None THEN None
                    ELSE [x.flush EXCEPT !.late = late, !.newer = FALSE]
           asks == IF x.tick.late THEN x.asks ELSE x.tick.reply.asks
           y == [x EXCEPT !.flush = flush, !.asks = asks]
<1>1. x \in Process /\ x.tick \in TickCall /\ x.asks \in BOOLEAN
  BY DEF Sound, Typed, Process
<1>2. x.tick.reply.asks \in BOOLEAN /\ x.tick.late \in BOOLEAN /\ x.tick.newer \in BOOLEAN
  BY <1>1 DEF TickCall, Refusal, Accepted
<1>3. asks \in BOOLEAN
  BY <1>1, <1>2
<1>4. TickAccepted(x) = y
  <2>1. flush = Overtaken(x.flush, x.tick)
    BY DEF Overtaken
  <2> HIDE DEF flush
  <2>2. CASE x.tick.late
    <3>1. TickAccepted(x) = [x EXCEPT !.flush = flush]
      BY <2>1, <2>2 DEF TickAccepted
    <3>2. [x EXCEPT !.flush = flush] = [x EXCEPT !.flush = flush, !.asks = x.asks]
      BY <1>1 DEF Process
    <3>3. QED BY <2>2, <3>1, <3>2
  <2>3. CASE ~x.tick.late
    BY <2>1, <2>3 DEF TickAccepted
  <2>4. QED BY <2>2, <2>3
<1>5. /\ flush \in FlushCall \cup {None}
      /\ flush # None => /\ x.flush # None /\ flush.events = x.flush.events
                         /\ flush.reply = x.flush.reply /\ flush.late = late
  <2>1. x.flush \in FlushCall \cup {None}
    BY <1>1 DEF Process
  <2>2. CASE x.flush = None
    BY <2>2
  <2>3. CASE x.flush # None
    <3>1. x.flush \in FlushCall
      BY <2>1, <2>3
    <3>2. late \in BOOLEAN
      BY <1>2, <3>1 DEF FlushCall
    <3> HIDE DEF late
    <3>3. [x.flush EXCEPT !.late = late, !.newer = FALSE] \in FlushCall
      BY <3>1, <3>2, Zenon DEF FlushCall
    <3>4. QED BY <2>3, <3>1, <3>3 DEF FlushCall
  <2>4. QED BY <2>2, <2>3
<1> HIDE DEF flush, asks
<1>6. y \in Process
  BY <1>1, <1>3, <1>5, Zenon DEF Process
<1>7. /\ y.pending = x.pending /\ y.tick = x.tick /\ y.flush = flush
      /\ y.upload = x.upload /\ y.asks = asks /\ y.awaiting = x.awaiting
      /\ y.clearing = x.clearing /\ y.evidences = x.evidences /\ y.codecs = x.codecs
      /\ y.projection = x.projection
  BY <1>1 DEF Process
<1>8. (c.asks /\ x.asks => asks) /\ (c.asks /\ ~x.tick.late => asks) /\ (c.asks /\ x.tick.late => asks)
  BY DEF asks, Sound, TickSound
<1> HIDE DEF y
<1>9. TickSound(y, d, c)
  BY <1>7, <1>8 DEF Sound, TickSound
<1>10. FlushSound(y, d, c)
  BY <1>5, <1>7, <1>8 DEF Sound, FlushSound
<1>11. Sound(y, d, c)
  BY <1>6, <1>7, <1>9, <1>10 DEF Sound, Typed, UploadSound, ResetSound
<1>12. QED BY <1>4, <1>7, <1>11

LEMMA FlushAcceptedKeeps ==
  ASSUME NEW x, NEW d, NEW c, Sound(x, d, c), x.flush # None, Accepted(x.flush.reply)
  PROVE  /\ Sound(FlushAccepted(x), d, c)
         /\ c.asks => FlushAccepted(x).asks
         /\ FlushAccepted(x).pending = x.pending
<1> DEFINE late == x.tick.late \/ (x.flush.newer /\ ~x.flush.late)
           tick == IF x.tick = None THEN None
                   ELSE [x.tick EXCEPT !.late = late, !.newer = FALSE]
           asks == IF x.flush.late THEN x.asks ELSE x.flush.reply.asks
           y == [x EXCEPT !.tick = tick, !.asks = asks]
<1>1. x \in Process /\ x.flush \in FlushCall /\ x.asks \in BOOLEAN
  BY DEF Sound, Typed, Process
<1>2. x.flush.reply.asks \in BOOLEAN /\ x.flush.late \in BOOLEAN /\ x.flush.newer \in BOOLEAN
  BY <1>1 DEF FlushCall, Refusal, Accepted
<1>3. asks \in BOOLEAN
  BY <1>1, <1>2
<1>4. FlushAccepted(x) = y
  <2>1. tick = Overtaken(x.tick, x.flush)
    BY DEF Overtaken
  <2> HIDE DEF tick
  <2>2. CASE x.flush.late
    <3>1. FlushAccepted(x) = [x EXCEPT !.tick = tick]
      BY <2>1, <2>2 DEF FlushAccepted
    <3>2. [x EXCEPT !.tick = tick] = [x EXCEPT !.tick = tick, !.asks = x.asks]
      BY <1>1 DEF Process
    <3>3. QED BY <2>2, <3>1, <3>2
  <2>3. CASE ~x.flush.late
    BY <2>1, <2>3 DEF FlushAccepted
  <2>4. QED BY <2>2, <2>3
<1>5. /\ tick \in TickCall \cup {None}
      /\ tick # None => /\ x.tick # None /\ tick.head = x.tick.head /\ tick.kind = x.tick.kind
                        /\ tick.reply = x.tick.reply /\ tick.late = late
  <2>1. x.tick \in TickCall \cup {None}
    BY <1>1 DEF Process
  <2>2. CASE x.tick = None
    BY <2>2
  <2>3. CASE x.tick # None
    <3>1. x.tick \in TickCall
      BY <2>1, <2>3
    <3>2. late \in BOOLEAN
      BY <1>2, <3>1 DEF TickCall
    <3> HIDE DEF late
    <3>3. [x.tick EXCEPT !.late = late, !.newer = FALSE] \in TickCall
      BY <3>1, <3>2, Zenon DEF TickCall
    <3>4. QED BY <2>3, <3>1, <3>3 DEF TickCall
  <2>4. QED BY <2>2, <2>3
<1> HIDE DEF tick, asks
<1>6. y \in Process
  BY <1>1, <1>3, <1>5, Zenon DEF Process
<1>7. /\ y.pending = x.pending /\ y.tick = tick /\ y.flush = x.flush
      /\ y.upload = x.upload /\ y.asks = asks /\ y.awaiting = x.awaiting
      /\ y.clearing = x.clearing /\ y.evidences = x.evidences /\ y.codecs = x.codecs
      /\ y.projection = x.projection
  BY <1>1 DEF Process
<1>8. c.asks => asks
  BY DEF asks, Sound, FlushSound
<1> HIDE DEF y
<1>9. TickSound(y, d, c)
  BY <1>5, <1>7, <1>8 DEF Sound, TickSound
<1>10. FlushSound(y, d, c)
  BY <1>7, <1>8 DEF Sound, FlushSound
<1>11. Sound(y, d, c)
  BY <1>6, <1>7, <1>9, <1>10 DEF Sound, Typed, UploadSound, ResetSound
<1>12. QED BY <1>4, <1>7, <1>8, <1>11

\* The token of a rejected call is dropped; a cleared marker is one that may go.
LEMMA TokenCheckedKeeps ==
  ASSUME NEW x, NEW c, Sound(x, disk, c), NEW call
  PROVE  Sound(TokenChecked(x, call), disk, c) /\ TokenChecked(x, call).pending = x.pending
<1>1. x \in Process
  BY DEF Sound, Typed
<1>2. [x EXCEPT !.token = 0].pending = x.pending
  BY <1>1 DEF Process
<1>3. QED BY <1>2, CallsEnd DEF TokenChecked

\* Nothing but what the control plane has is let go from the files.
Shrinks(d, f, c) == Debt(f) \subseteq Debt(d) /\ Debt(d) \ Debt(f) \subseteq c.received

LEMMA ClearedKeeps ==
  ASSUME NEW x, NEW d, NEW c, Sound(x, d, c), NEW ok \in BOOLEAN,
         NEW f, f = [d EXCEPT !.marker = @ /\ ~(x.clearing /\ ok)]
  PROVE  /\ Sound(Cleared(x, ok), f, c) /\ Shrinks(d, f, c)
         /\ Cleared(x, ok).pending = x.pending
<1> DEFINE m == d.marker /\ ~(x.clearing /\ ok)
           y == [x EXCEPT !.clearing = FALSE]
<1>1. x \in Process /\ d \in Storage
  BY DEF Sound, Typed
<1>2. m \in BOOLEAN
  OBVIOUS
<1>3. f = [d EXCEPT !.marker = m]
  OBVIOUS
<1>4. (m => d.marker) /\ (d.marker /\ ~m => Reset \in c.received /\ ~c.asks)
  BY DEF Sound, ResetSound
<1> HIDE DEF m
<1>5. f \in Storage
  BY <1>1, <1>2, <1>3, Zenon DEF Storage
<1>6. /\ f.codecs = d.codecs /\ f.projection = d.projection /\ f.journal = d.journal
      /\ f.faults = d.faults /\ f.marker = m
  BY <1>1, <1>3 DEF Storage
<1>7. Shrinks(d, f, c) /\ Recorded(f) = Recorded(d)
  BY <1>4, <1>6 DEF Shrinks, Debt, Recorded
<1>8. Sound(x, f, c)
  <2>1. Safe(d, c) \subseteq Safe(f, c)
    BY <1>7 DEF Shrinks, Safe
  <2>2. c.asks => f.marker
    BY <1>4, <1>6 DEF Sound, ResetSound
  <2>3. QED BY <1>5, <1>6, <1>7, <2>1, <2>2, FilesKeep
<1>9. Sound(y, f, c) /\ y.pending = x.pending
  <2>1. y \in Process
    BY <1>1, Zenon DEF Process
  <2>2. /\ y.pending = x.pending /\ y.tick = x.tick /\ y.flush = x.flush
        /\ y.upload = x.upload /\ y.asks = x.asks /\ y.awaiting = x.awaiting
        /\ y.clearing = FALSE /\ y.evidences = x.evidences /\ y.codecs = x.codecs
        /\ y.projection = x.projection
    BY <1>1 DEF Process
  <2> HIDE DEF y
  <2>3. QED BY <1>8, <2>1, <2>2 DEF Sound, Typed, TickSound, FlushSound, UploadSound, ResetSound
<1>10. QED BY <1>7, <1>8, <1>9 DEF Cleared

\* The accepted completion of a recycle, when what is asked is known.
LEMMA ResetSettledKeeps ==
  ASSUME NEW x, NEW d, NEW c, Sound(x, d, c), NEW accepted,
         c.asks => x.asks,
         (\E e \in accepted : e.what = Reset) => Reset \in c.received
  PROVE  Sound(ResetSettled(x, accepted), d, c)
<1> DEFINE y == [x EXCEPT !.awaiting = FALSE, !.clearing = TRUE]
<1>1. x \in Process
  BY DEF Sound, Typed
<1>2. ASSUME Reset \in c.received, ~c.asks PROVE Sound(y, d, c)
  <2>1. y \in Process
    BY <1>1, Zenon DEF Process
  <2>2. /\ y.pending = x.pending /\ y.tick = x.tick /\ y.flush = x.flush
        /\ y.upload = x.upload /\ y.asks = x.asks /\ y.awaiting = FALSE
        /\ y.clearing = TRUE /\ y.evidences = x.evidences /\ y.codecs = x.codecs
        /\ y.projection = x.projection
    BY <1>1 DEF Process
  <2>3. Reset \in Safe(d, c)
    BY <1>2 DEF Safe
  <2> HIDE DEF y
  <2>4. QED BY <1>2, <2>1, <2>2, <2>3 DEF Sound, Typed, TickSound, FlushSound, UploadSound, ResetSound
<1>3. QED BY <1>2, ResetEnsuredKeeps DEF ResetSettled

-----------------------------------------------------------------------------
(* The journal of elapsed windows.                                         *)

LEMMA EvidencesKeep ==
  ASSUME NEW x, NEW d, NEW c, Sound(x, d, c), NEW q \in Seq(Evidences),
         ToSet(q) \subseteq ToSet(Recorded(d)) \cup c.received
  PROVE  /\ Sound([x EXCEPT !.evidences = q], d, c)
         /\ Sound([x EXCEPT !.evidences = q, !.blocked = FALSE], d, c)
         /\ [x EXCEPT !.evidences = q].pending = x.pending
         /\ [x EXCEPT !.evidences = q, !.blocked = FALSE].pending = x.pending
<1>1. x \in Process
  BY DEF Sound, Typed
<1>2. ASSUME NEW y \in {[x EXCEPT !.evidences = q], [x EXCEPT !.evidences = q, !.blocked = FALSE]}
      PROVE  Sound(y, d, c) /\ y.pending = x.pending
  <2>1. y \in Process
    <3>1. /\ [x EXCEPT !.evidences = q] \in Process
          /\ [x EXCEPT !.evidences = q, !.blocked = FALSE] \in Process
      BY <1>1, Zenon DEF Process
    <3>2. QED BY <1>2, <3>1
  <2>2. /\ y.pending = x.pending /\ y.tick = x.tick /\ y.flush = x.flush
        /\ y.upload = x.upload /\ y.asks = x.asks /\ y.awaiting = x.awaiting
        /\ y.clearing = x.clearing /\ y.evidences = q /\ y.codecs = x.codecs
        /\ y.projection = x.projection
    BY <1>1, <1>2 DEF Process
  <2>3. QED BY <2>1, <2>2 DEF Sound, Typed, TickSound, FlushSound, UploadSound, ResetSound
<1>3. QED BY <1>2

LEMMA InspectedKeeps ==
  ASSUME NEW x, NEW d, NEW c, Sound(x, d, c)
  PROVE  Sound(Inspected(x, d), d, c) /\ Inspected(x, d).pending = x.pending
<1>1. x \in Process /\ d \in Storage
  BY DEF Sound, Typed
<1>2. Sound([x EXCEPT !.blocked = TRUE], d, c) /\ [x EXCEPT !.blocked = TRUE].pending = x.pending
  BY <1>1, FlagsKeep DEF Process
<1>3. CASE Status(d) = "valid"
  <2>1. d.journal # None
    BY <1>3 DEF Status
  <2>2. d.journal \in Seq(Evidences) /\ Recorded(d) = d.journal
    BY <1>1, <2>1 DEF Storage, Recorded
  <2>3. QED BY <1>3, <2>2, EvidencesKeep DEF Inspected
<1>4. CASE Status(d) # "valid"
  BY <1>2, <1>4 DEF Inspected
<1>5. QED BY <1>3, <1>4

LEMMA TakenKeeps ==
  ASSUME NEW x, NEW d, NEW c, Sound(x, d, c), NEW outcome
  PROVE  Sound(Taken(x, d, outcome), d, c) /\ Taken(x, d, outcome).pending = x.pending
<1>1. Recorded(d) \in Seq(Evidences)
  BY DEF Sound, Typed, Storage, Recorded
<1>2. QED BY <1>1, EvidencesKeep, InspectedKeeps DEF Taken

\* What the journal's operations make of it.
LEMMA JournalFacts ==
  ASSUME NEW d \in Storage, NEW e \in Evidences
  PROVE  /\ Rotated(d, e) \in Seq(Evidences) \cup {None}
         /\ ToSet(Recorded([d EXCEPT !.journal = Rotated(d, e)])) = ToSet(Recorded(d))
         /\ Without(d, e) \in Seq(Evidences) \cup {None}
         /\ ToSet(Recorded([d EXCEPT !.journal = Without(d, e)])) = ToSet(Recorded(d)) \ {e}
         /\ Appended(d, e) \in Seq(Evidences)
         /\ ToSet(Recorded([d EXCEPT !.journal = Appended(d, e)])) = ToSet(Recorded(d)) \cup {e}
<1> DEFINE q == Recorded(d)
           r == Less(q, {e})
<1>1. q \in Seq(Evidences) /\ d.journal \in Seq(Evidences) \cup {None}
  BY DEF Storage, Recorded
<1>2. \A j : Recorded([d EXCEPT !.journal = j]) = IF j = None THEN <<>> ELSE j
  <2>1. \A j : [d EXCEPT !.journal = j].journal = j
    BY DEF Storage
  <2>2. QED BY <2>1 DEF Recorded
<1>3. \A j \in Seq(Evidences) : j # None
  BY KindAssumption
<1>4. r \in Seq(Evidences) /\ ToSet(r) = ToSet(q) \ {e}
  BY <1>1, LessFacts
<1>5. \A j \in Seq(Evidences) :
        Append(j, e) \in Seq(Evidences) /\ ToSet(Append(j, e)) = ToSet(j) \cup {e}
  <2>1. SUFFICES ASSUME NEW j \in Seq(Evidences)
                 PROVE  Append(j, e) \in Seq(Evidences) /\ ToSet(Append(j, e)) = ToSet(j) \cup {e}
    OBVIOUS
  <2> DEFINE k == Append(j, e)
  <2>2. k \in Seq(Evidences) /\ Len(k) = Len(j) + 1 /\ DOMAIN j = 1 .. Len(j) /\ Len(j) \in Nat
        /\ (\A i \in 1 .. Len(j) : k[i] = j[i]) /\ k[Len(j) + 1] = e
    BY AppendProperties
  <2>3. DOMAIN k = 1 .. Len(j) + 1
    BY <2>2
  <2> HIDE DEF k
  <2>4. ToSet(k) = ToSet(j) \cup {e}
    BY <2>2, <2>3 DEF ToSet
  <2>5. QED BY <2>2, <2>4 DEF k
<1>6. ToSet(<<>>) = {}
  BY DEF ToSet
<1>7. Recorded([d EXCEPT !.journal = d.journal]) = q
  BY <1>2 DEF Recorded
<1> HIDE DEF q, r
<1>8. /\ Rotated(d, e) \in Seq(Evidences) \cup {None}
      /\ ToSet(Recorded([d EXCEPT !.journal = Rotated(d, e)])) = ToSet(q)
  <2>1. CASE e \notin ToSet(q)
    BY <1>1, <1>7, <2>1 DEF Rotated, q
  <2>2. CASE e \in ToSet(q)
    <3>1. Rotated(d, e) = Append(r, e)
      BY <2>2 DEF Rotated, q, r
    <3>2. Append(r, e) \in Seq(Evidences) /\ ToSet(Append(r, e)) = ToSet(q)
      BY <1>4, <1>5, <2>2
    <3>3. Append(r, e) # None
      BY <1>3, <3>2
    <3>4. QED BY <1>2, <3>1, <3>2, <3>3
  <2>3. QED BY <2>1, <2>2
<1>9. /\ Without(d, e) \in Seq(Evidences) \cup {None}
      /\ ToSet(Recorded([d EXCEPT !.journal = Without(d, e)])) = ToSet(q) \ {e}
  <2>1. CASE e \notin ToSet(q)
    BY <1>1, <1>7, <2>1 DEF Without, q
  <2>2. CASE e \in ToSet(q)
    <3>1. Without(d, e) = IF r = <<>> THEN None ELSE r
      BY <2>2 DEF Without, q, r
    <3>2. QED BY <1>2, <1>3, <1>4, <1>6, <3>1
  <2>3. QED BY <2>1, <2>2
<1>10. /\ Appended(d, e) \in Seq(Evidences)
       /\ ToSet(Recorded([d EXCEPT !.journal = Appended(d, e)])) = ToSet(q) \cup {e}
  <2>1. CASE e \in ToSet(q)
    <3>1. Appended(d, e) = q
      BY <2>1 DEF Appended, q
    <3>2. QED BY <1>1, <1>2, <1>3, <2>1, <3>1
  <2>2. CASE e \notin ToSet(q)
    <3>1. Appended(d, e) = Append(q, e)
      BY <2>2 DEF Appended, q
    <3>2. QED BY <1>1, <1>2, <1>3, <1>5, <3>1
  <2>3. QED BY <2>1, <2>2
<1>11. QED BY <1>8, <1>9, <1>10 DEF q

\* A new journal.
LEMMA JournalKeeps ==
  ASSUME NEW x, NEW d, NEW c, Sound(x, d, c), NEW j \in Seq(Evidences) \cup {None},
         NEW f, f = [d EXCEPT !.journal = j],
         ToSet(Recorded(d)) \subseteq ToSet(Recorded(f)) \cup c.received
  PROVE  /\ Sound(x, f, c) /\ f.marker = d.marker /\ f.codecs = d.codecs
         /\ f.faults = d.faults /\ f.spoilt = d.spoilt
<1>1. d \in Storage
  BY DEF Sound, Typed
<1>2. f \in Storage
  BY <1>1, Zenon DEF Storage
<1>3. /\ f.codecs = d.codecs /\ f.projection = d.projection
      /\ f.faults = d.faults /\ f.marker = d.marker /\ f.spoilt = d.spoilt
  BY <1>1 DEF Storage
<1>4. Safe(d, c) \subseteq Safe(f, c)
  BY <1>3 DEF Safe, Debt
<1>5. c.asks => f.marker
  BY <1>3 DEF Sound, ResetSound
<1>6. QED BY <1>2, <1>3, <1>4, <1>5, FilesKeep

\* Only acknowledged evidence leaves the journal.
LEMMA EvidenceAnsweredKeeps ==
  ASSUME NEW x, NEW c, Sound(x, disk, c), x.tick # None, Accepted(x.tick.reply),
         NEW cutoff, NEW outcome
  PROVE  LET r == EvidenceAnswered(x, cutoff, outcome) IN
         Sound(r[1], r[2], c) /\ Shrinks(disk, r[2], c) /\ r[1].pending = x.pending
<1> DEFINE e == x.tick.head
           acked == x.tick.reply.ack = e
           q == IF acked THEN Without(disk, e) ELSE Rotated(disk, e)
           wrote == IF q = disk.journal THEN "ok" ELSE outcome
           f == Written(disk, q, wrote)
           y == IF acked THEN [x EXCEPT !.durable = TRUE] ELSE x
           r == EvidenceAnswered(x, cutoff, outcome)
<1>1. x \in Process /\ disk \in Storage /\ x.tick \in TickCall
  BY DEF Sound, Typed, Process
<1>2. Shrinks(disk, disk, c)
  BY DEF Shrinks
<1>3. CASE e = None \/ (acked /\ ~cutoff)
  <2>1. r = <<x, disk>>
    BY <1>3 DEF EvidenceAnswered
  <2>2. QED BY <1>2, <2>1
<1>4. CASE ~(e = None \/ (acked /\ ~cutoff)) /\ disk.spoilt
  <2>1. r = <<Inspected(x, disk), disk>>
    BY <1>4 DEF EvidenceAnswered
  <2>2. QED BY <1>2, <2>1, InspectedKeeps
<1>5. CASE ~(e = None \/ (acked /\ ~cutoff)) /\ ~disk.spoilt
  <2>1. r = <<Taken(y, f, wrote), f>>
    BY <1>5 DEF EvidenceAnswered
  <2>2. e \in Evidences
    BY <1>1, <1>5 DEF TickCall
  <2>3. acked => e \in c.received
    BY <1>5 DEF Sound, TickSound
  <2>4. q \in Seq(Evidences) \cup {None}
    BY <1>1, <2>2, JournalFacts
  <2>5. /\ ToSet(Recorded([disk EXCEPT !.journal = q])) \subseteq ToSet(Recorded(disk))
        /\ ToSet(Recorded(disk)) \subseteq ToSet(Recorded([disk EXCEPT !.journal = q])) \cup c.received
    <3>1. CASE acked
      <4>1. q = Without(disk, e)
        BY <3>1
      <4>2. ToSet(Recorded([disk EXCEPT !.journal = Without(disk, e)])) = ToSet(Recorded(disk)) \ {e}
        BY <1>1, <2>2, JournalFacts
      <4> HIDE DEF q, acked
      <4>3. QED BY <2>3, <3>1, <4>1, <4>2
    <3>2. CASE ~acked
      <4>1. q = Rotated(disk, e)
        BY <3>2
      <4>2. ToSet(Recorded([disk EXCEPT !.journal = Rotated(disk, e)])) = ToSet(Recorded(disk))
        BY <1>1, <2>2, JournalFacts
      <4> HIDE DEF q, acked
      <4>3. QED BY <4>1, <4>2
    <3>3. QED BY <3>1, <3>2
  <2>6. Sound(y, disk, c) /\ y.pending = x.pending
    BY <1>1, FlagsKeep DEF Process
  <2> HIDE DEF q, y, acked
  <2>7. Sound(y, f, c) /\ Shrinks(disk, f, c)
    <3>1. CASE wrote = "failed"
      BY <1>2, <2>6, <3>1 DEF Written
    <3>2. CASE wrote # "failed"
      <4>1. f = [disk EXCEPT !.journal = q]
        BY <3>2 DEF Written
      <4> HIDE DEF f
      <4>2. Sound(y, f, c) /\ f.marker = disk.marker /\ f.codecs = disk.codecs
            /\ f.faults = disk.faults
        BY <2>4, <2>5, <2>6, <4>1, JournalKeeps
      <4>3. Shrinks(disk, f, c)
        BY <2>5, <4>1, <4>2 DEF Shrinks, Debt
      <4>4. QED BY <4>2, <4>3
    <3>3. QED BY <3>1, <3>2
  <2> HIDE DEF f, wrote
  <2>8. Sound(Taken(y, f, wrote), f, c) /\ Taken(y, f, wrote).pending = y.pending
    BY <2>7, TakenKeeps
  <2> HIDE DEF r
  <2>9. r[1] = Taken(y, f, wrote) /\ r[2] = f
    BY <2>1
  <2>10. QED BY <2>6, <2>7, <2>8, <2>9 DEF r
<1>6. QED BY <1>3, <1>4, <1>5

-----------------------------------------------------------------------------
(* The steps.  Each keeps the invariant, lets go only what was received,   *)
(* and drops nothing else from the outbox.                                 *)

Flows ==
  Delivery!Next \/ (Owed' = Owed /\ (api.received \cap Durable)' = api.received \cap Durable)

Goes == Inv' /\ Flows /\ Accounted

\* More is owed, or what is owed stays.
LEMMA OweFlows ==
  ASSUME Inv, Inv', Debt(disk) \subseteq Debt(disk'), api'.received = api.received
  PROVE  Flows
<1>1. Debt(disk') \subseteq Durable
  BY DEF Inv, Sound, Typed, Storage, Debt, Durable, Recorded, ToSet
<1>2. QED BY <1>1 DEF Flows, Owed, Delivery!Next, Delivery!Owe

\* What the control plane has is let go.
LEMMA LetGoFlows ==
  ASSUME Shrinks(disk, disk', api), api'.received = api.received, Inv
  PROVE  Flows
<1>1. Debt(disk) \subseteq Durable
  BY DEF Inv, Sound, Typed, Storage, Debt, Durable, Recorded, ToSet
<1>2. QED BY <1>1 DEF Flows, Owed, Shrinks, Delivery!Next, Delivery!Deliver

\* The control plane receives what is owed, or has been received.
LEMMA ReceiveFlows ==
  ASSUME Debt(disk') \subseteq Debt(disk), Debt(disk) \ Debt(disk') \subseteq api'.received,
         api.received \subseteq api'.received,
         api'.received \cap Durable \subseteq Safe(disk, api), Inv
  PROVE  Flows
<1>1. Debt(disk) \subseteq Durable
  BY DEF Inv, Sound, Typed, Storage, Debt, Durable, Recorded, ToSet
<1>2. QED BY <1>1 DEF Flows, Owed, Safe, Delivery!Next, Delivery!Deliver

LEMMA SamePending ==
  ASSUME s'.pending = s.pending
  PROVE  Accounted
BY DEF Accounted, Held

\* A new event makes room at the most for itself.
LEMMA QueuedAccounted ==
  ASSUME NEW x \in Process, Outbox(x.pending), x.pending = s.pending,
         NEW what \in Events \cup {Reset}, s'.pending = Queued(x, what).pending
  PROVE  Accounted
<1>1. PICK q :
        /\ Queued(x, what) = [x EXCEPT !.pending = q] /\ q # <<>>
        /\ \A e \in ToSet(x.pending) \ ToSet(q) :
             Len(x.pending) = MaxPending /\ e = x.pending[1]
  BY QueuedFacts
<1>2. s'.pending = q
  BY <1>1 DEF Process
<1>3. ASSUME NEW v \in Held(s), v \notin Held(s')
      PROVE  Len(s.pending) = MaxPending /\ s.pending[1].what = v /\ s'.pending # <<>>
  <2>1. PICK e \in ToSet(s.pending) : e.what = v
    BY <1>3 DEF Held
  <2>2. e \notin ToSet(q)
    BY <1>2, <1>3, <2>1 DEF Held
  <2>3. QED BY <1>1, <1>2, <2>1, <2>2
<1>4. QED BY <1>3 DEF Accounted

LEMMA OccurGoes ==
  ASSUME Inv, Occur
  PROVE  Goes
<1>1. PICK e \in todo \cap Events :
        s' = IF e \in Qualities THEN QualityQueued(s, e) ELSE Queued(s, e)
  BY DEF Occur
<1>2. UNCHANGED <<disk, api>> /\ s \in Process /\ Outbox(s.pending)
  BY DEF Occur, Inv, Sound, Typed
<1>3. e # Reset
  BY <1>1, KindAssumption DEF Durable
<1>4. Sound(s', disk, api)
  BY <1>1, <1>3, QualityKeeps, QueuedKeeps DEF Inv
<1>5. Inv' /\ Flows
  BY <1>2, <1>4 DEF Inv, Flows, Owed
<1>6. Accounted
  <2>1. CASE e \notin Qualities
    BY <1>1, <1>2, <2>1, QueuedAccounted
  <2>2. CASE e \in Qualities
    <3> DEFINE out == {v \in ToSet(s.pending) : v.what \in Qualities}
               q == Less(s.pending, out)
               y == [s EXCEPT !.pending = q]
    <3>1. ToSet(q) = ToSet(s.pending) \ out /\ q \in Seq(Event) /\ Len(q) <= Len(s.pending)
          /\ (IsInjective(s.pending) => IsInjective(q))
      BY <1>2, LessFacts DEF Outbox
    <3>2. QualityQueued(s, e) = IF Len(q) >= MaxPending - 1 THEN y ELSE Queued(y, e)
      <4>1. y.pending = q
        BY <1>2 DEF Process
      <4>2. y = [s EXCEPT !.pending = Less(@, {v \in ToSet(@) : v.what \in Qualities})]
        OBVIOUS
      <4> HIDE DEF y, q
      <4>3. QED BY <4>1, <4>2 DEF QualityQueued
    <3>3. \A v \in ToSet(s.pending) \ ToSet(q) : v.what \in Qualities
      <4> HIDE DEF q
      <4>1. QED BY <3>1
    <3>4. y \in Process /\ y.pending = q
      <4> HIDE DEF q
      <4>1. y \in Process
        BY <1>2, <3>1, Zenon DEF Process
      <4>2. QED BY <1>2, <4>1 DEF Process
    <3>5. Outbox(q)
      <4> HIDE DEF q
      <4>1. Len(q) <= MaxPending
        BY <1>2, <3>1, BoundAssumption DEF Outbox
      <4>2. QED BY <1>2, <3>1, <4>1 DEF Outbox
    <3> HIDE DEF q, y, out
    <3>6. CASE Len(q) >= MaxPending - 1
      <4>1. s'.pending = q
        BY <1>1, <2>2, <3>2, <3>4, <3>6
      <4>2. QED BY <3>3, <4>1 DEF Accounted, Held
    <3>7. CASE ~(Len(q) >= MaxPending - 1)
      <4>1. s' = Queued(y, e)
        BY <1>1, <2>2, <3>2, <3>7
      <4>2. PICK r :
              /\ Queued(y, e) = [y EXCEPT !.pending = r] /\ r # <<>>
              /\ \A v \in ToSet(q) \ ToSet(r) : Len(q) = MaxPending
        BY <1>1, <3>4, <3>5, QueuedFacts
      <4>3. s'.pending = r
        BY <3>4, <4>1, <4>2 DEF Process
      <4>4. ToSet(q) \subseteq ToSet(r)
        BY <3>1, <3>7, <4>2, BoundAssumption
      <4>5. QED BY <3>3, <4>3, <4>4 DEF Accounted, Held
    <3>8. QED BY <3>6, <3>7
  <2>3. QED BY <2>1, <2>2
<1>7. QED BY <1>5, <1>6 DEF Goes

LEMMA CompletedGoes ==
  ASSUME Inv, Completed
  PROVE  Goes
<1> DEFINE y == [s EXCEPT !.awaiting = TRUE]
<1>1. /\ disk.marker /\ s' = Queued(y, Reset) /\ UNCHANGED <<disk, api>>
      /\ s \in Process /\ Outbox(s.pending)
  BY DEF Completed, Inv, Sound, Typed
<1>2. Reset \in Safe(disk, api)
  BY <1>1 DEF Safe, Debt
<1>3. y \in Process
  BY <1>1, Zenon DEF Process
<1>4. /\ y.pending = s.pending /\ y.tick = s.tick /\ y.flush = s.flush
      /\ y.upload = s.upload /\ y.asks = s.asks /\ y.awaiting = TRUE
      /\ y.clearing = s.clearing /\ y.evidences = s.evidences /\ y.codecs = s.codecs
      /\ y.projection = s.projection
  BY <1>1 DEF Process
<1> HIDE DEF y
<1>5. Sound(y, disk, api)
  BY <1>2, <1>3, <1>4 DEF Inv, Sound, Typed, TickSound, FlushSound, UploadSound, ResetSound
<1>6. Sound(s', disk, api)
  BY <1>1, <1>2, <1>5, QueuedKeeps
<1>7. Accounted
  BY <1>1, <1>3, <1>4, QueuedAccounted
<1>8. QED BY <1>1, <1>6, <1>7 DEF Goes, Inv, Flows, Owed

LEMMA ElapseGoes ==
  ASSUME Inv, Elapse
  PROVE  Goes
<1>1. PICK e \in todo \cap Evidences, outcome \in Writes :
        LET y == IF s.blocked THEN Inspected(s, disk) ELSE s
            d == Written(disk, Appended(disk, e), outcome)
        IN IF disk.spoilt \/ y.blocked
           THEN s' = Inspected(s, disk) /\ UNCHANGED <<disk, todo>>
           ELSE disk' = d /\ s' = EvidenceRecorded(y, d, outcome)
  BY DEF Elapse
<1>2. api' = api
  BY DEF Elapse
<1> DEFINE y == IF s.blocked THEN Inspected(s, disk) ELSE s
           d == Written(disk, Appended(disk, e), outcome)
<1>3. Sound(y, disk, api) /\ y.pending = s.pending /\ disk \in Storage
  BY InspectedKeeps DEF Inv, Sound, Typed
<1>4. CASE disk.spoilt \/ y.blocked
  <2>1. s' = Inspected(s, disk) /\ disk' = disk
    BY <1>1, <1>4
  <2>2. Sound(s', disk, api) /\ s'.pending = s.pending
    BY <2>1, InspectedKeeps DEF Inv
  <2>3. QED BY <1>2, <2>1, <2>2, SamePending DEF Goes, Inv, Flows, Owed
<1>5. CASE ~(disk.spoilt \/ y.blocked)
  <2>1. disk' = d /\ s' = EvidenceRecorded(y, d, outcome)
    BY <1>1, <1>5
  <2>2. /\ Appended(disk, e) \in Seq(Evidences)
        /\ ToSet(Recorded([disk EXCEPT !.journal = Appended(disk, e)])) =
             ToSet(Recorded(disk)) \cup {e}
    BY <1>3, JournalFacts
  <2> HIDE DEF y
  <2>3. Sound(y, d, api) /\ Debt(disk) \subseteq Debt(d)
    <3>1. CASE outcome = "failed"
      BY <1>3, <3>1 DEF Written
    <3>2. CASE outcome # "failed"
      <4>1. d = [disk EXCEPT !.journal = Appended(disk, e)]
        BY <3>2 DEF Written
      <4> HIDE DEF d
      <4>2. ToSet(Recorded(disk)) \subseteq ToSet(Recorded(d))
        BY <2>2, <4>1
      <4>3. Sound(y, d, api) /\ d.marker = disk.marker /\ d.codecs = disk.codecs
            /\ d.faults = disk.faults
        BY <1>3, <2>2, <4>1, <4>2, JournalKeeps
      <4>4. QED BY <4>2, <4>3 DEF Debt
    <3>3. QED BY <3>1, <3>2
  <2> HIDE DEF d
  <2> DEFINE z == Taken(y, d, outcome)
  <2>4. Sound(z, d, api) /\ z.pending = y.pending
    BY <2>3, TakenKeeps
  <2>5. s' = IF outcome = "ok" THEN [z EXCEPT !.durable = FALSE, !.blocked = FALSE] ELSE z
    BY <2>1 DEF EvidenceRecorded
  <2> HIDE DEF z
  <2>6. Sound(s', d, api)
    BY <2>4, <2>5, FlagsKeep
  <2>7. s'.pending = s.pending
    BY <1>3, <2>4, <2>5 DEF Sound, Typed, Process
  <2>8. Inv'
    BY <1>2, <2>1, <2>6 DEF Inv
  <2>9. Flows
    BY <1>2, <2>1, <2>3, <2>8, OweFlows
  <2>10. QED BY <2>7, <2>8, <2>9, SamePending DEF Goes
<1>6. QED BY <1>4, <1>5

LEMMA NegotiateGoes ==
  ASSUME Inv, Negotiate
  PROVE  Goes
<1>1. PICK v \in todo \cap Codecs, ok \in BOOLEAN :
        /\ s' = IF ok THEN [s EXCEPT !.codecs = Append(@, v)] ELSE [s EXCEPT !.failed = TRUE]
        /\ disk' = IF ok THEN [disk EXCEPT !.codecs = Append(@, v)] ELSE disk
        /\ UNCHANGED api
  BY DEF Negotiate
<1>2. s \in Process /\ disk \in Storage /\ s.codecs = disk.codecs
  BY DEF Inv, Sound, Typed
<1>3. CASE ok
  <2> DEFINE q == Append(s.codecs, v)
             y == [s EXCEPT !.codecs = q]
             f == [disk EXCEPT !.codecs = q]
  <2>1. q \in Seq(Codecs) /\ ToSet(disk.codecs) \subseteq ToSet(q)
    <3>1. s.codecs \in Seq(Codecs)
      BY <1>2 DEF Process
    <3>2. /\ q \in Seq(Codecs) /\ Len(q) = Len(s.codecs) + 1
          /\ \A i \in 1 .. Len(s.codecs) : q[i] = s.codecs[i]
      BY <3>1, AppendProperties
    <3>3. DOMAIN s.codecs = 1 .. Len(s.codecs) /\ DOMAIN q = 1 .. Len(q)
          /\ Len(s.codecs) \in Nat
      BY <3>1, <3>2
    <3> HIDE DEF q
    <3>4. \A i \in DOMAIN s.codecs : i \in DOMAIN q /\ q[i] = s.codecs[i]
      BY <3>2, <3>3
    <3>5. QED BY <1>2, <3>2, <3>4 DEF ToSet
  <2>2. s' = y /\ disk' = f
    BY <1>1, <1>2, <1>3
  <2> HIDE DEF q
  <2>3. y \in Process /\ f \in Storage
    BY <1>2, <2>1, Zenon DEF Process, Storage
  <2>4. /\ y.pending = s.pending /\ y.tick = s.tick /\ y.flush = s.flush
        /\ y.upload = s.upload /\ y.asks = s.asks /\ y.awaiting = s.awaiting
        /\ y.clearing = s.clearing /\ y.evidences = s.evidences /\ y.codecs = q
        /\ y.projection = s.projection
    BY <1>2 DEF Process
  <2>5. /\ f.codecs = q /\ f.journal = disk.journal /\ f.faults = disk.faults
        /\ f.marker = disk.marker /\ f.projection = disk.projection
    BY <1>2 DEF Storage
  <2> HIDE DEF y, f
  <2>6. Debt(disk) \subseteq Debt(f) /\ Recorded(f) = Recorded(disk)
    BY <2>1, <2>5 DEF Debt, Recorded
  <2>7. Safe(disk, api) \subseteq Safe(f, api)
    BY <2>6 DEF Safe
  <2>8. Sound(y, f, api)
    BY <2>1, <2>3, <2>4, <2>5, <2>6, <2>7 DEF Inv, Sound, Typed, TickSound, FlushSound, UploadSound, ResetSound
  <2>9. Inv'
    BY <1>1, <2>2, <2>8 DEF Inv
  <2>10. Flows
    BY <1>1, <2>2, <2>6, <2>9, OweFlows
  <2>11. QED BY <2>2, <2>4, <2>9, <2>10, SamePending DEF Goes
<1>4. CASE ~ok
  <2> DEFINE y == [s EXCEPT !.failed = TRUE]
  <2>1. s' = y /\ disk' = disk
    BY <1>1, <1>4
  <2>2. y \in Process
    BY <1>2, Zenon DEF Process
  <2>3. /\ y.pending = s.pending /\ y.tick = s.tick /\ y.flush = s.flush
        /\ y.upload = s.upload /\ y.asks = s.asks /\ y.awaiting = s.awaiting
        /\ y.clearing = s.clearing /\ y.evidences = s.evidences /\ y.codecs = s.codecs
        /\ y.projection = s.projection
    BY <1>2 DEF Process
  <2> HIDE DEF y
  <2>4. Sound(y, disk, api)
    BY <2>2, <2>3 DEF Inv, Sound, Typed, TickSound, FlushSound, UploadSound, ResetSound
  <2>5. QED BY <1>1, <2>1, <2>3, <2>4, SamePending DEF Goes, Inv, Flows, Owed
<1>5. QED BY <1>3, <1>4

LEMMA ReportGoes ==
  ASSUME Inv, Report
  PROVE  Goes
<1>1. PICK v \in todo \cap Faults : disk' = [disk EXCEPT !.faults = @ \cup {v}]
  BY DEF Report
<1>2. UNCHANGED <<s, api>> /\ disk \in Storage
  BY DEF Report, Inv, Sound, Typed
<1> DEFINE new == disk.faults \cup {v}
           f == [disk EXCEPT !.faults = new]
<1>3. new \in SUBSET Faults /\ disk.faults \subseteq new
  BY <1>2 DEF Storage
<1>4. disk' = f
  BY <1>1
<1> HIDE DEF new
<1>5. f \in Storage
  BY <1>2, <1>3, Zenon DEF Storage
<1>6. /\ f.codecs = disk.codecs /\ f.journal = disk.journal /\ f.faults = new
      /\ f.marker = disk.marker /\ f.projection = disk.projection
  BY <1>2 DEF Storage
<1> HIDE DEF f
<1>7. Debt(disk) \subseteq Debt(f) /\ Recorded(f) = Recorded(disk)
  BY <1>3, <1>6 DEF Debt, Recorded
<1>8. Safe(disk, api) \subseteq Safe(f, api) /\ (api.asks => f.marker)
  BY <1>6, <1>7 DEF Safe, Inv, Sound, ResetSound
<1>9. Sound(s, f, api)
  BY <1>5, <1>6, <1>7, <1>8, FilesKeep DEF Inv
<1>10. Inv'
  BY <1>2, <1>4, <1>9 DEF Inv
<1>11. QED BY <1>2, <1>4, <1>7, <1>10, OweFlows, SamePending DEF Goes

\* The control plane assigns a customer, withdraws a token it was told of, or
\* revokes the agent's.
LEMMA ControlGoes ==
  ASSUME Inv, Assign \/ Withdraw \/ Revoke
  PROVE  Goes
<1>1. UNCHANGED <<s, disk>> /\ api \in ControlPlane
  BY DEF Assign, Withdraw, Revoke, Inv, Sound, Typed
<1>2. /\ api' \in ControlPlane /\ api'.received = api.received /\ (api'.asks => api.asks)
  <2>1. CASE Assign
    <3>1. PICK v \in Customers \cup {"unassigned"} : api' = [api EXCEPT !.assigned = v]
      BY <2>1 DEF Assign
    <3>2. QED BY <1>1, <3>1 DEF ControlPlane
  <2>2. CASE Withdraw
    BY <1>1, <2>2 DEF Withdraw, ControlPlane
  <2>3. CASE Revoke
    BY <1>1, <2>3 DEF Revoke, ControlPlane
  <2>4. QED BY <2>1, <2>2, <2>3
<1>3. Sound(s, disk, api')
  BY <1>2, ControlKeeps DEF Inv
<1>4. QED BY <1>1, <1>2, <1>3, SamePending DEF Goes, Inv, Flows, Owed

LEMMA SpoilGoes ==
  ASSUME Inv, Spoil \/ Restore
  PROVE  Goes
<1>1. PICK v \in BOOLEAN : disk' = [disk EXCEPT !.spoilt = v]
  BY DEF Spoil, Restore
<1>2. UNCHANGED <<s, api>> /\ disk \in Storage
  BY DEF Spoil, Restore, Inv, Sound, Typed
<1>3. disk' \in Storage
  BY <1>1, <1>2, Zenon DEF Storage
<1>4. /\ disk'.codecs = disk.codecs /\ disk'.journal = disk.journal
      /\ disk'.faults = disk.faults
      /\ disk'.marker = disk.marker /\ disk'.projection = disk.projection
  BY <1>1, <1>2 DEF Storage
<1>5. Debt(disk') = Debt(disk) /\ Recorded(disk') = Recorded(disk)
  BY <1>4 DEF Debt, Recorded
<1>6. Safe(disk, api) \subseteq Safe(disk', api) /\ (api.asks => disk'.marker)
  BY <1>4, <1>5 DEF Safe, Inv, Sound, ResetSound
<1>7. Sound(s, disk', api)
  BY <1>3, <1>4, <1>5, <1>6, FilesKeep DEF Inv
<1>8. Inv'
  BY <1>2, <1>7 DEF Inv
<1>9. QED BY <1>2, <1>5, <1>8, OweFlows, SamePending DEF Goes

\* A process that starts from the files claims only what is in them.
LEMMA StartedSound ==
  ASSUME NEW d \in Storage, NEW c \in ControlPlane, NEW cleared \in BOOLEAN,
         c.asks => d.marker, cleared => d.projection = "unassigned"
  PROVE  Sound(Started(d, cleared), d, c)
<1> DEFINE evidences == IF d.spoilt THEN <<>> ELSE Recorded(d)
           projection == IF cleared THEN "unassigned" ELSE "unwritten"
           y == [Fresh EXCEPT !.evidences = evidences, !.codecs = d.codecs,
                              !.blocked = d.spoilt, !.projection = projection,
                              !.persisted = cleared]
<1>1. Started(d, cleared) = y
  BY DEF Started, Fresh
<1>2. /\ evidences \in Seq(Evidences) /\ ToSet(evidences) \subseteq ToSet(Recorded(d))
      /\ projection \in Statuses
      /\ d.codecs \in Seq(Codecs) /\ d.spoilt \in BOOLEAN
  BY DEF Storage, Recorded, ToSet, Statuses
<1> HIDE DEF evidences, projection
<1>3. Fresh \in Process
  <2>1. "unassigned" \in Statuses \cup Customers
    BY DEF Statuses
  <2>2. QED BY <2>1 DEF Process, Fresh
<1>4. y \in Process
  BY <1>2, <1>3, Zenon DEF Process
<1>5. /\ y.pending = <<>> /\ y.tick = None /\ y.flush = None /\ y.upload = None
      /\ ~y.asks /\ ~y.awaiting /\ ~y.clearing
      /\ y.evidences = evidences /\ y.codecs = d.codecs /\ y.projection = projection
  BY DEF Fresh
<1> HIDE DEF y
<1>6. Outbox(<<>>) /\ ToSet(<<>>) = {}
  BY BoundAssumption DEF Outbox, ToSet, IsInjective
<1>7. projection \in Customers => d.projection = projection
  BY <1>2, CustomerAssumption
<1>8. Sound(y, d, c)
  BY <1>2, <1>4, <1>5, <1>6, <1>7 DEF Sound, Typed, TickSound, FlushSound, UploadSound, ResetSound
<1>9. QED BY <1>1, <1>8

LEMMA CrashGoes ==
  ASSUME Inv, Crash
  PROVE  Goes
<1>1. PICK cleared \in BOOLEAN :
        /\ s' = Started(disk, cleared)
        /\ disk' = IF cleared THEN [disk EXCEPT !.projection = "unassigned"] ELSE disk
  BY DEF Crash
<1>2. api' = api /\ disk \in Storage /\ api \in ControlPlane /\ (api.asks => disk.marker)
  BY DEF Crash, Inv, Sound, Typed, ResetSound
<1>3. "unassigned" \in Statuses \cup Customers
  BY DEF Statuses
<1>4. disk' \in Storage
  <2>1. [disk EXCEPT !.projection = "unassigned"] \in Storage
    BY <1>2, <1>3, Zenon DEF Storage
  <2>2. QED BY <1>1, <1>2, <2>1
<1>5. /\ disk'.codecs = disk.codecs /\ disk'.journal = disk.journal
      /\ disk'.faults = disk.faults /\ disk'.spoilt = disk.spoilt
      /\ disk'.marker = disk.marker /\ (cleared => disk'.projection = "unassigned")
  BY <1>1, <1>2 DEF Storage
<1>6. Started(disk', cleared) = Started(disk, cleared)
  BY <1>5 DEF Started, Recorded
<1>7. Sound(s', disk', api)
  BY <1>1, <1>2, <1>4, <1>5, <1>6, StartedSound
<1>8. Debt(disk') = Debt(disk)
  BY <1>5 DEF Debt, Recorded
<1>9. Accounted
  BY <1>1 DEF Accounted
<1>10. Inv'
  BY <1>2, <1>7 DEF Inv
<1>11. QED BY <1>2, <1>8, <1>9, <1>10, OweFlows DEF Goes

LEMMA TickGoes ==
  ASSUME Inv, Tick
  PROVE  Goes
<1> DEFINE x == Inspected(s, disk)
<1>1. Sound(x, disk, api) /\ x.pending = s.pending
  BY InspectedKeeps DEF Inv
<1> HIDE DEF x
<1>2. UNCHANGED <<disk, api>> /\ x \in Process
  BY <1>1 DEF Tick, Sound, Typed
<1>3. s' = x \/ s' = Sent([x EXCEPT !.durable = x.evidences # <<>>])
  BY DEF Tick, x
<1> DEFINE v == x.evidences # <<>>
           y == [x EXCEPT !.durable = v]
<1>4. v \in BOOLEAN
  OBVIOUS
<1> HIDE DEF v
<1>5. Sound(y, disk, api) /\ y.pending = x.pending
  BY <1>1, <1>2, <1>4, FlagsKeep DEF Process
<1> HIDE DEF y
<1>6. Sound(Sent(y), disk, api) /\ Sent(y).pending = y.pending
  BY <1>5, SentKeeps
<1>7. s' = x \/ s' = Sent(y)
  BY <1>3 DEF y, v
<1>8. QED BY <1>1, <1>2, <1>5, <1>6, <1>7, SamePending DEF Goes, Inv, Flows, Owed

\* Nothing is lost from an outbox but the oldest when it was full.
Pushed(p, q) ==
  \A e \in ToSet(p) \ ToSet(q) : Len(p) = MaxPending /\ e = p[1] /\ q # <<>>

LEMMA PushedAccounted ==
  ASSUME Pushed(s.pending, s'.pending)
  PROVE  Accounted
<1>1. ASSUME NEW v \in Held(s), v \notin Held(s')
      PROVE  Len(s.pending) = MaxPending /\ s.pending[1].what = v /\ s'.pending # <<>>
  <2>1. PICK e \in ToSet(s.pending) : e.what = v
    BY <1>1 DEF Held
  <2>2. e \notin ToSet(s'.pending)
    BY <1>1, <2>1 DEF Held
  <2>3. QED BY <2>1, <2>2 DEF Pushed
<1>2. QED BY <1>1 DEF Accounted

LEMMA ResetPushed ==
  ASSUME NEW x \in Process, Outbox(x.pending)
  PROVE  Pushed(x.pending, ResetEnsured(x).pending)
<1>1. PICK q :
        /\ Queued(x, Reset) = [x EXCEPT !.pending = q] /\ q # <<>>
        /\ \A e \in ToSet(x.pending) \ ToSet(q) :
             Len(x.pending) = MaxPending /\ e = x.pending[1]
  BY QueuedFacts
<1>2. Queued(x, Reset).pending = q
  BY <1>1 DEF Process
<1>3. ResetEnsured(x) \in {x, Queued(x, Reset)}
  BY DEF ResetEnsured
<1>4. QED BY <1>1, <1>2, <1>3 DEF Pushed

LEMMA BootstrappedGoes ==
  ASSUME Inv, Bootstrapped
  PROVE  Goes
<1> DEFINE n == s.tick.reply.token
           y == [s EXCEPT !.token = n]
           x == TickAccepted(y)
<1>1. /\ s.tick # None /\ s.tick.kind = "bootstrap" /\ s.tick.reply # None /\ api' = api
      /\ s \in Process /\ s.tick \in TickCall
  BY DEF Bootstrapped, Inv, Sound, Typed, Process
<1>2. Accepted(s.tick.reply)
  BY <1>1 DEF Inv, Sound, TickSound, Accepted
<1>3. n \in Nat
  BY <1>1, <1>2 DEF TickCall, Refusal, Accepted
<1>4. PICK cutoff \in BOOLEAN, outcome \in Writes :
        LET r == EvidenceAnswered(x, cutoff, outcome) IN
        s' = Sent([r[1] EXCEPT !.tick = None]) /\ disk' = r[2]
  BY DEF Bootstrapped
<1> HIDE DEF n
<1>5. Sound(y, disk, api) /\ y.tick = s.tick /\ y.pending = s.pending
  BY <1>1, <1>3, CallsEnd DEF Inv, Process
<1> HIDE DEF y
<1>6. Sound(x, disk, api) /\ x.pending = y.pending /\ x.tick = y.tick
  BY <1>1, <1>2, <1>5, TickAcceptedKeeps
<1> HIDE DEF x
<1> DEFINE r == EvidenceAnswered(x, cutoff, outcome)
<1>7. Sound(r[1], r[2], api) /\ Shrinks(disk, r[2], api) /\ r[1].pending = x.pending
  BY <1>1, <1>2, <1>5, <1>6, EvidenceAnsweredKeeps
<1> DEFINE z == [r[1] EXCEPT !.tick = None]
<1>8. s' = Sent(z) /\ disk' = r[2]
  BY <1>4
<1> HIDE DEF r
<1>9. Sound(z, r[2], api) /\ z.pending = r[1].pending
  BY <1>7, CallsEnd DEF Sound, Typed, Process
<1> HIDE DEF z
<1>10. Sound(s', disk', api) /\ s'.pending = s.pending
  BY <1>5, <1>6, <1>7, <1>8, <1>9, SentKeeps
<1>11. Inv'
  BY <1>1, <1>10 DEF Inv
<1>12. QED BY <1>1, <1>7, <1>8, <1>10, <1>11, LetGoFlows, SamePending DEF Goes

\* A rejected call ends; its token is dropped.
LEMMA RefusedGoes ==
  ASSUME Inv, UNCHANGED <<disk, api>>,
         \/ s' = [TokenChecked(s, s.tick) EXCEPT !.tick = None]
         \/ s' = [TokenChecked(s, s.flush) EXCEPT !.flush = None]
  PROVE  Goes
<1>1. PICK x : /\ Sound(x, disk, api) /\ x.pending = s.pending
               /\ s' = [x EXCEPT !.tick = None] \/ s' = [x EXCEPT !.flush = None]
  BY TokenCheckedKeeps DEF Inv
<1>2. Sound(s', disk, api) /\ s'.pending = x.pending
  <2>1. x \in Process
    BY <1>1 DEF Sound, Typed
  <2>2. [x EXCEPT !.tick = None].pending = x.pending /\ [x EXCEPT !.flush = None].pending = x.pending
    BY <2>1 DEF Process
  <2>3. Sound([x EXCEPT !.tick = None], disk, api) /\ Sound([x EXCEPT !.flush = None], disk, api)
    BY <1>1, CallsEnd
  <2>4. CASE s' = [x EXCEPT !.tick = None]
    BY <2>2, <2>3, <2>4
  <2>5. CASE s' = [x EXCEPT !.flush = None]
    BY <2>2, <2>3, <2>5
  <2>6. QED BY <1>1, <2>4, <2>5
<1>3. QED BY <1>1, <1>2, SamePending DEF Goes, Inv, Flows, Owed

LEMMA BeatenGoes ==
  ASSUME Inv, Beaten
  PROVE  Goes
<1>1. /\ s.tick # None /\ s.tick.reply # None /\ api' = api
      /\ s \in Process /\ s.tick \in TickCall
  BY DEF Beaten, Inv, Sound, Typed, Process
<1>2. CASE s.tick.reply.code = "401"
  BY <1>2, RefusedGoes DEF Beaten
<1>3. CASE s.tick.reply.code # "401"
  <2>1. Accepted(s.tick.reply)
    BY <1>1, <1>3 DEF TickCall, Refusal, Accepted
  <2> DEFINE x == TickAccepted(s)
  <2>2. PICK cutoff \in BOOLEAN, clear \in BOOLEAN, outcome \in Writes :
          LET r == EvidenceAnswered(x, cutoff, outcome)
              v == Flushed(ResetEnsured([r[1] EXCEPT !.tick = None]), r[2])
          IN /\ s' = Cleared(v, clear)
             /\ disk' = [r[2] EXCEPT !.marker = @ /\ ~(v.clearing /\ clear)]
    BY <1>3 DEF Beaten
  <2>3. Sound(x, disk, api) /\ x.pending = s.pending /\ x.tick = s.tick
    BY <1>1, <2>1, TickAcceptedKeeps DEF Inv
  <2> HIDE DEF x
  <2> DEFINE r == EvidenceAnswered(x, cutoff, outcome)
             z == [r[1] EXCEPT !.tick = None]
             w == ResetEnsured(z)
             v == Flushed(w, r[2])
  <2>4. Sound(r[1], r[2], api) /\ Shrinks(disk, r[2], api) /\ r[1].pending = x.pending
    BY <1>1, <2>1, <2>3, EvidenceAnsweredKeeps
  <2>5. s' = Cleared(v, clear) /\ disk' = [r[2] EXCEPT !.marker = @ /\ ~(v.clearing /\ clear)]
    BY <2>2
  <2> HIDE DEF r
  <2>6. Sound(z, r[2], api) /\ z.pending = r[1].pending
    BY <2>4, CallsEnd DEF Sound, Typed, Process
  <2> HIDE DEF z
  <2>7. Sound(w, r[2], api) /\ Pushed(z.pending, w.pending)
    BY <2>6, ResetEnsuredKeeps, ResetPushed DEF Sound, Typed
  <2> HIDE DEF w
  <2>8. Sound(v, r[2], api) /\ v.pending = w.pending
    BY <2>7, FlushedKeeps
  <2> HIDE DEF v
  <2>9. Sound(s', disk', api) /\ Shrinks(r[2], disk', api) /\ s'.pending = v.pending
    BY <2>5, <2>8, ClearedKeeps
  <2>10. Pushed(s.pending, s'.pending)
    BY <2>3, <2>4, <2>6, <2>7, <2>8, <2>9
  <2>11. Shrinks(disk, disk', api)
    BY <2>4, <2>9 DEF Shrinks
  <2>12. Inv'
    BY <1>1, <2>9 DEF Inv
  <2>13. QED BY <1>1, <2>10, <2>11, <2>12, LetGoFlows, PushedAccounted DEF Goes
<1>4. QED BY <1>2, <1>3

LEMMA FlushAnsweredGoes ==
  ASSUME Inv, FlushAnswered
  PROVE  Goes
<1>1. /\ s.flush # None /\ s.flush.reply # None /\ api' = api
      /\ s \in Process /\ s.flush \in FlushCall /\ Outbox(s.pending)
      /\ disk \in Storage
  BY DEF FlushAnswered, Inv, Sound, Typed, Process
<1>2. CASE s.flush.reply.code = "401"
  BY <1>2, RefusedGoes DEF FlushAnswered
<1>3. CASE s.flush.reply.code # "401"
  <2> DEFINE n == s.flush.reply.accepted
             accepted == ToSet(SubSeq(s.flush.events, 1, n))
             whats == {e.what : e \in accepted}
             a == Removed(s, accepted)
             b == FlushAccepted(a)
             r == ResetSettled(b, accepted)
             x == [r EXCEPT !.flush = None]
             left1 == disk.faults \ whats
             f == [disk EXCEPT !.faults = left1]
  <2>1. Accepted(s.flush.reply)
    BY <1>1, <1>3 DEF FlushCall, Refusal, Accepted
  <2>2. PICK clear \in BOOLEAN :
          /\ s' = Cleared(x, clear)
          /\ disk' = [disk EXCEPT !.faults = @ \ whats, !.marker = @ /\ ~(x.clearing /\ clear)]
    BY <1>3 DEF FlushAnswered
  <2>3. whats \subseteq api.received
    <3>1. n \in 0 .. Len(s.flush.events) /\ s.flush.events \in Seq(Sendable)
      BY <1>1, <2>1 DEF FlushCall, Refusal, Accepted, Inv, Sound, FlushSound
    <3> DEFINE q == s.flush.events
    <3> HIDE DEF q, n
    <3>2. ToSet(SubSeq(q, 1, n)) = {q[j] : j \in 1 .. n}
      BY <3>1, PrefixFacts DEF q
    <3>3. \A j \in 1 .. n : q[j].what \in api.received
      BY <1>1, <2>1 DEF Inv, Sound, FlushSound, n, q
    <3>4. QED BY <3>2, <3>3 DEF q
  <2>4. (\E e \in accepted : e.what = Reset) => Reset \in api.received
    BY <2>3
  <2> HIDE DEF accepted
  <2> DEFINE q == Less(s.pending, accepted)
  <2>5. Sound(a, disk, api) /\ a.flush = s.flush /\ a.pending = q
    BY <1>1, RemovedKeeps DEF Inv, Removed, Process
  <2> HIDE DEF a, q
  <2>6. Sound(b, disk, api) /\ (api.asks => b.asks) /\ b.pending = a.pending
    BY <1>1, <2>1, <2>5, FlushAcceptedKeeps
  <2> HIDE DEF b
  <2>7. Sound(r, disk, api)
    BY <2>4, <2>6, ResetSettledKeeps
  <2>8. Pushed(b.pending, r.pending)
    <3>1. b \in Process /\ Outbox(b.pending)
      BY <2>6 DEF Sound, Typed
    <3>2. Pushed(b.pending, b.pending)
      BY DEF Pushed
    <3>3. [b EXCEPT !.awaiting = FALSE, !.clearing = TRUE].pending = b.pending
      BY <3>1 DEF Process
    <3>4. QED BY <3>1, <3>2, <3>3, ResetPushed DEF ResetSettled
  <2> HIDE DEF r
  <2>9. Sound(x, disk, api) /\ x.pending = r.pending
    BY <2>7, CallsEnd DEF Sound, Typed, Process
  <2> HIDE DEF x
  <2>10. disk' = [f EXCEPT !.marker = @ /\ ~(x.clearing /\ clear)]
    <3> DEFINE m == disk.marker /\ ~(x.clearing /\ clear)
    <3>1. disk' = [disk EXCEPT !.faults = left1, !.marker = m]
      BY <2>2
    <3>2. f.marker = disk.marker
      BY <1>1 DEF Storage
    <3> HIDE DEF m, left1
    <3>3. [disk EXCEPT !.faults = left1, !.marker = m] = [f EXCEPT !.marker = m]
      BY <1>1 DEF Storage
    <3> HIDE DEF f
    <3>4. QED BY <3>1, <3>2, <3>3 DEF m
  <2> HIDE DEF whats
  <2>11. left1 \in SUBSET Faults /\ left1 \subseteq disk.faults /\ disk.faults \ left1 \subseteq api.received
    BY <1>1, <2>3 DEF Storage
  <2> HIDE DEF left1
  <2>12. f \in Storage
    BY <1>1, <2>11, Zenon DEF Storage
  <2>13. /\ f.codecs = disk.codecs /\ f.journal = disk.journal /\ f.faults = left1
         /\ f.marker = disk.marker /\ f.projection = disk.projection
    BY <1>1 DEF Storage
  <2> HIDE DEF f
  <2>14. Shrinks(disk, f, api) /\ Recorded(f) = Recorded(disk)
    BY <2>11, <2>13 DEF Shrinks, Debt, Recorded
  <2>15. Sound(x, f, api)
    <3>1. Safe(disk, api) \subseteq Safe(f, api) /\ (api.asks => f.marker)
      BY <2>13, <2>14 DEF Shrinks, Safe, Inv, Sound, ResetSound
    <3>2. QED BY <2>9, <2>12, <2>13, <2>14, <3>1, FilesKeep
  <2>16. Sound(s', disk', api) /\ Shrinks(f, disk', api) /\ s'.pending = x.pending
    BY <2>2, <2>10, <2>15, ClearedKeeps
  <2>17. Accounted
    <3>1. /\ ToSet(q) = ToSet(s.pending) \ accepted /\ Len(q) <= Len(s.pending)
          /\ Len(q) = Len(s.pending) => q = s.pending
      BY <1>1, LessFacts DEF Outbox, q
    <3>2. Pushed(q, s'.pending)
      BY <2>5, <2>6, <2>8, <2>9, <2>16
    <3>3. Len(s.pending) <= MaxPending /\ Len(s.pending) \in Nat /\ MaxPending \in Nat
      BY <1>1, BoundAssumption DEF Outbox
    <3>4. SUFFICES ASSUME NEW v \in Held(s), v \notin Held(s'), v \notin api.received
                   PROVE  Len(s.pending) = MaxPending /\ s.pending[1].what = v /\ s'.pending # <<>>
      BY DEF Accounted
    <3>5. PICK e \in ToSet(s.pending) : e.what = v
      BY <3>4 DEF Held
    <3>6. e \notin accepted /\ e \notin ToSet(s'.pending)
      BY <2>3, <3>4, <3>5 DEF Held, whats
    <3>7. Len(q) = MaxPending /\ e = q[1] /\ s'.pending # <<>>
      BY <3>1, <3>2, <3>6 DEF Pushed
    <3>8. q = s.pending
      BY <3>1, <3>3, <3>7
    <3>9. QED BY <3>5, <3>7, <3>8
  <2>18. Shrinks(disk, disk', api)
    BY <2>14, <2>16 DEF Shrinks
  <2>19. Inv'
    BY <1>1, <2>16 DEF Inv
  <2>20. QED BY <1>1, <2>17, <2>18, <2>19, LetGoFlows DEF Goes
<1>4. QED BY <1>2, <1>3

LEMMA UploadGoes ==
  ASSUME Inv, Upload
  PROVE  Goes
<1> DEFINE q == s.codecs
           n == Least(MaxBatch, Len(q))
           call == [token |-> s.token, batch |-> SubSeq(q, 1, n)]
           y == [s EXCEPT !.upload = call]
<1>1. /\ s' = y /\ UNCHANGED <<disk, api>> /\ q # <<>> /\ s \in Process
      /\ q = disk.codecs
  BY DEF Upload, Inv, Sound, Typed
<1>2. q \in Seq(Codecs) /\ s.token \in Nat
  BY <1>1 DEF Process
<1>3. n \in 1 .. Len(q)
  BY <1>1, <1>2, BoundAssumption DEF Least
<1> HIDE DEF q, n
<1>4. /\ SubSeq(q, 1, n) \in Seq(Codecs) /\ Len(SubSeq(q, 1, n)) = n
      /\ ToSet(SubSeq(q, 1, n)) \subseteq ToSet(q)
  <2>1. n \in 0 .. Len(q) /\ \A j \in 1 .. n : j \in DOMAIN q
    BY <1>2, <1>3
  <2>2. /\ SubSeq(q, 1, n) \in Seq(Codecs) /\ Len(SubSeq(q, 1, n)) = n
        /\ ToSet(SubSeq(q, 1, n)) = {q[j] : j \in 1 .. n}
    BY <1>2, <2>1, PrefixFacts
  <2>3. QED BY <2>1, <2>2 DEF ToSet
<1>5. call \in [token : Nat, batch : Seq(Codecs)] /\ call.batch # <<>>
      /\ ToSet(call.batch) \subseteq ToSet(disk.codecs)
  BY <1>1, <1>2, <1>3, <1>4
<1> HIDE DEF call
<1>6. y \in Process
  BY <1>1, <1>5, Zenon DEF Process
<1>7. /\ y.pending = s.pending /\ y.tick = s.tick /\ y.flush = s.flush
      /\ y.upload = call /\ y.asks = s.asks /\ y.awaiting = s.awaiting
      /\ y.clearing = s.clearing /\ y.evidences = s.evidences /\ y.codecs = s.codecs
      /\ y.projection = s.projection
  BY <1>1 DEF Process
<1> HIDE DEF y
<1>8. Sound(y, disk, api)
  BY <1>5, <1>6, <1>7 DEF Inv, Sound, Typed, TickSound, FlushSound, UploadSound, ResetSound
<1>9. QED BY <1>1, <1>7, <1>8, SamePending DEF Goes, Inv, Flows, Owed

LEMMA UploadedGoes ==
  ASSUME Inv, Uploaded
  PROVE  Goes
<1>1. s.upload # None /\ s \in Process /\ disk \in Storage /\ api \in ControlPlane
      /\ s.codecs = disk.codecs
  BY DEF Uploaded, Inv, Sound, Typed
<1>2. CASE ~Valid(s.upload)
  <2> DEFINE x == [s EXCEPT !.token = 0]
             y == [x EXCEPT !.upload = None]
  <2>1. UNCHANGED <<disk, api>> /\ s' = [s EXCEPT !.token = 0, !.upload = None]
    BY <1>2 DEF Uploaded
  <2>2. Sound(x, disk, api) /\ x \in Process
    <3>1. Sound(s, disk, api) /\ 0 \in Nat
      BY DEF Inv
    <3>2. Sound(x, disk, api)
      BY <3>1, CallsEnd
    <3>3. QED BY <3>2 DEF Sound, Typed
  <2>3. s' = y
    BY <1>1, <2>1 DEF Process
  <2>4. y.pending = s.pending
    BY <1>1 DEF Process
  <2> HIDE DEF x
  <2>5. Sound(y, disk, api)
    BY <2>2, CallsEnd
  <2>6. QED BY <2>1, <2>3, <2>4, <2>5, SamePending DEF Goes, Inv, Flows, Owed
<1>3. CASE Valid(s.upload)
  <2>1. PICK acked \in SUBSET ToSet(s.upload.batch), ok \in BOOLEAN :
          LET q == Acknowledged(s.codecs, s.upload, acked) IN
          /\ api' = [api EXCEPT !.received = @ \cup acked]
          /\ s' = [s EXCEPT !.upload = None, !.codecs = IF ok THEN q ELSE @,
                            !.failed = @ \/ ~ok]
          /\ disk' = IF ok THEN [disk EXCEPT !.codecs = q] ELSE disk
    BY <1>3 DEF Uploaded
  <2> DEFINE q == IF ok THEN Acknowledged(s.codecs, s.upload, acked) ELSE s.codecs
             failed == s.failed \/ ~ok
             got == api.received \cup acked
             y == [s EXCEPT !.upload = None, !.codecs = q, !.failed = failed]
             f == [disk EXCEPT !.codecs = q]
             k == [api EXCEPT !.received = got]
  <2>2. s' = y /\ disk' = f /\ api' = k
    BY <1>1, <2>1 DEF Storage
  <2>3. /\ q \in Seq(Codecs) /\ ToSet(q) \subseteq ToSet(disk.codecs)
        /\ ToSet(disk.codecs) \ ToSet(q) \subseteq acked
    <3>1. s.codecs \in Seq(Codecs)
      BY <1>1 DEF Process
    <3>2. Less(s.codecs, acked) \in Seq(Codecs)
          /\ ToSet(Less(s.codecs, acked)) = ToSet(s.codecs) \ acked
      BY <3>1, LessFacts
    <3>3. QED BY <1>1, <3>1, <3>2 DEF Acknowledged
  <2>4. acked \subseteq ToSet(disk.codecs) /\ acked \subseteq Codecs
    <3>1. acked \subseteq ToSet(disk.codecs)
      BY <1>1 DEF Inv, Sound, UploadSound
    <3>2. QED BY <1>1, <3>1 DEF Storage, ToSet
  <2>5. failed \in BOOLEAN /\ got \in SUBSET (Events \cup Durable)
    BY <1>1, <2>4 DEF ControlPlane, Durable
  <2> HIDE DEF q, failed
  <2>6. y \in Process /\ f \in Storage /\ k \in ControlPlane
    <3> HIDE DEF got
    <3>1. QED BY <1>1, <2>3, <2>5, Zenon DEF Process, Storage, ControlPlane
  <2>7. /\ y.pending = s.pending /\ y.tick = s.tick /\ y.flush = s.flush
        /\ y.upload = None /\ y.asks = s.asks /\ y.awaiting = s.awaiting
        /\ y.clearing = s.clearing /\ y.evidences = s.evidences /\ y.codecs = q
        /\ y.projection = s.projection
    BY <1>1 DEF Process
  <2>8. /\ f.codecs = q /\ f.journal = disk.journal /\ f.faults = disk.faults
        /\ f.marker = disk.marker /\ f.projection = disk.projection
    BY <1>1 DEF Storage
  <2>9. k.received = api.received \cup acked /\ k.asks = api.asks
    BY <1>1 DEF ControlPlane
  <2> HIDE DEF y, f, k
  <2>10. /\ Debt(f) \subseteq Debt(disk) /\ Debt(disk) \ Debt(f) \subseteq acked
         /\ Recorded(f) = Recorded(disk)
    BY <2>3, <2>8 DEF Debt, Recorded
  <2>11. Safe(disk, api) \subseteq Safe(f, k)
    BY <2>9, <2>10 DEF Safe
  <2>12. Sound(y, f, k)
    <3>1. Typed(y, f, k)
      BY <2>6, <2>7, <2>8 DEF Inv, Sound, Typed
    <3>2. TickSound(y, f, k)
      BY <2>7, <2>9, <2>10 DEF Inv, Sound, TickSound
    <3>3. FlushSound(y, f, k)
      BY <2>7, <2>9, <2>11 DEF Inv, Sound, FlushSound
    <3>4. ResetSound(y, f, k)
      BY <2>7, <2>8, <2>9, <2>11 DEF Inv, Sound, ResetSound
    <3>5. QED BY <2>7, <2>8, <2>9, <2>10, <3>1, <3>2, <3>3, <3>4 DEF Inv, Sound, UploadSound
  <2>13. Flows
    <3>1. api'.received \cap Durable \subseteq Safe(disk, api)
      BY <2>2, <2>4, <2>9 DEF Safe, Debt
    <3>2. QED BY <2>2, <2>9, <2>10, <3>1, ReceiveFlows
  <2>14. QED BY <2>2, <2>7, <2>12, <2>13, SamePending DEF Goes, Inv
<1>4. QED BY <1>2, <1>3

LEMMA RefreshedGoes ==
  ASSUME Inv, Refreshed
  PROVE  Goes
<1>1. s \in Process /\ disk \in Storage /\ api \in ControlPlane /\ api' = api
  BY DEF Refreshed, Inv, Sound, Typed
<1>2. PICK lost \in BOOLEAN, ok \in BOOLEAN :
        LET valid == s.token = api.token
            next == IF lost THEN "fetch_failed" ELSE IF valid THEN api.assigned ELSE "rejected"
            tried == ~(s.projection = next /\ s.persisted)
        IN /\ s' = Projected(IF lost \/ valid THEN s ELSE [s EXCEPT !.token = 0], next, ok)
           /\ disk' = IF ok /\ tried THEN [disk EXCEPT !.projection = next] ELSE disk
  BY DEF Refreshed
<1> DEFINE valid == s.token = api.token
           next == IF lost THEN "fetch_failed" ELSE IF valid THEN api.assigned ELSE "rejected"
           x == IF lost \/ valid THEN s ELSE [s EXCEPT !.token = 0]
           p == IF ok THEN next ELSE "unwritten"
           y == [x EXCEPT !.projection = p, !.persisted = ok]
           f == [disk EXCEPT !.projection = next]
<1>3. next \in Statuses \cup Customers
  BY <1>1 DEF ControlPlane, Statuses
<1>4. p \in Statuses \cup Customers /\ (p \in Customers => ok /\ p = next)
  BY <1>3, CustomerAssumption DEF Statuses
<1>5. Sound(x, disk, api) /\ x.pending = s.pending /\ x.projection = s.projection
      /\ x.persisted = s.persisted
  BY <1>1, CallsEnd DEF Inv, Process
<1>6. \/ s' = x /\ disk' = disk
      \/ s' = y /\ disk' = IF ok THEN f ELSE disk
  BY <1>2, <1>5 DEF Projected
<1> HIDE DEF x
<1>7. x \in Process
  BY <1>5 DEF Sound, Typed
<1>8. /\ disk' \in Storage /\ disk'.codecs = disk.codecs /\ disk'.journal = disk.journal
      /\ disk'.faults = disk.faults /\ disk'.marker = disk.marker
      /\ \/ s' = x /\ disk' = disk
         \/ s' = y /\ (ok => disk'.projection = next)
  <2> HIDE DEF next, y
  <2>1. f \in Storage
    BY <1>1, <1>3, Zenon DEF Storage
  <2>2. /\ f.codecs = disk.codecs /\ f.journal = disk.journal
        /\ f.faults = disk.faults /\ f.marker = disk.marker /\ f.projection = next
    BY <1>1 DEF Storage
  <2> HIDE DEF f
  <2>3. QED BY <1>1, <1>6, <2>1, <2>2
<1>9. Debt(disk') = Debt(disk) /\ Recorded(disk') = Recorded(disk)
  BY <1>8 DEF Debt, Recorded
<1>10. Sound(s', disk', api) /\ s'.pending = s.pending
  <2>1. CASE s' = x /\ disk' = disk
    BY <1>5, <2>1
  <2>2. CASE s' = y /\ (ok => disk'.projection = next)
    <3> HIDE DEF p
    <3>1. y \in Process
      BY <1>4, <1>7, Zenon DEF Process
    <3>2. /\ y.pending = x.pending /\ y.tick = x.tick /\ y.flush = x.flush
          /\ y.upload = x.upload /\ y.asks = x.asks /\ y.awaiting = x.awaiting
          /\ y.clearing = x.clearing /\ y.evidences = x.evidences /\ y.codecs = x.codecs
          /\ y.projection = p
      BY <1>7 DEF Process
    <3> HIDE DEF y, next
    <3>3. Safe(disk', api) = Safe(disk, api)
      BY <1>9 DEF Safe
    <3>4. p \in Customers => disk'.projection = p
      BY <1>4, <2>2
    <3>5. Sound(y, disk', api)
      BY <1>5, <1>8, <1>9, <3>1, <3>2, <3>3, <3>4 DEF Sound, Typed, TickSound, FlushSound, UploadSound, ResetSound
    <3>6. QED BY <1>5, <2>2, <3>2, <3>5
  <2>3. QED BY <1>8, <2>1, <2>2
<1>11. Inv'
  BY <1>1, <1>10 DEF Inv
<1>12. QED BY <1>1, <1>9, <1>10, <1>11, OweFlows, SamePending DEF Goes

\* The control plane answers the tick: it has the evidence it acknowledges.
LEMMA AnswerTickGoes ==
  ASSUME Inv, AnswerTick
  PROVE  Goes
<1> DEFINE boot == s.tick.kind = "bootstrap"
           token == IF boot THEN api.token + 1 ELSE api.token
           ack == IF s.tick.head \in Poison THEN None ELSE s.tick.head
           asks == api.asks
           got == api.received \cup ({ack} \ {None})
           answered == boot \/ Valid(s.tick)
           reply == IF answered THEN [code |-> "200", token |-> token, asks |-> asks, ack |-> ack]
                    ELSE [code |-> "401"]
           tick == [s.tick EXCEPT !.reply = reply]
           y == [s EXCEPT !.tick = tick]
           k == IF answered THEN [api EXCEPT !.token = token, !.received = got] ELSE api
<1>1. s.tick # None /\ disk' = disk /\ s \in Process /\ api \in ControlPlane
  BY DEF AnswerTick, Waits, Inv, Sound, Typed
<1>2. s' = y /\ api' = k
  BY DEF AnswerTick
<1>3. s.tick \in TickCall /\ s.tick.head \in Evidences \cup {None} /\ api.token \in Nat
      /\ asks \in BOOLEAN
  BY <1>1 DEF Process, TickCall, ControlPlane
<1>4. ack \in Evidences \cup {None} /\ token \in Nat
  BY <1>3
<1>5. ack # None => ack \in Safe(disk, api)
  BY <1>1 DEF Inv, Sound, TickSound, Safe, Debt
<1>6. got \in SUBSET (Events \cup Durable) /\ api.received \subseteq got
      /\ (ack # None => ack \in got) /\ got \subseteq Safe(disk, api)
  BY <1>1, <1>4, <1>5 DEF ControlPlane, Durable, Safe
<1>7. /\ reply.code = IF answered THEN "200" ELSE "401"
      /\ answered => reply.asks = api.asks /\ reply.ack = ack
      /\ boot => answered
  OBVIOUS
<1> HIDE DEF boot, asks
<1>8. reply \in [code : {"200"}, token : Nat, asks : BOOLEAN, ack : Evidences \cup {None}]
                  \cup Refusal
  <2> HIDE DEF token, ack, answered
  <2>1. [code |-> "200", token |-> token, asks |-> asks, ack |-> ack]
          \in [code : {"200"}, token : Nat, asks : BOOLEAN, ack : Evidences \cup {None}]
    BY <1>3, <1>4
  <2>2. [code |-> "401"] \in Refusal
    BY DEF Refusal
  <2>3. QED BY <2>1, <2>2
<1>9. k \in ControlPlane /\ k.asks = api.asks
      /\ k.received = IF answered THEN got ELSE api.received
  <2> HIDE DEF token, got, answered
  <2>1. [api EXCEPT !.token = token, !.received = got] \in ControlPlane
    BY <1>1, <1>4, <1>6, Zenon DEF ControlPlane
  <2>2. [api EXCEPT !.token = token, !.received = got].asks = api.asks
        /\ [api EXCEPT !.token = token, !.received = got].received = got
    BY <1>1 DEF ControlPlane
  <2>3. QED BY <1>1, <2>1, <2>2
<1> HIDE DEF reply, k, token
<1>10. tick \in TickCall
  BY <1>3, <1>8, Zenon DEF TickCall
<1>11. /\ tick.reply = reply /\ tick.head = s.tick.head /\ tick.kind = s.tick.kind
       /\ tick.late = s.tick.late
  BY <1>3 DEF TickCall
<1> HIDE DEF tick
<1>12. y \in Process
  BY <1>1, <1>10, Zenon DEF Process
<1>13. /\ y.pending = s.pending /\ y.tick = tick /\ y.flush = s.flush
       /\ y.upload = s.upload /\ y.asks = s.asks /\ y.awaiting = s.awaiting
       /\ y.clearing = s.clearing /\ y.evidences = s.evidences /\ y.codecs = s.codecs
       /\ y.projection = s.projection
  BY <1>1 DEF Process
<1> HIDE DEF y, ack, got, answered
<1>14. Sound(s, disk, k)
  BY <1>6, <1>9, ControlKeeps DEF Inv
<1>15. TickSound(y, disk, k)
  <2>1. ASSUME Accepted(reply)
        PROVE  answered
    BY <1>7, <2>1 DEF Accepted
  <2>2. QED BY <1>1, <1>6, <1>7, <1>9, <1>11, <1>13, <1>14, <2>1 DEF Sound, TickSound, boot, Accepted
<1>16. Sound(y, disk, k)
  BY <1>12, <1>13, <1>14, <1>15 DEF Sound, Typed, FlushSound, UploadSound, ResetSound
<1>17. Flows
  <2>1. /\ api.received \subseteq api'.received /\ api'.received \subseteq Safe(disk, api)
    BY <1>2, <1>6, <1>9 DEF Safe
  <2>2. QED BY <1>1, <2>1, ReceiveFlows
<1>18. QED BY <1>1, <1>2, <1>13, <1>16, <1>17, SamePending DEF Goes, Inv

\* The control plane answers a flush: it has the first of the events.
LEMMA AnswerFlushGoes ==
  ASSUME Inv, AnswerFlush
  PROVE  Goes
<1>1. s.flush # None /\ disk' = disk /\ s \in Process /\ api \in ControlPlane
      /\ s.flush \in FlushCall
  BY DEF AnswerFlush, Waits, Inv, Sound, Typed, Process
<1>2. CASE ~Valid(s.flush)
  <2> DEFINE reply == [code |-> "401"]
             flush == [s.flush EXCEPT !.reply = reply]
             y == [s EXCEPT !.flush = flush]
  <2>1. s' = y /\ api' = api
    BY <1>2 DEF AnswerFlush
  <2>2. reply \in Refusal /\ ~Accepted(reply)
    BY DEF Refusal, Accepted
  <2> HIDE DEF reply
  <2>3. flush \in FlushCall
    BY <1>1, <2>2, Zenon DEF FlushCall
  <2>4. flush.reply = reply /\ flush.events = s.flush.events /\ flush.late = s.flush.late
    BY <1>1 DEF FlushCall
  <2> HIDE DEF flush
  <2>5. y \in Process
    BY <1>1, <2>3, Zenon DEF Process
  <2>6. /\ y.pending = s.pending /\ y.tick = s.tick /\ y.flush = flush
        /\ y.upload = s.upload /\ y.asks = s.asks /\ y.awaiting = s.awaiting
        /\ y.clearing = s.clearing /\ y.evidences = s.evidences /\ y.codecs = s.codecs
        /\ y.projection = s.projection
    BY <1>1 DEF Process
  <2> HIDE DEF y
  <2>7. FlushSound(y, disk, api)
    BY <1>1, <2>2, <2>4, <2>6 DEF Inv, Sound, FlushSound
  <2>8. Sound(y, disk, api)
    BY <2>5, <2>6, <2>7 DEF Inv, Sound, Typed, TickSound, UploadSound, ResetSound
  <2>9. QED BY <1>1, <2>1, <2>6, <2>8, SamePending DEF Goes, Inv, Flows, Owed
<1>3. CASE Valid(s.flush)
  <2>1. PICK n \in 1 .. Len(s.flush.events) :
          /\ s' = [s EXCEPT !.flush.reply = [code |-> "200", accepted |-> n, asks |-> api.asks]]
          /\ api' = [api EXCEPT !.received =
                       @ \cup {s.flush.events[i].what : i \in 1 .. n}]
    BY <1>3 DEF AnswerFlush
  <2> DEFINE asks == api.asks
             reply == [code |-> "200", accepted |-> n, asks |-> asks]
             flush == [s.flush EXCEPT !.reply = reply]
             y == [s EXCEPT !.flush = flush]
             whats == {s.flush.events[i].what : i \in 1 .. n}
             got == api.received \cup whats
             k == [api EXCEPT !.received = got]
  <2>2. s' = y /\ api' = k
    BY <2>1
  <2>3. s.flush.events \in Seq(Sendable) /\ asks \in BOOLEAN
    BY <1>1 DEF FlushCall, ControlPlane
  <2>4. n \in Nat /\ n <= Len(s.flush.events) /\ \A i \in 1 .. n : i \in DOMAIN s.flush.events
    BY <2>3
  <2>5. \A i \in 1 .. n : /\ s.flush.events[i] \in Sendable
                          /\ s.flush.events[i] \in ToSet(s.flush.events)
    BY <2>3, <2>4 DEF ToSet
  <2>6. whats \subseteq Events \cup Durable /\ whats \cap Durable \subseteq Safe(disk, api)
    BY <1>1, <2>5 DEF Sendable, Durable, Inv, Sound, FlushSound
  <2>7. got \in SUBSET (Events \cup Durable) /\ api.received \subseteq got
        /\ got \cap Durable \subseteq Safe(disk, api)
        /\ \A i \in 1 .. n : s.flush.events[i].what \in got
    BY <1>1, <2>6 DEF ControlPlane, Safe
  <2> HIDE DEF asks
  <2>8. /\ reply \in [code : {"200"}, accepted : Nat, asks : BOOLEAN]
        /\ reply.accepted = n /\ reply.asks = asks
    BY <2>3, <2>4
  <2> HIDE DEF whats, got, reply
  <2>9. k \in ControlPlane
    BY <1>1, <2>7, Zenon DEF ControlPlane
  <2>10. k.asks = api.asks /\ k.received = got
    BY <1>1 DEF ControlPlane
  <2> HIDE DEF k
  <2>11. flush \in FlushCall
    BY <1>1, <2>8, Zenon DEF FlushCall
  <2>12. flush.reply = reply /\ flush.events = s.flush.events /\ flush.late = s.flush.late
    BY <1>1 DEF FlushCall
  <2> HIDE DEF flush
  <2>13. y \in Process
    BY <1>1, <2>11, Zenon DEF Process
  <2>14. /\ y.pending = s.pending /\ y.tick = s.tick /\ y.flush = flush
         /\ y.upload = s.upload /\ y.asks = s.asks /\ y.awaiting = s.awaiting
         /\ y.clearing = s.clearing /\ y.evidences = s.evidences /\ y.codecs = s.codecs
         /\ y.projection = s.projection
    BY <1>1 DEF Process
  <2> HIDE DEF y
  <2>15. Sound(s, disk, k)
    BY <2>7, <2>9, <2>10, ControlKeeps DEF Inv
  <2>16. FlushSound(y, disk, k)
    <3>1. flush # None =>
            /\ \A e \in ToSet(flush.events) : e.what \in Durable => e.what \in Safe(disk, k)
            /\ flush.late /\ k.asks => y.asks
      BY <1>1, <2>12, <2>14, <2>15 DEF Sound, FlushSound
    <3>2. /\ reply.accepted <= Len(flush.events)
          /\ \A i \in 1 .. reply.accepted : flush.events[i].what \in k.received
          /\ k.asks => reply.asks
      BY <2>4, <2>7, <2>8, <2>10, <2>12 DEF asks
    <3>3. QED BY <2>12, <2>14, <3>1, <3>2 DEF FlushSound
  <2>17. Sound(y, disk, k)
    BY <2>13, <2>14, <2>15, <2>16 DEF Sound, Typed, TickSound, UploadSound, ResetSound
  <2>18. Flows
    BY <1>1, <2>2, <2>7, <2>10, ReceiveFlows
  <2>19. QED BY <1>1, <2>2, <2>14, <2>17, <2>18, SamePending DEF Goes, Inv
<1>4. QED BY <1>2, <1>3

LEMMA LoseGoes ==
  ASSUME Inv, Lose
  PROVE  Goes
<1>1. /\ UNCHANGED <<disk, api>> /\ s \in Process
      /\ \/ s' = [s EXCEPT !.tick = None]
         \/ s' = [s EXCEPT !.flush = None]
         \/ s' = [s EXCEPT !.upload = None]
  BY DEF Lose, Inv, Sound, Typed
<1>2. Sound(s', disk, api) /\ s'.pending = s.pending
  <2>1. /\ [s EXCEPT !.tick = None].pending = s.pending
        /\ [s EXCEPT !.flush = None].pending = s.pending
        /\ [s EXCEPT !.upload = None].pending = s.pending
    BY <1>1 DEF Process
  <2>2. /\ Sound([s EXCEPT !.tick = None], disk, api)
        /\ Sound([s EXCEPT !.flush = None], disk, api)
        /\ Sound([s EXCEPT !.upload = None], disk, api)
    BY CallsEnd DEF Inv
  <2>3. QED BY <1>1, <2>1, <2>2
<1>3. QED BY <1>1, <1>2, SamePending DEF Goes, Inv, Flows, Owed

LEMMA InitSound ==
  ASSUME Init
  PROVE  Inv /\ Delivery!Init
<1>1. s = Started(disk, TRUE)
  BY DEF Init
<1>2. /\ disk \in Storage /\ disk.projection = "unassigned"
      /\ api \in ControlPlane /\ api.received = {} /\ (api.asks => disk.marker)
  BY DEF Init, Storage, ControlPlane, Statuses
<1>3. Sound(s, disk, api)
  BY <1>1, <1>2, StartedSound
<1>4. Debt(disk) \subseteq Durable
  BY <1>2 DEF Storage, Debt, Durable, Recorded, ToSet
<1>5. QED BY <1>2, <1>3, <1>4 DEF Inv, Delivery!Init, Owed

LEMMA StepGoes ==
  ASSUME Inv, [Next]_vars
  PROVE  Goes
<1>1. CASE UNCHANGED vars
  BY <1>1, SamePending DEF vars, Goes, Inv, Flows, Owed
<1>2. CASE Next
  BY <1>2, OccurGoes, CompletedGoes, ElapseGoes, NegotiateGoes, ReportGoes, ControlGoes,
     SpoilGoes, CrashGoes, TickGoes, BootstrappedGoes, BeatenGoes, FlushAnsweredGoes,
     UploadGoes, UploadedGoes, RefreshedGoes, AnswerTickGoes, AnswerFlushGoes, LoseGoes
     DEF Next
<1>3. QED BY <1>1, <1>2

LEMMA InvHolds == Spec => []Inv
<1>1. Inv /\ [Next]_vars => Inv'
  BY StepGoes DEF Goes
<1>2. QED BY <1>1, InitSound, PTL DEF Spec

-----------------------------------------------------------------------------
(* Theorems.                                                               *)

\* Every value has its type; the outbox is bounded, and holds each event once.
THEOREM TypesHold == Spec => []TypeOK
<1>1. Inv => TypeOK
  BY DEF Inv, Sound, Typed, Outbox, TypeOK
<1>2. QED BY <1>1, InvHolds, PTL

\* Elapsed windows, codec evidence, fault files and the completion of a recycle stay on
\* disk until the control plane has them, over crashes, failed writes and lost or late
\* answers: the agent implements AtLeastOnce.
THEOREM DeliveryHolds == Spec => Delivered
<1>1. Init => Delivery!Init
  BY InitSound
<1>2. Inv /\ [Next]_vars => [Delivery!Next]_<<Owed, api.received \cap Durable>>
  BY StepGoes DEF Goes, Flows
<1>3. QED BY <1>1, <1>2, InvHolds, PTL DEF Spec, Delivered, Delivery!Spec

\* The marker of a completed recycle stays while its token is still asked for, whichever
\* of two overlapping answers is applied last.
THEOREM MarkerHolds == Spec => []MarkerStays
<1>1. Inv => MarkerStays
  BY DEF Inv, Sound, ResetSound, MarkerStays
<1>2. QED BY <1>1, InvHolds, PTL

\* A customer the agent reports as projected is the one on disk.
THEOREM ProjectionHolds == Spec => []ProjectedIsWritten
<1>1. Inv => ProjectedIsWritten
  BY DEF Inv, Sound, ProjectedIsWritten
<1>2. QED BY <1>1, InvHolds, PTL

\* An event leaves the outbox because the control plane has it, because it is a
\* superseded snapshot, because it is the oldest of a full outbox, or with the process.
THEOREM OutboxHolds == Spec => NothingVanishes
<1>1. Inv /\ [Next]_vars => [Accounted]_vars
  BY StepGoes DEF Goes
<1>2. QED BY <1>1, InvHolds, PTL DEF Spec, NothingVanishes

-----------------------------------------------------------------------------
(* The artifacts.  The invariant is one of the memory y of a manager, its  *)
(* files f and the world v.                                                *)

Shots == Artifacts!Shots
Session == [sess: 1 .. MaxSessions, base: SUBSET Shots]
Customer == {None} \cup Nat
Fingerprint == {None} \cup [cut: Nat, end: Nat]
Record ==
  [sess: Customer, files: SUBSET Shots, skipped: BOOLEAN, print: Fingerprint,
   uploaded: BOOLEAN, own: BOOLEAN]
Capture ==
  [id: ArtifactIds, stage: {"settling", "packing"}, sess: Customer,
   base: {None} \cup SUBSET Shots, files: SUBSET Shots, skipped: BOOLEAN, print: Fingerprint,
   end: Nat]
Bundle == [sess: Customer, files: SUBSET Shots, end: Nat]

\* A bundle without a record is an old one.
Stored(f) ==
  /\ f = [folder |-> f.folder, snapshot |-> f.snapshot, cut |-> f.cut, end |-> f.end,
          queue |-> f.queue, bundles |-> f.bundles, old |-> f.old, torn |-> f.torn]
  /\ f.folder \subseteq Shots /\ f.snapshot \in {None} \cup Session
  /\ f.cut \in Nat /\ f.end \in Nat
  /\ f.queue \in [DOMAIN f.queue -> Record] /\ DOMAIN f.queue \subseteq ArtifactIds
  /\ f.bundles \subseteq DOMAIN f.queue \cup f.old

Outside(v) ==
  /\ v = [sess |-> v.sess, ended |-> v.ended, recycling |-> v.recycling, taken |-> v.taken,
          preserved |-> v.preserved, made |-> v.made, uploaded |-> v.uploaded,
          registered |-> v.registered, excused |-> v.excused]
  /\ v.sess \in 0 .. MaxSessions /\ v.ended \in BOOLEAN
  /\ v.made \in [DOMAIN v.made -> Bundle]
  /\ v.uploaded \subseteq DOMAIN v.made

\* The screenshots of earlier customers are known to the session on disk; that of the
\* memory is the one on disk, if there is one; and it knows all once its customer left.
Sessions(y, f, v) ==
  /\ y.active \in {None} \cup Session
  /\ y.active # None =>
       /\ y.active.sess <= v.sess
       /\ f.snapshot \in {None, y.active}
       /\ v.ended => f.folder \subseteq y.active.base
  /\ f.snapshot # None => f.snapshot.sess <= v.sess
  /\ \A shot \in f.folder :
       /\ shot[1] <= v.sess
       /\ shot[1] < v.sess => f.snapshot # None /\ shot \in f.snapshot.base

\* A capture has an id of its own; until it has settled it knows the screenshots of
\* earlier customers, and then it has none of them.
CaptureSound(c, f, v) ==
  /\ c.id \notin DOMAIN v.made
  /\ c.stage = "settling" =>
       /\ manager = "shots"
       /\ c.sess # None =>
            /\ c.sess <= v.sess
            /\ \A shot \in f.folder : shot[1] < c.sess => c.base # None /\ shot \in c.base
  /\ c.stage = "packing" /\ c.sess # None => \A shot \in c.files : shot[1] >= c.sess
  /\ c.print # None => c.print.end = c.end

CapturesSound(y, f, v) ==
  /\ y.captures \subseteq Capture
  /\ \A c \in y.captures : CaptureSound(c, f, v)
  /\ \A c, e \in y.captures : c.id = e.id => c = e

\* What a record says of its artifact, and who is given up.
QueueSound(f, v) ==
  /\ \A id \in DOMAIN f.queue :
       /\ id \in DOMAIN v.made
       /\ f.queue[id].print # None => f.queue[id].print.end = v.made[id].end
       /\ ~f.queue[id].own => id \in v.excused
  /\ f.old \subseteq v.excused

Kept(f, v) ==
  /\ \A id \in DOMAIN v.made :
       v.made[id].sess # None => \A shot \in v.made[id].files : shot[1] >= v.made[id].sess
  /\ f.cut = 0 \/ \E id \in v.uploaded : v.made[id].end = f.cut

Rules(y, f, v) ==
  /\ y = [active |-> y.active, captures |-> y.captures, drain |-> y.drain]
  /\ Stored(f) /\ Outside(v)
  /\ Sessions(y, f, v) /\ CapturesSound(y, f, v) /\ QueueSound(f, v) /\ Kept(f, v)

\* A drain goes through records that are there.
Draining(y, f, v) ==
  y.drain # None =>
    /\ y.drain = [list |-> y.drain.list, done |-> y.drain.done, stage |-> y.drain.stage]
    /\ y.drain.list \subseteq DOMAIN f.queue
    /\ y.drain.stage # "next" => y.drain.list # {}
    /\ y.drain.stage = "head" => Artifacts!Min(y.drain.list) \in v.uploaded

ArtifactsInv ==
  Rules(artifacts, artifactFiles, artifactWorld) /\
  Draining(artifacts, artifactFiles, artifactWorld)

-----------------------------------------------------------------------------
(* Of the files something goes.                                            *)

\* g is f without some screenshots, records and bundles.
Lessened(f, g) ==
  /\ Stored(g)
  /\ g.folder \subseteq f.folder /\ g.snapshot = f.snapshot /\ g.cut = f.cut /\ g.end = f.end
  /\ DOMAIN g.queue \subseteq DOMAIN f.queue /\ g.old \subseteq f.old
  /\ \A id \in DOMAIN g.queue : g.queue[id] = f.queue[id]

LEMMA WithoutFacts ==
  ASSUME NEW f, Stored(f), NEW S
  PROVE  LET q == Artifacts!Without(f.queue, S)
         IN  /\ q \in [DOMAIN f.queue \ S -> Record]
             /\ \A id \in DOMAIN f.queue \ S : q[id] = f.queue[id]
BY DEF Stored, Artifacts!Without

LEMMA SourcesFacts ==
  ASSUME NEW f, Stored(f), NEW files
  PROVE  LET g == Artifacts!SourcesCleaned(f, files)
         IN  Lessened(f, g) /\ g.queue = f.queue /\ g.bundles = f.bundles /\ g.old = f.old
BY DEF Stored, Lessened, Artifacts!SourcesCleaned

LEMMA FolderFacts ==
  ASSUME NEW f, Stored(f)
  PROVE  LET g == Artifacts!FolderCleaned(f)
         IN  Lessened(f, g) /\ g.queue = f.queue /\ g.old = f.old /\ g.folder = {}
BY DEF Stored, Lessened, Artifacts!FolderCleaned

LEMMA DeletedFacts ==
  ASSUME NEW f, Stored(f), NEW id, NEW gone \in BOOLEAN
  PROVE  LET g == Artifacts!Deleted(f, id, gone)
         IN  Lessened(f, g) /\ DOMAIN f.queue \ {id} \subseteq DOMAIN g.queue
<1> DEFINE q == Artifacts!Without(f.queue, {id})
           g == Artifacts!Deleted(f, id, gone)
<1>1. q \in [DOMAIN f.queue \ {id} -> Record]
      /\ \A i \in DOMAIN f.queue \ {id} : q[i] = f.queue[i]
  BY WithoutFacts
<1>2. g = [folder |-> f.folder, snapshot |-> f.snapshot, cut |-> f.cut, end |-> f.end,
           queue |-> IF gone THEN q ELSE f.queue, bundles |-> f.bundles \ {id},
           old |-> f.old, torn |-> IF gone THEN f.torn \ {id} ELSE f.torn]
  BY DEF Stored, Artifacts!Deleted
<1> HIDE DEF q, g
<1>3. CASE gone
  BY <1>1, <1>2, <1>3 DEF Stored, Lessened, g
<1>4. CASE ~gone
  BY <1>1, <1>2, <1>4 DEF Stored, Lessened, g
<1> QED BY <1>3, <1>4

LEMMA LessTransitive ==
  ASSUME NEW f, NEW g, NEW h, Lessened(f, g), Lessened(g, h)
  PROVE  Lessened(f, h)
BY DEF Lessened

LEMMA DiscardedFacts ==
  ASSUME NEW f, Stored(f), NEW id, NEW gone \in BOOLEAN
  PROVE  LET g == Artifacts!Discarded(f, id, gone)
         IN  Lessened(f, g) /\ DOMAIN f.queue \ {id} \subseteq DOMAIN g.queue
<1> DEFINE h == Artifacts!SourcesCleaned(f, f.queue[id].files)
<1>1. Lessened(f, h) /\ h.queue = f.queue /\ Stored(h)
  BY SourcesFacts DEF Lessened
<1> HIDE DEF h
<1> DEFINE g == Artifacts!Deleted(h, id, gone)
<1>2. Lessened(h, g) /\ DOMAIN h.queue \ {id} \subseteq DOMAIN g.queue
  BY <1>1, DeletedFacts
<1>3. Lessened(f, g) /\ DOMAIN f.queue \ {id} \subseteq DOMAIN g.queue
  BY <1>1, <1>2, LessTransitive
<1> QED BY <1>3 DEF h, Artifacts!Discarded

\* registerRecord lets the record go only when the call succeeded.
LEMMA LetGoFacts ==
  ASSUME NEW f, Stored(f), NEW y, NEW id, NEW ok \in BOOLEAN, NEW gone \in BOOLEAN
  PROVE  LET g == Artifacts!LetGo(f, y, id, ok, gone)
         IN  /\ Lessened(f, g) /\ DOMAIN f.queue \ {id} \subseteq DOMAIN g.queue
             /\ ~ok => g = f
<1> DEFINE h == Artifacts!Deleted(f, id, gone)
           k == Artifacts!SourcesCleaned(h, f.queue[id].files)
           l == Artifacts!FolderCleaned(k)
<1>1. Lessened(f, h) /\ DOMAIN f.queue \ {id} \subseteq DOMAIN h.queue /\ Stored(h)
  BY DeletedFacts DEF Lessened
<1> HIDE DEF h
<1>2. Lessened(f, k) /\ k.queue = h.queue /\ Stored(k)
  <2>1. Lessened(h, k) /\ k.queue = h.queue
    BY <1>1, SourcesFacts
  <2> QED BY <1>1, <2>1, LessTransitive DEF Lessened
<1> HIDE DEF k
<1>3. Lessened(f, l) /\ l.queue = k.queue
  <2>1. Lessened(k, l) /\ l.queue = k.queue
    BY <1>2, FolderFacts
  <2> QED BY <1>2, <2>1, LessTransitive
<1>4. Lessened(f, f)
  BY DEF Lessened
<1> HIDE DEF l
<1>5. Artifacts!LetGo(f, y, id, ok, gone) \in {f, k, l}
      /\ (~ok => Artifacts!LetGo(f, y, id, ok, gone) = f)
  BY DEF Artifacts!LetGo, h, k, l
<1> QED BY <1>1, <1>2, <1>3, <1>4, <1>5

\* What a start cleans: expired records.
LEMMA StartupFacts ==
  ASSUME NEW f, Stored(f), NEW preserve \in BOOLEAN
  PROVE  LET g == Artifacts!StartupCleaned(f, preserve)
         IN  Lessened(f, g) /\ DOMAIN f.queue \ f.old \subseteq DOMAIN g.queue
<1>1. ASSUME NEW h, Stored(h)
      PROVE  LET g == Artifacts!QueueCleaned(h)
             IN  Lessened(h, g) /\ DOMAIN h.queue \ h.old \subseteq DOMAIN g.queue
  <2> DEFINE files == UNION {h.queue[id].files : id \in (DOMAIN h.queue \cap h.old) \ h.torn}
             k == Artifacts!SourcesCleaned(h, files)
             q == Artifacts!Without(h.queue, h.old)
             g == Artifacts!QueueCleaned(h)
  <2>1. Lessened(h, k) /\ k.queue = h.queue /\ k.bundles = h.bundles /\ k.old = h.old /\ Stored(k)
    BY <1>1, SourcesFacts DEF Lessened
  <2>2. q \in [DOMAIN h.queue \ h.old -> Record]
        /\ \A i \in DOMAIN h.queue \ h.old : q[i] = h.queue[i]
    BY <1>1, WithoutFacts
  <2>3. g = [k EXCEPT !.queue = Artifacts!Without(@, h.old), !.torn = @ \ h.old,
                      !.bundles = @ \ h.old, !.old = {}]
    BY DEF Artifacts!QueueCleaned
  <2> HIDE DEF k, g, q
  <2>4. g = [folder |-> k.folder, snapshot |-> k.snapshot, cut |-> k.cut, end |-> k.end,
             queue |-> q, bundles |-> k.bundles \ h.old, old |-> {},
             torn |-> k.torn \ h.old]
    BY <2>1, <2>3 DEF Stored, q
  <2>5. Lessened(k, g)
    BY <2>1, <2>2, <2>4 DEF Stored, Lessened
  <2> QED BY <2>1, <2>2, <2>4, <2>5, LessTransitive DEF g
<1>2. Lessened(f, f)
  BY DEF Lessened
<1> DEFINE h == Artifacts!FolderCleaned(f)
<1>3. Lessened(f, h) /\ h.queue = f.queue /\ h.old = f.old /\ Stored(h)
  BY FolderFacts DEF Lessened
<1> HIDE DEF h
<1>4. Artifacts!StartupCleaned(f, preserve)
        \in {f, Artifacts!QueueCleaned(h), Artifacts!QueueCleaned(f)}
  BY DEF Artifacts!StartupCleaned, h
<1>5. Lessened(h, Artifacts!QueueCleaned(h))
      /\ DOMAIN h.queue \ h.old \subseteq DOMAIN Artifacts!QueueCleaned(h).queue
  BY <1>1, <1>3
<1>6. Lessened(f, Artifacts!QueueCleaned(f))
      /\ DOMAIN f.queue \ f.old \subseteq DOMAIN Artifacts!QueueCleaned(f).queue
  BY <1>1
<1> QED BY <1>2, <1>3, <1>4, <1>5, <1>6, LessTransitive

-----------------------------------------------------------------------------
(* What keeps the rules.                                                   *)

LEMMA LessKeeps ==
  ASSUME NEW y, NEW f, NEW v, Rules(y, f, v), NEW g, Lessened(f, g)
  PROVE  Rules(y, g, v)
<1>1. Stored(g) /\ Outside(v)
  BY DEF Rules, Lessened
<1>2. Sessions(y, g, v)
  BY DEF Rules, Lessened, Sessions
<1>3. CapturesSound(y, g, v)
  BY DEF Rules, Lessened, CapturesSound, CaptureSound
<1>4. QueueSound(g, v)
  BY DEF Rules, Lessened, QueueSound
<1>5. Kept(g, v)
  BY DEF Rules, Lessened, Kept
<1> QED BY <1>1, <1>2, <1>3, <1>4, <1>5 DEF Rules

\* z differs from y in the drain only.
Drains(y, z) == z = [active |-> y.active, captures |-> y.captures, drain |-> z.drain]

LEMMA DrainKeeps ==
  ASSUME NEW y, NEW f, NEW v, Rules(y, f, v), NEW z, Drains(y, z)
  PROVE  Rules(z, f, v)
<1>1. z.active = y.active /\ z.captures = y.captures
  BY DEF Drains
<1>2. z = [active |-> z.active, captures |-> z.captures, drain |-> z.drain]
  BY <1>1 DEF Drains
<1>3. Sessions(z, f, v) /\ CapturesSound(z, f, v)
  BY <1>1 DEF Rules, Sessions, CapturesSound
<1> QED BY <1>2, <1>3 DEF Rules

\* The store and the control plane have more, or more is given up.
Gains(v, u) ==
  /\ Outside(u)
  /\ u.sess = v.sess /\ u.ended = v.ended /\ u.made = v.made
  /\ v.uploaded \subseteq u.uploaded /\ v.excused \subseteq u.excused

LEMMA GainKeeps ==
  ASSUME NEW y, NEW f, NEW v, Rules(y, f, v), NEW u, Gains(v, u)
  PROVE  Rules(y, f, u)
<1>1. Stored(f) /\ Outside(u)
  BY DEF Rules, Gains
<1>2. Sessions(y, f, u)
  BY DEF Rules, Gains, Sessions
<1>3. CapturesSound(y, f, u)
  BY DEF Rules, Gains, CapturesSound, CaptureSound
<1>4. QueueSound(f, u)
  BY DEF Rules, Gains, QueueSound
<1>5. Kept(f, u)
  BY DEF Rules, Gains, Kept
<1> QED BY <1>1, <1>2, <1>3, <1>4, <1>5 DEF Rules

\* A manager that starts again.
LEMMA FreshKeeps ==
  ASSUME NEW y, NEW f, NEW v, Rules(y, f, v)
  PROVE  Rules(Artifacts!Fresh, f, v) /\ Draining(Artifacts!Fresh, f, v)
<1> DEFINE z == Artifacts!Fresh
<1>1. z = [active |-> None, captures |-> {}, drain |-> None]
  BY DEF Artifacts!Fresh
<1> HIDE DEF z
<1>2. Sessions(z, f, v)
  BY <1>1 DEF Rules, Sessions
<1>3. CapturesSound(z, f, v)
  BY <1>1 DEF CapturesSound
<1>4. Draining(z, f, v)
  BY <1>1 DEF Draining
<1>5. z = [active |-> z.active, captures |-> z.captures, drain |-> z.drain]
  BY <1>1
<1> QED BY <1>2, <1>3, <1>4, <1>5 DEF Rules, z

\* A set of numbers has a first one.
LEMMA FirstFacts ==
  ASSUME NEW S \in SUBSET Nat, S # {}
  PROVE  Artifacts!Min(S) \in S
<1> DEFINE T == {0 .. k - 1 : k \in S}
<1>1. T \subseteq FiniteSubsetsOf(Nat) /\ T # {}
  <2>1. ASSUME NEW k \in S PROVE IsFiniteSet(0 .. k - 1) /\ 0 .. k - 1 \subseteq Nat
    BY FS_Interval
  <2> QED BY <2>1 DEF FiniteSubsetsOf
<1>2. PICK t \in T : \A o \in T : <<o, t>> \notin StrictSubsetOrdering(Nat)
  BY <1>1, WFMin, FS_StrictSubsetOrderingWellFounded
<1>3. PICK m \in S : t = 0 .. m - 1
  OBVIOUS
<1>4. ASSUME NEW k \in S, k < m PROVE FALSE
  <2>1. 0 .. k - 1 \subseteq 0 .. m - 1 /\ k \in 0 .. m - 1 /\ k \notin 0 .. k - 1
    BY <1>4
  <2>2. <<0 .. k - 1, t>> \in StrictSubsetOrdering(Nat)
    BY <2>1, <1>3, <1>1 DEF StrictSubsetOrdering
  <2> QED BY <2>2, <1>2
<1>5. \A k \in S : m <= k
  BY <1>4
<1> QED BY <1>5 DEF Artifacts!Min

-----------------------------------------------------------------------------
(* The drain.                                                              *)

\* The drain is done with the first of its records, or at an end.
LEMMA PassedFacts ==
  ASSUME NEW y, NEW f, NEW v, Rules(y, f, v), Draining(y, f, v), y.drain # None,
         NEW written \in BOOLEAN,
         NEW z \in {Artifacts!Passed(y), Artifacts!Counted(y), Artifacts!Failed(y, written),
                    [y EXCEPT !.drain = None]},
         NEW g, DOMAIN f.queue \ {Artifacts!Min(y.drain.list)} \subseteq DOMAIN g.queue, NEW u
  PROVE  Drains(y, z) /\ Draining(z, g, u)
<1> DEFINE l == y.drain.list \ {Artifacts!Min(y.drain.list)}
<1>1. /\ y = [active |-> y.active, captures |-> y.captures, drain |-> y.drain]
      /\ y.drain = [list |-> y.drain.list, done |-> y.drain.done, stage |-> y.drain.stage]
      /\ y.drain.list \subseteq DOMAIN f.queue
  BY DEF Rules, Draining
<1>2. Artifacts!Passed(y) =
        [active |-> y.active, captures |-> y.captures,
         drain |-> [list |-> l, done |-> y.drain.done, stage |-> "next"]]
  <2> DEFINE m == y.drain.list
             k == [y EXCEPT !.drain.list = m \ {Artifacts!Min(m)}]
  <2>1. Artifacts!Passed(y) = [k EXCEPT !.drain.stage = "next"]
    BY DEF Artifacts!Passed
  <2>2. k = [active |-> y.active, captures |-> y.captures,
             drain |-> [list |-> l, done |-> y.drain.done, stage |-> y.drain.stage]]
    <3> HIDE DEF m
    <3>1. y.drain = [list |-> m, done |-> y.drain.done, stage |-> y.drain.stage]
      BY <1>1 DEF m
    <3>2. l = m \ {Artifacts!Min(m)}
      BY DEF m
    <3> HIDE DEF l
    <3> QED BY <1>1, <3>1, <3>2
  <2> HIDE DEF k, l
  <2> QED BY <2>1, <2>2
<1>3. Artifacts!Counted(y) =
        [active |-> y.active, captures |-> y.captures,
         drain |-> [list |-> l, done |-> y.drain.done + 1, stage |-> "next"]]
  BY <1>2 DEF Artifacts!Counted
<1>4. [y EXCEPT !.drain = None] =
        [active |-> y.active, captures |-> y.captures, drain |-> None]
  BY <1>1
<1>5. l \subseteq DOMAIN g.queue
  BY <1>1
<1> HIDE DEF l
<1>6. PICK k : \/ z = [active |-> y.active, captures |-> y.captures,
                       drain |-> [list |-> l, done |-> k, stage |-> "next"]]
              \/ z = [active |-> y.active, captures |-> y.captures, drain |-> None]
  BY <1>2, <1>3, <1>4 DEF Artifacts!Failed
<1> QED BY <1>5, <1>6 DEF Drains, Draining

\* The drain goes on with its first record.
LEMMA StageFacts ==
  ASSUME NEW y, NEW f, NEW v, Rules(y, f, v), Draining(y, f, v), y.drain # None,
         y.drain.list # {}, NEW stage, NEW g, DOMAIN f.queue \subseteq DOMAIN g.queue,
         NEW u, stage = "head" => Artifacts!Min(y.drain.list) \in u.uploaded
  PROVE  /\ Drains(y, Artifacts!Stage(y, stage))
         /\ Draining(Artifacts!Stage(y, stage), g, u)
<1> DEFINE z == Artifacts!Stage(y, stage)
<1>1. /\ y = [active |-> y.active, captures |-> y.captures, drain |-> y.drain]
      /\ y.drain = [list |-> y.drain.list, done |-> y.drain.done, stage |-> y.drain.stage]
      /\ y.drain.list \subseteq DOMAIN f.queue
  BY DEF Rules, Draining
<1>2. z = [active |-> y.active, captures |-> y.captures,
           drain |-> [list |-> y.drain.list, done |-> y.drain.done, stage |-> stage]]
  BY <1>1 DEF Artifacts!Stage
<1> HIDE DEF z
<1>3. Drains(y, z)
  BY <1>2 DEF Drains
<1>4. Draining(z, g, u)
  BY <1>1, <1>2 DEF Draining
<1> QED BY <1>3, <1>4 DEF z

\* A drain starts, unless one runs.
LEMMA StartedFacts ==
  ASSUME NEW y, NEW f, NEW v, Draining(y, f, v),
         y = [active |-> y.active, captures |-> y.captures, drain |-> y.drain]
  PROVE  /\ Drains(y, Artifacts!DrainStarted(y, f))
         /\ Draining(Artifacts!DrainStarted(y, f), f, v)
<1> DEFINE z == Artifacts!DrainStarted(y, f)
<1>1. CASE y.drain # None
  BY <1>1 DEF Artifacts!DrainStarted, Drains
<1>2. CASE y.drain = None
  <2>1. z = [active |-> y.active, captures |-> y.captures,
             drain |-> [list |-> DOMAIN f.queue, done |-> 0, stage |-> "next"]]
    BY <1>2 DEF Artifacts!DrainStarted
  <2> HIDE DEF z
  <2>2. Drains(y, z) /\ Draining(z, f, v)
    BY <2>1 DEF Drains, Draining
  <2> QED BY <2>2 DEF z
<1> QED BY <1>1, <1>2

\* With more records and uploads a drain is as it was.
LEMMA DrainingGrows ==
  ASSUME NEW y, NEW f, NEW v, Draining(y, f, v), NEW g, NEW u,
         DOMAIN f.queue \subseteq DOMAIN g.queue, v.uploaded \subseteq u.uploaded
  PROVE  Draining(y, g, u)
BY DEF Draining

\* What is owed stays owed until it was received or given up.
OwedFlows(f, v, g, u) ==
  LET got == v.registered \cup v.excused
      gets == u.registered \cup u.excused
  IN  \/ /\ DOMAIN f.queue \subseteq DOMAIN g.queue /\ DOMAIN g.queue \subseteq ArtifactIds
         /\ gets = got
      \/ /\ got \subseteq gets /\ gets \subseteq got \cup DOMAIN f.queue
         /\ DOMAIN g.queue \subseteq DOMAIN f.queue
         /\ DOMAIN f.queue \ DOMAIN g.queue \subseteq gets

Delivers == ArtifactsInv' /\ OwedFlows(artifactFiles, artifactWorld, artifactFiles', artifactWorld')

\* A step of the drain that lets some files go.
LEMMA DrainGoes ==
  ASSUME ArtifactsInv, UNCHANGED manager,
         Drains(artifacts, artifacts'), Draining(artifacts', artifactFiles', artifactWorld'),
         Lessened(artifactFiles, artifactFiles'), Gains(artifactWorld, artifactWorld'),
         OwedFlows(artifactFiles, artifactWorld, artifactFiles', artifactWorld')
  PROVE  Delivers
<1>1. Rules(artifacts, artifactFiles', artifactWorld')
  BY LessKeeps, GainKeeps DEF ArtifactsInv
<1>2. Rules(artifacts', artifactFiles', artifactWorld')
  BY <1>1, DrainKeeps
<1>3. Rules(artifacts, artifactFiles, artifactWorld)'
  BY <1>2 DEF Rules, Sessions, CapturesSound, CaptureSound, QueueSound, Kept, Stored, Outside
<1>4. Draining(artifacts, artifactFiles, artifactWorld)'
  BY DEF Draining
<1> QED BY <1>3, <1>4 DEF Delivers, ArtifactsInv

\* Nothing is gained, nothing goes.
LEMMA Same ==
  ASSUME NEW f, Stored(f), NEW v, Outside(v)
  PROVE  Lessened(f, f) /\ Gains(v, v) /\ OwedFlows(f, v, f, v)
BY DEF Lessened, Gains, OwedFlows, Stored

LEMMA DrainStep == ASSUME ArtifactsInv, Artifacts!Drain PROVE Delivers
<1> DEFINE y == artifacts  f == artifactFiles  v == artifactWorld
<1>1. Rules(y, f, v) /\ Draining(y, f, v) /\ Stored(f) /\ Outside(v)
      /\ y = [active |-> y.active, captures |-> y.captures, drain |-> y.drain]
  BY DEF ArtifactsInv, Rules
<1>2. y' = Artifacts!DrainStarted(y, f) /\ f' = f /\ v' = v /\ manager' = manager
  BY DEF Artifacts!Drain
<1>3. Drains(y, y') /\ Draining(y', f', v')
  BY <1>1, <1>2, StartedFacts
<1> QED BY <1>1, <1>2, <1>3, Same, DrainGoes

\* The record that could not be read goes, and its bundle stays.
LEMMA RecordFacts ==
  ASSUME NEW f, Stored(f), NEW id, id \in f.old
  PROVE  LET g == [f EXCEPT !.queue = Artifacts!Without(@, {id}), !.torn = @ \ {id}]
         IN  Lessened(f, g) /\ DOMAIN f.queue \ {id} \subseteq DOMAIN g.queue
<1> DEFINE q == Artifacts!Without(f.queue, {id})
           g == [f EXCEPT !.queue = Artifacts!Without(@, {id}), !.torn = @ \ {id}]
<1>1. q \in [DOMAIN f.queue \ {id} -> Record]
      /\ \A i \in DOMAIN f.queue \ {id} : q[i] = f.queue[i]
  BY WithoutFacts
<1>2. g = [folder |-> f.folder, snapshot |-> f.snapshot, cut |-> f.cut, end |-> f.end,
           queue |-> q, bundles |-> f.bundles, old |-> f.old, torn |-> f.torn \ {id}]
  <2>1. f = [folder |-> f.folder, snapshot |-> f.snapshot, cut |-> f.cut, end |-> f.end,
             queue |-> f.queue, bundles |-> f.bundles, old |-> f.old, torn |-> f.torn]
    BY DEF Stored
  <2>2. g = [f EXCEPT !.queue = q, !.torn = f.torn \ {id}]
    OBVIOUS
  <2> HIDE DEF q, g
  <2> QED BY <2>1, <2>2
<1> HIDE DEF q, g
<1>3. Lessened(f, g) /\ DOMAIN f.queue \ {id} \subseteq DOMAIN g.queue
  BY <1>1, <1>2 DEF Stored, Lessened
<1> QED BY <1>3 DEF g

\* The first record of a drain that has one.
LEMMA AtFacts ==
  ASSUME ArtifactsInv, artifacts.drain # None, artifacts.drain.list # {}
  PROVE  Artifacts!At \in artifacts.drain.list /\ Artifacts!At \in DOMAIN artifactFiles.queue
<1>1. artifacts.drain.list \subseteq DOMAIN artifactFiles.queue
  BY DEF ArtifactsInv, Draining
<1>2. DOMAIN artifactFiles.queue \subseteq Nat
  BY ArtifactAssumption DEF ArtifactsInv, Rules, Stored
<1> QED BY <1>1, <1>2, FirstFacts DEF Artifacts!At

LEMMA NextRecordStep == ASSUME ArtifactsInv, Artifacts!NextRecord PROVE Delivers
<1> DEFINE y == artifacts  f == artifactFiles  v == artifactWorld  at == Artifacts!At
<1>1. /\ Rules(y, f, v) /\ Draining(y, f, v) /\ Stored(f) /\ Outside(v)
      /\ y.drain # None /\ v' = v /\ manager' = manager /\ f.old \subseteq v.excused
  BY DEF ArtifactsInv, Rules, QueueSound, Artifacts!NextRecord, Artifacts!Waits
<1>2. at = Artifacts!Min(y.drain.list)
  BY DEF Artifacts!At
<1>3. Lessened(f, f) /\ Gains(v, v) /\ OwedFlows(f, v, f, v)
  BY <1>1, Same
<1>4. CASE /\ y' \in {[y EXCEPT !.drain = None], Artifacts!Passed(y), Artifacts!Counted(y)}
           /\ f' = f
  <2>1. PICK z \in {[y EXCEPT !.drain = None], Artifacts!Passed(y), Artifacts!Counted(y)} :
          y' = z
    BY <1>4
  <2>2. Drains(y, z) /\ Draining(z, f, v)
    <3>1. DOMAIN f.queue \ {Artifacts!Min(y.drain.list)} \subseteq DOMAIN f.queue
      OBVIOUS
    <3>2. z \in {Artifacts!Passed(y), Artifacts!Counted(y), Artifacts!Failed(y, TRUE),
                [y EXCEPT !.drain = None]}
      OBVIOUS
    <3> QED BY <1>1, <3>1, <3>2, PassedFacts
  <2> QED BY <1>1, <1>3, <1>4, <2>1, <2>2, DrainGoes
<1>5. CASE y.drain.list # {} /\ y' = Artifacts!Stage(y, "identity") /\ f' = f
  <2>1. Drains(y, y') /\ Draining(y', f, v)
    BY <1>1, <1>5, StageFacts
  <2> QED BY <1>1, <1>3, <1>5, <2>1, DrainGoes
<1>6. ASSUME at \in f.old, NEW gone \in BOOLEAN,
             y' \in {Artifacts!Passed(y), Artifacts!Counted(y)},
             f' \in {Artifacts!Discarded(f, at, gone),
                     [f EXCEPT !.queue = Artifacts!Without(@, {at}), !.torn = @ \ {at}], f}
      PROVE  Delivers
  <2>1. Lessened(f, f') /\ DOMAIN f.queue \ {at} \subseteq DOMAIN f'.queue
    <3> HIDE DEF at
    <3>1. CASE f' = Artifacts!Discarded(f, at, gone)
      BY <1>1, <3>1, DiscardedFacts
    <3>2. CASE f' = [f EXCEPT !.queue = Artifacts!Without(@, {at}), !.torn = @ \ {at}]
      BY <1>1, <1>6, <3>2, RecordFacts
    <3>3. CASE f' = f
      BY <1>3, <3>3
    <3> QED BY <1>6, <3>1, <3>2, <3>3
  <2>2. PICK z \in {Artifacts!Passed(y), Artifacts!Counted(y)} : y' = z
    BY <1>6
  <2>3. Drains(y, z) /\ Draining(z, f', v)
    <3>1. PICK g : g = f'
      OBVIOUS
    <3>2. Drains(y, z) /\ Draining(z, g, v)
      BY <1>1, <1>2, <2>1, <3>1, PassedFacts
    <3> QED BY <3>1, <3>2
  <2>4. OwedFlows(f, v, f', v)
    BY <1>1, <1>6, <2>1 DEF Lessened, OwedFlows
  <2> QED BY <1>1, <1>3, <2>1, <2>2, <2>3, <2>4, DrainGoes
<1> QED BY <1>4, <1>5, <1>6 DEF Artifacts!NextRecord

LEMMA IdentifiedStep == ASSUME ArtifactsInv, Artifacts!Identified PROVE Delivers
<1> DEFINE y == artifacts  f == artifactFiles  v == artifactWorld  at == Artifacts!At
<1>1. /\ Rules(y, f, v) /\ Draining(y, f, v) /\ Stored(f) /\ Outside(v)
      /\ y.drain # None /\ v' = v /\ manager' = manager /\ y.drain.list # {}
  BY DEF ArtifactsInv, Rules, Draining, Artifacts!Identified, Artifacts!Waits
<1>2. at = Artifacts!Min(y.drain.list)
  BY DEF Artifacts!At
<1>3. Lessened(f, f) /\ Gains(v, v) /\ OwedFlows(f, v, f, v)
  BY <1>1, Same
<1>4. PICK ok \in BOOLEAN, written \in BOOLEAN, gone \in BOOLEAN :
        IF ~ok THEN y' = Artifacts!Failed(y, written) /\ f' = f
        ELSE IF ~f.queue[at].own
        THEN y' = Artifacts!Counted(y) /\ f' = Artifacts!Discarded(f, at, gone)
        ELSE /\ y' = Artifacts!Stage(y, IF f.queue[at].uploaded THEN "register" ELSE "upload")
             /\ f' = f
  BY DEF Artifacts!Identified
<1>5. CASE ~ok
  <2>1. Drains(y, Artifacts!Failed(y, written)) /\ Draining(Artifacts!Failed(y, written), f, v)
    BY <1>1, PassedFacts
  <2> QED BY <1>1, <1>3, <1>4, <1>5, <2>1, DrainGoes
<1>6. CASE ok /\ ~f.queue[at].own
  <2>1. Lessened(f, f') /\ DOMAIN f.queue \ {at} \subseteq DOMAIN f'.queue
    BY <1>1, <1>4, <1>6, DiscardedFacts
  <2>2. Drains(y, Artifacts!Counted(y)) /\ Draining(Artifacts!Counted(y), f', v)
    <3>1. PICK g : g = f'
      OBVIOUS
    <3>2. Drains(y, Artifacts!Counted(y)) /\ Draining(Artifacts!Counted(y), g, v)
      BY <1>1, <1>2, <2>1, <3>1, PassedFacts
    <3> QED BY <3>1, <3>2
  <2>3. at \in v.excused
    BY <1>1, <1>6, AtFacts DEF Rules, QueueSound
  <2>4. OwedFlows(f, v, f', v)
    BY <2>1, <2>3 DEF Lessened, OwedFlows
  <2> QED BY <1>1, <1>3, <1>4, <1>6, <2>1, <2>2, <2>4, DrainGoes
<1>7. CASE ok /\ f.queue[at].own
  <2>1. PICK stage \in {"register", "upload"} : y' = Artifacts!Stage(y, stage) /\ f' = f
    BY <1>4, <1>7
  <2>2. Drains(y, y') /\ Draining(y', f, v)
    BY <1>1, <2>1, StageFacts
  <2> QED BY <1>1, <1>3, <2>1, <2>2, DrainGoes
<1> QED BY <1>5, <1>6, <1>7

\* The store and the control plane have one more.
LEMMA GainsFacts ==
  ASSUME NEW v, Outside(v), NEW id \in DOMAIN v.made,
         NEW u \in {v, [v EXCEPT !.uploaded = @ \cup {id}], [v EXCEPT !.excused = @ \cup {id}],
                    [v EXCEPT !.registered = @ \cup {id}]}
  PROVE  Gains(v, u)
<1>1. v = [sess |-> v.sess, ended |-> v.ended, recycling |-> v.recycling, taken |-> v.taken,
           preserved |-> v.preserved, made |-> v.made, uploaded |-> v.uploaded,
           registered |-> v.registered, excused |-> v.excused]
  BY DEF Outside
<1>2. PICK a, b, c :
        /\ u = [sess |-> v.sess, ended |-> v.ended, recycling |-> v.recycling,
                taken |-> v.taken, preserved |-> v.preserved, made |-> v.made,
                uploaded |-> a, registered |-> b, excused |-> c]
        /\ a \in {v.uploaded, v.uploaded \cup {id}} /\ c \in {v.excused, v.excused \cup {id}}
  BY <1>1
<1> QED BY <1>2 DEF Gains, Outside

LEMMA CopiedStep == ASSUME ArtifactsInv, Artifacts!Copied PROVE Delivers
<1> DEFINE y == artifacts  f == artifactFiles  v == artifactWorld  at == Artifacts!At
<1>1. /\ Rules(y, f, v) /\ Draining(y, f, v) /\ Stored(f) /\ Outside(v)
      /\ y.drain # None /\ f' = f /\ manager' = manager /\ y.drain.list # {}
  BY DEF ArtifactsInv, Rules, Draining, Artifacts!Copied, Artifacts!Waits
<1>2. at = Artifacts!Min(y.drain.list) /\ at \in DOMAIN f.queue /\ at \in DOMAIN v.made
  BY <1>1, AtFacts DEF Artifacts!At, Rules, QueueSound
<1>3. PICK arrived \in BOOLEAN, ok \in BOOLEAN, written \in BOOLEAN :
        /\ ok => arrived
        /\ v' = IF arrived THEN [v EXCEPT !.uploaded = @ \cup {at}] ELSE v
        /\ y' = IF ok THEN Artifacts!Stage(y, "head") ELSE Artifacts!Failed(y, written)
  BY DEF Artifacts!Copied
<1>4. Lessened(f, f) /\ Gains(v, v')
  <2>1. PICK u : u = v'
    OBVIOUS
  <2> HIDE DEF at
  <2> QED BY <1>1, <1>2, <1>3, <2>1, Same, GainsFacts
<1>5. OwedFlows(f, v, f, v')
  BY <1>1, <1>3 DEF OwedFlows, Outside, Stored
<1>6. CASE ok
  <2>1. at \in v'.uploaded
    BY <1>1, <1>3, <1>6 DEF Outside
  <2>2. Drains(y, y') /\ Draining(y', f, v')
    <3>1. PICK u : u = v'
      OBVIOUS
    <3>2. /\ Drains(y, Artifacts!Stage(y, "head"))
          /\ Draining(Artifacts!Stage(y, "head"), f, u)
      BY <1>1, <1>2, <2>1, <3>1, StageFacts
    <3> QED BY <1>3, <1>6, <3>1, <3>2
  <2> QED BY <1>1, <1>4, <1>5, <2>2, DrainGoes
<1>7. CASE ~ok
  <2>1. Drains(y, y') /\ Draining(y', f, v')
    <3>1. PICK u : u = v'
      OBVIOUS
    <3> DEFINE z == Artifacts!Failed(y, written)
    <3>2. DOMAIN f.queue \ {Artifacts!Min(y.drain.list)} \subseteq DOMAIN f.queue
      OBVIOUS
    <3>3. Drains(y, z) /\ Draining(z, f, u)
      BY <1>1, <3>2, PassedFacts
    <3> QED BY <1>3, <1>7, <3>1, <3>3
  <2> QED BY <1>1, <1>4, <1>5, <2>1, DrainGoes
<1> QED BY <1>6, <1>7

LEMMA RegisteredStep == ASSUME ArtifactsInv, Artifacts!Registered PROVE Delivers
<1> DEFINE y == artifacts  f == artifactFiles  v == artifactWorld  at == Artifacts!At
<1>1. /\ Rules(y, f, v) /\ Draining(y, f, v) /\ Stored(f) /\ Outside(v)
      /\ y.drain # None /\ manager' = manager /\ y.drain.list # {}
  BY DEF ArtifactsInv, Rules, Draining, Artifacts!Registered, Artifacts!Waits
<1>2. at = Artifacts!Min(y.drain.list) /\ at \in DOMAIN f.queue /\ at \in DOMAIN v.made
  BY <1>1, AtFacts DEF Artifacts!At, Rules, QueueSound
<1>3. PICK known \in BOOLEAN, arrived \in BOOLEAN, ok \in BOOLEAN, written \in BOOLEAN,
           gone \in BOOLEAN :
        /\ ok => arrived
        /\ v' = IF ~known THEN [v EXCEPT !.excused = @ \cup {at}]
                ELSE IF arrived THEN [v EXCEPT !.registered = @ \cup {at}] ELSE v
        /\ y' = IF ok THEN Artifacts!Counted(y) ELSE Artifacts!Failed(y, written)
        /\ f' = Artifacts!LetGo(f, y, at, ok, gone)
  BY DEF Artifacts!Registered
<1> HIDE DEF at
<1>4. Lessened(f, f') /\ DOMAIN f.queue \ {at} \subseteq DOMAIN f'.queue
      /\ (~ok => f' = f)
  BY <1>1, <1>3, LetGoFacts
<1>5. Gains(v, v')
  <2>1. PICK u : u = v'
    OBVIOUS
  <2> QED BY <1>1, <1>2, <1>3, <2>1, GainsFacts
<1>6. v'.registered \cup v'.excused \in
        {v.registered \cup v.excused, v.registered \cup v.excused \cup {at}}
      /\ (ok => at \in v'.registered \cup v'.excused)
  BY <1>1, <1>3 DEF Outside
<1>7. OwedFlows(f, v, f', v')
  <2>1. CASE ok
    BY <1>2, <1>4, <1>6, <2>1 DEF OwedFlows, Lessened
  <2>2. CASE ~ok
    BY <1>2, <1>4, <1>6, <2>2 DEF OwedFlows, Lessened
  <2> QED BY <2>1, <2>2
<1>8. Drains(y, y') /\ Draining(y', f', v')
  <2>1. PICK z \in {Artifacts!Counted(y), Artifacts!Failed(y, written)} : y' = z
    BY <1>3
  <2>2. PICK g, u : g = f' /\ u = v'
    OBVIOUS
  <2>3. DOMAIN f.queue \ {Artifacts!Min(y.drain.list)} \subseteq DOMAIN g.queue
    BY <1>2, <1>4, <2>2
  <2>4. Drains(y, z) /\ Draining(z, g, u)
    BY <1>1, <2>3, PassedFacts
  <2> QED BY <2>1, <2>2, <2>4
<1> QED BY <1>1, <1>4, <1>5, <1>7, <1>8, DrainGoes

\* The record waits for its registration, and the captured log is cut where its bundle ends.
LEMMA HeadedKeeps ==
  ASSUME NEW y, NEW f, NEW v, Rules(y, f, v), NEW id \in DOMAIN f.queue, id \in v.uploaded
  PROVE  LET g == Artifacts!Pruned([f EXCEPT !.queue[id].uploaded = TRUE], f.queue[id].print)
         IN  Rules(y, g, v) /\ DOMAIN g.queue = DOMAIN f.queue
<1> DEFINE q == [f.queue EXCEPT ![id].uploaded = TRUE]
           h == [f EXCEPT !.queue[id].uploaded = TRUE]
           p == f.queue[id].print
           g == Artifacts!Pruned(h, p)
<1>1. Stored(f) /\ Outside(v) /\ QueueSound(f, v) /\ Kept(f, v)
  BY DEF Rules
<1>2. f.queue[id] \in Record
  BY <1>1 DEF Stored
<1>3. /\ q \in [DOMAIN f.queue -> Record]
      /\ \A i \in DOMAIN f.queue :
           q[i].print = f.queue[i].print /\ q[i].own = f.queue[i].own
  BY <1>1, <1>2 DEF Stored, Record
<1>4. h = [folder |-> f.folder, snapshot |-> f.snapshot, cut |-> f.cut, end |-> f.end,
           queue |-> q, bundles |-> f.bundles, old |-> f.old, torn |-> f.torn]
  <2>1. f = [folder |-> f.folder, snapshot |-> f.snapshot, cut |-> f.cut, end |-> f.end,
             queue |-> f.queue, bundles |-> f.bundles, old |-> f.old, torn |-> f.torn]
    BY <1>1 DEF Stored
  <2>2. h = [f EXCEPT !.queue = q]
    OBVIOUS
  <2> HIDE DEF q, h
  <2> QED BY <2>1, <2>2
<1> HIDE DEF q, h
<1>5. PICK k : /\ g = [folder |-> f.folder, snapshot |-> f.snapshot, cut |-> k,
                       end |-> f.end, queue |-> q, bundles |-> f.bundles, old |-> f.old,
                       torn |-> f.torn]
               /\ k = f.cut \/ (p # None /\ p.end = f.end /\ k = f.end)
  <2>1. g = h \/ (p # None /\ p = [cut |-> h.cut, end |-> h.end] /\ g = [h EXCEPT !.cut = h.end])
    BY DEF Artifacts!Pruned, Artifacts!Unchanged
  <2> HIDE DEF g, p
  <2> QED BY <1>4, <2>1
<1> HIDE DEF g
<1>6. p # None => p.end = v.made[id].end
  BY <1>1 DEF QueueSound
<1> HIDE DEF p
<1>7. Stored(g) /\ DOMAIN g.queue = DOMAIN f.queue
  BY <1>1, <1>3, <1>5 DEF Stored
<1>8. Sessions(y, g, v) /\ CapturesSound(y, g, v)
  BY <1>5 DEF Rules, Sessions, CapturesSound, CaptureSound
<1>9. QueueSound(g, v)
  BY <1>1, <1>3, <1>5 DEF QueueSound
<1>10. Kept(g, v)
  BY <1>1, <1>5, <1>6 DEF Kept
<1> QED BY <1>1, <1>7, <1>8, <1>9, <1>10 DEF Rules, g, h, p

\* The rules of the new state, from those of what it is.
LEMMA RulesPrimed ==
  ASSUME manager' = manager, Rules(artifacts', artifactFiles', artifactWorld')
  PROVE  Rules(artifacts, artifactFiles, artifactWorld)'
BY DEF Rules, Sessions, CapturesSound, CaptureSound, QueueSound, Kept, Stored, Outside

LEMMA HeadedStep == ASSUME ArtifactsInv, Artifacts!Headed PROVE Delivers
<1> DEFINE y == artifacts  f == artifactFiles  v == artifactWorld  at == Artifacts!At
<1>1. /\ Rules(y, f, v) /\ Draining(y, f, v) /\ Stored(f) /\ Outside(v)
      /\ y.drain # None /\ v' = v /\ manager' = manager /\ y.drain.list # {}
      /\ Artifacts!Min(y.drain.list) \in v.uploaded
  BY DEF ArtifactsInv, Rules, Draining, Artifacts!Headed, Artifacts!Waits
<1>2. at = Artifacts!Min(y.drain.list) /\ at \in DOMAIN f.queue
  BY <1>1, AtFacts DEF Artifacts!At
<1> DEFINE g == Artifacts!Pruned([f EXCEPT !.queue[at].uploaded = TRUE], f.queue[at].print)
<1>3. PICK written \in BOOLEAN :
        /\ y' = IF written THEN Artifacts!Stage(y, "register") ELSE [y EXCEPT !.drain = None]
        /\ f' = IF written THEN g ELSE f
  BY DEF Artifacts!Headed
<1>4. CASE written
  <2>1. Rules(y, g, v) /\ DOMAIN g.queue = DOMAIN f.queue
    <3> HIDE DEF at
    <3> QED BY <1>1, <1>2, HeadedKeeps
  <2> HIDE DEF g
  <2>2. Drains(y, Artifacts!Stage(y, "register"))
        /\ Draining(Artifacts!Stage(y, "register"), g, v)
    BY <1>1, <2>1, StageFacts
  <2>3. Rules(y', g, v) /\ Draining(y', g, v)
    BY <1>3, <1>4, <2>1, <2>2, DrainKeeps
  <2>4. Rules(y, f, v)' /\ Draining(y, f, v)'
    <3>1. Rules(y', f', v') /\ Draining(y', f', v')
      BY <1>1, <1>3, <1>4, <2>3
    <3> QED BY <1>1, <3>1, RulesPrimed DEF Draining
  <2>5. OwedFlows(f, v, f', v')
    BY <1>1, <1>3, <1>4, <2>1 DEF OwedFlows, Stored
  <2> QED BY <2>4, <2>5 DEF Delivers, ArtifactsInv
<1>5. CASE ~written
  <2>1. Drains(y, [y EXCEPT !.drain = None]) /\ Draining([y EXCEPT !.drain = None], f, v)
    <3>1. DOMAIN f.queue \ {Artifacts!Min(y.drain.list)} \subseteq DOMAIN f.queue
      OBVIOUS
    <3>2. [y EXCEPT !.drain = None] \in
            {Artifacts!Passed(y), Artifacts!Counted(y), Artifacts!Failed(y, TRUE),
             [y EXCEPT !.drain = None]}
      OBVIOUS
    <3> QED BY <1>1, <3>1, <3>2, PassedFacts
  <2>2. Lessened(f, f) /\ Gains(v, v) /\ OwedFlows(f, v, f, v)
    BY <1>1, Same
  <2> QED BY <1>1, <1>3, <1>5, <2>1, <2>2, DrainGoes
<1> QED BY <1>4, <1>5

-----------------------------------------------------------------------------
(* The customers and their captures.                                       *)

\* A step of the actors around the drain: what is owed is owed still.
LEMMA WorldGoes ==
  ASSUME ArtifactsInv, manager' = manager,
         Rules(artifacts', artifactFiles', artifactWorld'),
         artifacts'.drain = artifacts.drain, artifactFiles'.queue = artifactFiles.queue,
         artifactWorld'.uploaded = artifactWorld.uploaded,
         artifactWorld'.registered = artifactWorld.registered,
         artifactWorld'.excused = artifactWorld.excused
  PROVE  Delivers
<1>1. Rules(artifacts, artifactFiles, artifactWorld)'
  BY RulesPrimed
<1>2. Draining(artifacts, artifactFiles, artifactWorld)'
  BY DEF ArtifactsInv, Draining
<1>3. OwedFlows(artifactFiles, artifactWorld, artifactFiles', artifactWorld')
  BY DEF ArtifactsInv, Rules, Stored, OwedFlows
<1> QED BY <1>1, <1>2, <1>3 DEF Delivers, ArtifactsInv

\* Null is no set of screenshots and no session.
LEMMA NoneFacts == None \notin SUBSET Shots /\ None \notin Session
<1>1. None \notin SUBSET Shots
  BY ArtifactAssumption DEF Shots
<1>2. ASSUME NEW a \in Session PROVE a # None
  <2>1. a = [sess |-> a.sess, base |-> a.base] /\ a.sess \in 1 .. MaxSessions
        /\ a.base \in SUBSET Artifacts!Shots
    BY DEF Session, Shots
  <2> QED BY <2>1, ArtifactAssumption
<1> QED BY <1>1, <1>2

\* startSession, attachSessionContext: the session on disk is the one in memory, and it
\* knows what is in the folder of the customers before.
LEMMA StartedKeeps ==
  ASSUME NEW y, NEW f, NEW v, Rules(y, f, v), NEW u, Outside(u), NEW k \in 1 .. MaxSessions,
         v.sess <= k, u.sess = k, u.made = v.made, u.uploaded = v.uploaded,
         u.excused = v.excused,
         y.active # None /\ (u.ended \/ v.sess < k) => f.folder \subseteq y.active.base
  PROVE  LET r == Artifacts!Started(y, f, k)
         IN  Rules(r[1], r[2], u) /\ r[1].drain = y.drain /\ r[2].queue = f.queue
<1> DEFINE a == IF y.active # None THEN [y.active EXCEPT !.sess = k]
                ELSE [sess |-> k, base |-> Artifacts!Baseline(f)]
           z == [y EXCEPT !.active = a]
           g == [f EXCEPT !.snapshot = a]
<1>1. Artifacts!Started(y, f, k) = <<z, g>>
  BY DEF Artifacts!Started
<1>2. /\ Stored(f) /\ Outside(v) /\ Sessions(y, f, v) /\ CapturesSound(y, f, v)
      /\ QueueSound(f, v) /\ Kept(f, v)
      /\ y = [active |-> y.active, captures |-> y.captures, drain |-> y.drain]
  BY DEF Rules
<1>3. a \in Session /\ a.sess = k
      /\ a.base = (IF y.active # None THEN y.active.base ELSE f.folder)
  BY <1>2 DEF Session, Sessions, Stored, Artifacts!Baseline
<1> HIDE DEF a
<1>4. z = [active |-> a, captures |-> y.captures, drain |-> y.drain]
  BY <1>2
<1>5. g = [folder |-> f.folder, snapshot |-> a, cut |-> f.cut, end |-> f.end,
           queue |-> f.queue, bundles |-> f.bundles, old |-> f.old, torn |-> f.torn]
  BY <1>2 DEF Stored
<1> HIDE DEF z, g
<1>6. a # None
  BY <1>3, NoneFacts
<1>7. ASSUME NEW shot \in f.folder
      PROVE  shot[1] \in Int /\ shot[1] <= k /\ (shot[1] < k => shot \in a.base)
  <2>1. shot[1] \in 1 .. MaxSessions
    BY <1>2 DEF Stored, Shots, Artifacts!Shots
  <2>2. v.sess \in Int
    BY <1>2 DEF Outside
  <2>3. shot[1] <= v.sess /\ (shot[1] < v.sess => f.snapshot # None /\ shot \in f.snapshot.base)
    BY <1>2 DEF Sessions
  <2>4. y.active # None => f.snapshot \in {None, y.active}
    BY <1>2 DEF Sessions
  <2>5. CASE y.active = None
    BY <1>3, <2>1, <2>2, <2>3, <2>5
  <2>6. CASE y.active # None /\ v.sess < k
    BY <1>3, <2>1, <2>2, <2>3, <2>6
  <2>7. CASE y.active # None /\ v.sess = k
    BY <1>3, <2>1, <2>2, <2>3, <2>4, <2>7
  <2> QED BY <2>2, <2>5, <2>6, <2>7
<1>8. Stored(g)
  BY <1>2, <1>3, <1>5 DEF Stored
<1>9. Sessions(z, g, u)
  <2>1. u.ended => f.folder \subseteq a.base
    BY <1>3
  <2> QED BY <1>3, <1>4, <1>5, <1>6, <1>7, <2>1 DEF Sessions
<1>10. CapturesSound(z, g, u)
  <2>1. ASSUME NEW c \in y.captures PROVE CaptureSound(c, g, u)
    <3>1. CaptureSound(c, f, v) /\ c.sess \in Customer /\ v.sess \in Int
      BY <1>2 DEF CapturesSound, Capture, Outside
    <3> QED BY <1>5, <3>1 DEF CaptureSound, Customer
  <2> QED BY <1>2, <1>4, <2>1 DEF CapturesSound
<1>11. QueueSound(g, u) /\ Kept(g, u)
  BY <1>2, <1>5 DEF QueueSound, Kept
<1>12. Rules(z, g, u) /\ z.drain = y.drain /\ g.queue = f.queue
  BY <1>4, <1>5, <1>8, <1>9, <1>10, <1>11 DEF Rules
<1> QED BY <1>1, <1>12

LEMMA ConnectStep == ASSUME ArtifactsInv, Artifacts!Connect PROVE Delivers
<1> DEFINE y == artifacts  f == artifactFiles  v == artifactWorld
<1>1. Rules(y, f, v) /\ Sessions(y, f, v) /\ Stored(f) /\ Outside(v)
  BY DEF ArtifactsInv, Rules
<1>2. PICK next \in BOOLEAN, k \in 1 .. MaxSessions :
        /\ k = (IF next THEN v.sess + 1 ELSE v.sess) /\ k \in 1 .. MaxSessions
        /\ next => v.sess = 0 \/ v.ended
        /\ y' = Artifacts!Started(y, f, k)[1] /\ f' = Artifacts!Started(y, f, k)[2]
        /\ v' = [v EXCEPT !.sess = k, !.ended = FALSE] /\ manager' = manager
  BY DEF Artifacts!Connect
<1>3. /\ Outside(v') /\ v'.sess = k /\ v'.made = v.made /\ v'.uploaded = v.uploaded
      /\ v'.excused = v.excused /\ v'.registered = v.registered /\ ~v'.ended
  <2>1. v' = [sess |-> k, ended |-> FALSE, recycling |-> v.recycling, taken |-> v.taken,
              preserved |-> v.preserved, made |-> v.made, uploaded |-> v.uploaded,
              registered |-> v.registered, excused |-> v.excused]
    BY <1>1, <1>2 DEF Outside
  <2>2. k \in 0 .. MaxSessions
    BY <1>2
  <2> QED BY <1>1, <2>1, <2>2 DEF Outside
<1>4. v.sess \in Int /\ v.sess <= k /\ k \in Int
  BY <1>1, <1>2 DEF Outside
<1>5. y.active # None /\ (v'.ended \/ v.sess < k) => f.folder \subseteq y.active.base
  <2> SUFFICES ASSUME y.active # None, v.sess < k PROVE f.folder \subseteq y.active.base
    BY <1>3
  <2>1. CASE v.ended
    BY <1>1, <2>1 DEF Sessions
  <2>2. CASE v.sess = 0
    BY <1>1, <2>2 DEF Sessions, Stored, Shots, Artifacts!Shots
  <2> QED BY <1>2, <1>4, <2>1, <2>2
<1>6. Rules(y', f', v') /\ y'.drain = y.drain /\ f'.queue = f.queue
  <2>1. PICK u : u = v'
    OBVIOUS
  <2>3. /\ Outside(u) /\ u.sess = k /\ u.made = v.made /\ u.uploaded = v.uploaded
        /\ u.excused = v.excused
        /\ y.active # None /\ (u.ended \/ v.sess < k) => f.folder \subseteq y.active.base
    BY <1>3, <1>5, <2>1
  <2>4. k \in 1 .. MaxSessions
    BY <1>2
  <2>2. LET r == Artifacts!Started(y, f, k)
        IN  Rules(r[1], r[2], u) /\ r[1].drain = y.drain /\ r[2].queue = f.queue
    BY <1>1, <1>4, <2>3, <2>4, StartedKeeps
  <2> QED BY <1>2, <2>1, <2>2
<1> QED BY <1>2, <1>3, <1>6, WorldGoes

LEMMA AttachStep == ASSUME ArtifactsInv, Artifacts!Attach PROVE Delivers
<1> DEFINE y == artifacts  f == artifactFiles  v == artifactWorld  k == v.sess
<1>1. Rules(y, f, v) /\ Sessions(y, f, v) /\ Stored(f) /\ Outside(v)
  BY DEF ArtifactsInv, Rules
<1>2. /\ y' = Artifacts!Started(y, f, k)[1] /\ f' = Artifacts!Started(y, f, k)[2]
      /\ v' = v /\ manager' = manager /\ v.sess > 0
  BY DEF Artifacts!Attach
<1>3. k \in 1 .. MaxSessions /\ v.sess <= k /\ ~(v.sess < k)
  BY <1>1, <1>2, ArtifactAssumption DEF Outside
<1>4. y.active # None /\ (v.ended \/ v.sess < k) => f.folder \subseteq y.active.base
  BY <1>1, <1>3 DEF Sessions
<1>5. LET r == Artifacts!Started(y, f, k)
      IN  Rules(r[1], r[2], v) /\ r[1].drain = y.drain /\ r[2].queue = f.queue
  BY <1>1, <1>3, <1>4, StartedKeeps
<1> QED BY <1>2, <1>5, WorldGoes

LEMMA ShootStep == ASSUME ArtifactsInv, Artifacts!Shoot PROVE Delivers
<1> DEFINE y == artifacts  f == artifactFiles  v == artifactWorld
<1>1. /\ Rules(y, f, v) /\ Stored(f) /\ Outside(v) /\ Sessions(y, f, v)
      /\ CapturesSound(y, f, v) /\ QueueSound(f, v) /\ Kept(f, v)
  BY DEF ArtifactsInv, Rules
<1>2. PICK n \in 1 .. MaxShots :
        /\ f' = [f EXCEPT !.folder = @ \cup {<<v.sess, n>>}]
        /\ v' = [v EXCEPT !.taken = @ \cup {<<v.sess, n>>}]
        /\ y' = y /\ manager' = manager /\ v.sess > 0 /\ ~v.ended
  BY DEF Artifacts!Shoot
<1> DEFINE shot == <<v.sess, n>>
<1>3. shot \in Shots /\ shot[1] = v.sess /\ v.sess \in Int
  BY <1>1, <1>2, ArtifactAssumption DEF Shots, Artifacts!Shots, Outside
<1>4. f' = [folder |-> f.folder \cup {shot}, snapshot |-> f.snapshot, cut |-> f.cut,
            end |-> f.end, queue |-> f.queue, bundles |-> f.bundles, old |-> f.old,
            torn |-> f.torn]
  BY <1>1, <1>2 DEF Stored
<1>5. v' = [sess |-> v.sess, ended |-> v.ended, recycling |-> v.recycling,
            taken |-> v.taken \cup {shot}, preserved |-> v.preserved, made |-> v.made,
            uploaded |-> v.uploaded, registered |-> v.registered, excused |-> v.excused]
  BY <1>1, <1>2 DEF Outside
<1>6. PICK g, u : g = f' /\ u = v'
  OBVIOUS
<1> HIDE DEF shot
<1>7. Stored(g) /\ Outside(u)
  BY <1>1, <1>3, <1>4, <1>5, <1>6 DEF Stored, Outside
<1>8. Sessions(y, g, u)
  BY <1>1, <1>2, <1>3, <1>4, <1>5, <1>6 DEF Sessions
<1>9. CapturesSound(y, g, u)
  <2>1. ASSUME NEW c \in y.captures PROVE CaptureSound(c, g, u)
    <3>1. CaptureSound(c, f, v) /\ c.sess \in Customer
      BY <1>1 DEF CapturesSound, Capture
    <3> QED BY <1>3, <1>4, <1>5, <1>6, <3>1 DEF CaptureSound, Customer
  <2> QED BY <1>1, <2>1 DEF CapturesSound
<1>10. QueueSound(g, u) /\ Kept(g, u)
  BY <1>1, <1>4, <1>5, <1>6 DEF QueueSound, Kept
<1>11. Rules(y, g, u)
  BY <1>1, <1>7, <1>8, <1>9, <1>10 DEF Rules
<1> QED BY <1>2, <1>4, <1>5, <1>6, <1>11, WorldGoes

\* Other captures, and perhaps no session any more.
LEMMA CapturesKeep ==
  ASSUME NEW y, NEW f, NEW v, Rules(y, f, v), NEW a \in {None, y.active}, NEW C, C \subseteq Capture,
         \A c \in C : CaptureSound(c, f, v), \A c, e \in C : c.id = e.id => c = e
  PROVE  Rules([active |-> a, captures |-> C, drain |-> y.drain], f, v)
<1> DEFINE z == [active |-> a, captures |-> C, drain |-> y.drain]
<1>1. z.active = a /\ z.captures = C /\ z.drain = y.drain
      /\ z = [active |-> z.active, captures |-> z.captures, drain |-> z.drain]
  OBVIOUS
<1> HIDE DEF z
<1>2. Sessions(z, f, v)
  <2>1. CASE a = None
    BY <1>1, <2>1 DEF Rules, Sessions
  <2>2. CASE a = y.active
    BY <1>1, <2>2 DEF Rules, Sessions
  <2> QED BY <2>1, <2>2
<1>3. CapturesSound(z, f, v)
  BY <1>1 DEF CapturesSound
<1> QED BY <1>1, <1>2, <1>3 DEF Rules, z

\* The session is over on disk, and the folder is empty.
LEMMA FolderClears ==
  ASSUME NEW y, NEW f, NEW v, Rules(y, f, v), NEW g,
         g = [folder |-> {}, snapshot |-> None, cut |-> f.cut, end |-> f.end,
              queue |-> f.queue, bundles |-> f.bundles, old |-> f.old, torn |-> f.torn]
  PROVE  Rules(y, g, v)
<1>1. Stored(g)
  BY DEF Rules, Stored
<1>2. Sessions(y, g, v)
  BY DEF Rules, Sessions
<1>3. CapturesSound(y, g, v)
  BY DEF Rules, CapturesSound, CaptureSound
<1>4. QueueSound(g, v) /\ Kept(g, v)
  BY DEF Rules, QueueSound, Kept
<1> QED BY <1>1, <1>2, <1>3, <1>4 DEF Rules

\* completeSessionAndUpload, captureAndUpload: the record of a new bundle.
LEMMA BundleQueued ==
  ASSUME NEW y, NEW f, NEW v, Rules(y, f, v), NEW c \in y.captures, c.stage = "packing"
  PROVE  LET g == Artifacts!Queued(f, c)
             u == Artifacts!Made(v, c)
             z == [y EXCEPT !.captures = @ \ {c}]
         IN  /\ Rules(z, g, u) /\ z.drain = y.drain
             /\ DOMAIN g.queue = DOMAIN f.queue \cup {c.id}
             /\ u.uploaded = v.uploaded /\ u.registered = v.registered
             /\ u.excused = v.excused
<1> DEFINE g == Artifacts!Queued(f, c)
           u == Artifacts!Made(v, c)
           z == [y EXCEPT !.captures = @ \ {c}]
           r == [sess |-> c.sess, files |-> c.files, skipped |-> c.skipped, print |-> c.print,
                 uploaded |-> FALSE, own |-> TRUE]
           q == Artifacts!With(f.queue, c.id, r)
           m == Artifacts!With(v.made, c.id, [sess |-> c.sess, files |-> c.files, end |-> c.end])
<1>1. /\ Stored(f) /\ Outside(v) /\ Sessions(y, f, v) /\ CapturesSound(y, f, v)
      /\ QueueSound(f, v) /\ Kept(f, v)
      /\ y = [active |-> y.active, captures |-> y.captures, drain |-> y.drain]
  BY DEF Rules
<1>2. c \in Capture /\ CaptureSound(c, f, v)
  BY <1>1 DEF CapturesSound
<1>3. /\ q \in [DOMAIN f.queue \cup {c.id} -> Record] /\ q[c.id] = r
      /\ \A id \in DOMAIN f.queue \ {c.id} : q[id] = f.queue[id]
  <2>1. r \in Record
    BY <1>2 DEF Record, Capture
  <2> HIDE DEF r
  <2> QED BY <1>1, <2>1 DEF Stored, Artifacts!With
<1>4. /\ m \in [DOMAIN v.made \cup {c.id} -> Bundle]
      /\ m[c.id] = [sess |-> c.sess, files |-> c.files, end |-> c.end]
      /\ \A id \in DOMAIN v.made : m[id] = v.made[id]
  <2> DEFINE b == [sess |-> c.sess, files |-> c.files, end |-> c.end]
  <2>1. b \in Bundle
    BY <1>2 DEF Bundle, Capture
  <2>2. c.id \notin DOMAIN v.made
    BY <1>2 DEF CaptureSound
  <2> HIDE DEF b
  <2> QED BY <1>1, <2>1, <2>2 DEF Outside, Artifacts!With, b
<1>5. g = [folder |-> f.folder, snapshot |-> f.snapshot, cut |-> f.cut, end |-> f.end,
           queue |-> q, bundles |-> f.bundles \cup {c.id}, old |-> f.old, torn |-> f.torn]
  <2>1. f = [folder |-> f.folder, snapshot |-> f.snapshot, cut |-> f.cut, end |-> f.end,
             queue |-> f.queue, bundles |-> f.bundles, old |-> f.old, torn |-> f.torn]
    BY <1>1 DEF Stored
  <2>2. g = [f EXCEPT !.bundles = f.bundles \cup {c.id}, !.queue = q]
    BY DEF Artifacts!Queued
  <2> HIDE DEF q, g
  <2> QED BY <2>1, <2>2
<1>6. u = [sess |-> v.sess, ended |-> v.ended, recycling |-> v.recycling, taken |-> v.taken,
           preserved |-> v.preserved, made |-> m, uploaded |-> v.uploaded,
           registered |-> v.registered, excused |-> v.excused]
  <2>1. v = [sess |-> v.sess, ended |-> v.ended, recycling |-> v.recycling, taken |-> v.taken,
             preserved |-> v.preserved, made |-> v.made, uploaded |-> v.uploaded,
             registered |-> v.registered, excused |-> v.excused]
    BY <1>1 DEF Outside
  <2>2. u = [v EXCEPT !.made = m]
    BY DEF Artifacts!Made
  <2> HIDE DEF m, u
  <2> QED BY <2>1, <2>2
<1>7. z = [active |-> y.active, captures |-> y.captures \ {c}, drain |-> y.drain]
  BY <1>1
<1> HIDE DEF q, m, g, u, z
<1>8. Stored(g)
  <2>1. c.id \in ArtifactIds
    BY <1>2 DEF Capture
  <2>2. g.queue = q /\ DOMAIN q = DOMAIN f.queue \cup {c.id}
    BY <1>3, <1>5
  <2> QED BY <1>1, <1>3, <1>5, <2>1, <2>2 DEF Stored
<1>9. Outside(u)
  BY <1>1, <1>4, <1>6 DEF Outside
<1>10. Sessions(z, g, u)
  BY <1>1, <1>5, <1>6, <1>7 DEF Sessions
<1>11. CapturesSound(z, g, u)
  <2>1. ASSUME NEW e \in y.captures \ {c} PROVE CaptureSound(e, g, u)
    <3>1. CaptureSound(e, f, v) /\ e.id # c.id
      BY <1>1 DEF CapturesSound
    <3> QED BY <1>4, <1>5, <1>6, <3>1 DEF CaptureSound
  <2> QED BY <1>1, <1>7, <2>1 DEF CapturesSound
<1>12. QueueSound(g, u)
  <2>1. ASSUME NEW id \in DOMAIN q
        PROVE  /\ id \in DOMAIN m /\ (q[id].print # None => q[id].print.end = m[id].end)
               /\ (~q[id].own => id \in v.excused)
    <3>1. CASE id = c.id
      BY <1>2, <1>3, <1>4, <3>1 DEF CaptureSound
    <3>2. CASE id # c.id
      <4>1. id \in DOMAIN f.queue
        BY <1>3, <3>2
      <4> QED BY <1>1, <1>3, <1>4, <3>2, <4>1 DEF QueueSound
    <3> QED BY <3>1, <3>2
  <2> QED BY <1>1, <1>5, <1>6, <2>1 DEF QueueSound
<1>13. Kept(g, u)
  <2>1. ASSUME NEW id \in DOMAIN m, m[id].sess # None
        PROVE  \A shot \in m[id].files : shot[1] >= m[id].sess
    <3>1. CASE id = c.id
      BY <1>2, <1>4, <2>1, <3>1 DEF CaptureSound
    <3>2. CASE id # c.id
      <4>1. id \in DOMAIN v.made
        BY <1>4, <3>2
      <4> QED BY <1>1, <1>4, <2>1, <4>1 DEF Kept
    <3> QED BY <3>1, <3>2
  <2>2. f.cut = 0 \/ \E id \in v.uploaded : m[id].end = f.cut
    BY <1>1, <1>4 DEF Kept, Outside
  <2> QED BY <1>5, <1>6, <2>1, <2>2 DEF Kept
<1>14. Rules(z, g, u)
  BY <1>7, <1>8, <1>9, <1>10, <1>11, <1>12, <1>13 DEF Rules
<1> QED BY <1>3, <1>5, <1>6, <1>7, <1>14 DEF g, u, z

LEMMA CompleteStep == ASSUME ArtifactsInv, Artifacts!Complete PROVE Delivers
<1> DEFINE y == artifacts  f == artifactFiles  v == artifactWorld
           session == Artifacts!Recovered(y, f)
<1>1. /\ Rules(y, f, v) /\ Stored(f) /\ Outside(v) /\ Sessions(y, f, v)
      /\ CapturesSound(y, f, v)
      /\ y = [active |-> y.active, captures |-> y.captures, drain |-> y.drain]
  BY DEF ArtifactsInv, Rules
<1>2. PICK k \in 1 .. MaxSessions, named \in BOOLEAN, id \in Artifacts!Unused :
        LET c == [id |-> id, stage |-> "settling",
                  sess |-> Artifacts!Correlated(IF named THEN k ELSE None, session),
                  base |-> IF session = None THEN None ELSE session.base,
                  files |-> {}, skipped |-> FALSE, print |-> None, end |-> 0]
        IN  /\ k \in {v.sess, v.sess - 1}
            /\ y' = [y EXCEPT !.active = None, !.captures = @ \cup {c}]
            /\ v' = IF k = v.sess THEN [v EXCEPT !.ended = TRUE, !.recycling = FALSE] ELSE v
            /\ f' = f /\ manager' = manager /\ manager = "shots"
  BY DEF Artifacts!Complete
<1> DEFINE c == [id |-> id, stage |-> "settling",
                 sess |-> Artifacts!Correlated(IF named THEN k ELSE None, session),
                 base |-> IF session = None THEN None ELSE session.base,
                 files |-> {}, skipped |-> FALSE, print |-> None, end |-> 0]
<1>3. session \in {None} \cup Session /\ (session # None => session.sess <= v.sess)
      /\ v.sess \in Int /\ k <= v.sess
  BY <1>1, <1>2 DEF Artifacts!Recovered, Sessions, Stored, Outside
<1>4. c.sess \in Customer /\ (c.sess # None => c.sess <= v.sess)
      /\ c.base \in {None} \cup SUBSET Shots
  <2> HIDE DEF session
  <2>1. CASE named
    BY <1>3, <2>1 DEF Artifacts!Correlated, Customer, Session
  <2>2. CASE ~named
    BY <1>3, <2>2 DEF Artifacts!Correlated, Customer, Session
  <2> QED BY <2>1, <2>2
<1>5. ASSUME NEW shot \in f.folder, c.sess # None, shot[1] < c.sess
      PROVE  c.base # None /\ shot \in c.base
  <2>1. shot[1] \in Int /\ shot[1] < v.sess
    BY <1>1, <1>3, <1>4, <1>5, ArtifactAssumption
    DEF Stored, Shots, Artifacts!Shots, Customer
  <2>2. f.snapshot # None /\ shot \in f.snapshot.base
    BY <1>1, <2>1 DEF Sessions
  <2>3. session = f.snapshot
    BY <1>1, <2>2 DEF Artifacts!Recovered, Sessions
  <2>4. session.base \in SUBSET Shots
    BY <1>3, <2>2, <2>3 DEF Session
  <2> QED BY <2>2, <2>3, <2>4, NoneFacts
<1>6. id \in ArtifactIds \ DOMAIN v.made /\ \A e \in y.captures : e.id # id
  BY <1>2 DEF Artifacts!Unused
<1>7. /\ c.id = id /\ c.stage = "settling" /\ c.print = None
      /\ c = [id |-> c.id, stage |-> c.stage, sess |-> c.sess, base |-> c.base,
              files |-> {}, skipped |-> FALSE, print |-> None, end |-> 0]
  OBVIOUS
<1>8. y' = [active |-> None, captures |-> y.captures \cup {c}, drain |-> y.drain]
  BY <1>1, <1>2
<1> HIDE DEF c, session
<1>9. c \in Capture
  <2> DEFINE i == c.id  s1 == c.sess  b == c.base
  <2>1. i \in ArtifactIds /\ s1 \in Customer /\ b \in {None} \cup SUBSET Shots
    BY <1>4, <1>6, <1>7
  <2>2. c = [id |-> i, stage |-> "settling", sess |-> s1, base |-> b,
             files |-> {}, skipped |-> FALSE, print |-> None, end |-> 0]
    BY <1>7
  <2> HIDE DEF i, s1, b
  <2> QED BY <2>1, <2>2 DEF Capture, Fingerprint
<1>10. CaptureSound(c, f, v)
  BY <1>2, <1>4, <1>5, <1>6, <1>7 DEF CaptureSound
<1>11. Rules(y', f, v)
  BY <1>1, <1>6, <1>7, <1>8, <1>9, <1>10, CapturesKeep DEF CapturesSound
<1>12. Rules(y', f, v')
  <2>1. PICK u : u = v'
    OBVIOUS
  <2>2. CASE k = v.sess
    <3>1. u = [sess |-> v.sess, ended |-> TRUE, recycling |-> FALSE, taken |-> v.taken,
               preserved |-> v.preserved, made |-> v.made, uploaded |-> v.uploaded,
               registered |-> v.registered, excused |-> v.excused]
      BY <1>1, <1>2, <2>1, <2>2 DEF Outside
    <3>2. PICK z : z = y'
      OBVIOUS
    <3>3. z.active = None
      BY <1>8, <3>2
    <3>4. Sessions(z, f, u)
      BY <1>11, <3>1, <3>2, <3>3 DEF Rules, Sessions
    <3>5. CapturesSound(z, f, u) /\ QueueSound(f, u) /\ Kept(f, u) /\ Outside(u)
      BY <1>1, <1>11, <3>1, <3>2
      DEF Rules, CapturesSound, CaptureSound, QueueSound, Kept, Outside
    <3>6. Rules(z, f, u)
      BY <1>11, <3>2, <3>4, <3>5 DEF Rules
    <3> QED BY <2>1, <3>2, <3>6
  <2>3. CASE k # v.sess
    BY <1>2, <1>11, <2>3
  <2> QED BY <2>2, <2>3
<1>13. v'.uploaded = v.uploaded /\ v'.registered = v.registered /\ v'.excused = v.excused
  BY <1>1, <1>2 DEF Outside
<1> QED BY <1>2, <1>8, <1>12, <1>13, WorldGoes

LEMMA SettleStep == ASSUME ArtifactsInv, Artifacts!Settle PROVE Delivers
<1> DEFINE y == artifacts  f == artifactFiles  v == artifactWorld
<1>1. /\ Rules(y, f, v) /\ Stored(f) /\ Outside(v) /\ CapturesSound(y, f, v)
      /\ y = [active |-> y.active, captures |-> y.captures, drain |-> y.drain]
  BY DEF ArtifactsInv, Rules
<1> SUFFICES ASSUME NEW c \in y.captures, NEW ok \in BOOLEAN,
                    NEW changed \in Artifacts!Changed(f, c),
                    NEW files \in Artifacts!Selections(changed),
                    c.stage = "settling", UNCHANGED <<manager, v>>,
                    IF changed = {}
                    THEN /\ ok
                         /\ y' = [y EXCEPT !.captures = @ \ {c}]
                         /\ f' = Artifacts!FolderCleaned(Artifacts!SnapshotCleared(f))
                    ELSE /\ y' = [y EXCEPT !.captures = (@ \ {c}) \cup
                              (IF ok THEN {[c EXCEPT !.stage = "packing", !.files = files,
                                                     !.skipped = (files # changed)]} ELSE {})]
                         /\ UNCHANGED f
             PROVE  Delivers
  BY DEF Artifacts!Settle
<1>2. v' = v /\ manager' = manager
  OBVIOUS
<1>3. c \in Capture /\ CaptureSound(c, f, v) /\ files \subseteq changed /\ changed \subseteq f.folder
  BY <1>1, <1>2 DEF CapturesSound, Artifacts!Changed, Artifacts!Selections, Artifacts!kSubset
<1>4. ASSUME NEW C, C \subseteq y.captures
      PROVE  Rules([active |-> y.active, captures |-> C, drain |-> y.drain], f, v)
  BY <1>1, <1>4, CapturesKeep DEF CapturesSound
<1>5. CASE changed = {} \/ ~ok
  <2>1. y' = [active |-> y.active, captures |-> y.captures \ {c}, drain |-> y.drain]
    BY <1>1, <1>5
  <2>2. Rules(y', f, v)
    BY <1>4, <2>1
  <2>3. PICK g : g = f'
    OBVIOUS
  <2>4. CASE changed = {}
    <3>1. g = [folder |-> {}, snapshot |-> None, cut |-> f.cut, end |-> f.end,
               queue |-> f.queue, bundles |-> f.bundles, old |-> f.old, torn |-> f.torn]
      BY <1>1, <2>3, <2>4 DEF Stored, Artifacts!FolderCleaned, Artifacts!SnapshotCleared
    <3>2. Rules(y', g, v)
      BY <2>2, <3>1, FolderClears
    <3> QED BY <1>2, <2>1, <2>3, <3>1, <3>2, WorldGoes
  <2>5. CASE changed # {}
    BY <1>2, <2>1, <2>2, <2>5, WorldGoes
  <2> QED BY <2>4, <2>5
<1>6. CASE changed # {} /\ ok
  <2> DEFINE e == [c EXCEPT !.stage = "packing", !.files = files, !.skipped = (files # changed)]
             C == (y.captures \ {c}) \cup {e}
  <2>1. /\ e \in Capture /\ e.id = c.id /\ e.stage = "packing" /\ e.sess = c.sess
        /\ e.files = files /\ e.print = c.print /\ e.end = c.end
    <3>1. files \in SUBSET Shots /\ (files # changed) \in BOOLEAN
      BY <1>1, <1>3 DEF Stored
    <3> QED BY <1>3, <3>1 DEF Capture
  <2> HIDE DEF e
  <2>2. ASSUME c.sess # None, NEW shot \in files PROVE shot[1] >= c.sess
    <3>1. shot \in f.folder /\ shot[1] \in Int /\ c.sess \in Int
      BY <1>1, <1>3, <2>2 DEF Stored, Shots, Artifacts!Shots, Capture, Customer
    <3>2. ~(shot[1] < c.sess)
      <4>1. CASE c.base = None
        BY <1>2, <1>3, <2>2, <3>1, <4>1 DEF CaptureSound
      <4>2. CASE c.base # None
        <5>1. shot \notin c.base
          BY <1>2, <1>3, <2>2, <4>2 DEF Artifacts!Changed
        <5> QED BY <1>2, <1>3, <2>2, <3>1, <5>1 DEF CaptureSound
      <4> QED BY <4>1, <4>2
    <3> QED BY <3>1, <3>2
  <2>3. CaptureSound(e, f, v)
    BY <1>3, <2>1, <2>2 DEF CaptureSound
  <2>4. y' = [active |-> y.active, captures |-> C, drain |-> y.drain] /\ f' = f
    BY <1>1, <1>6 DEF e
  <2>5. /\ C \subseteq Capture /\ \A b \in C : CaptureSound(b, f, v)
        /\ \A b, o \in C : b.id = o.id => b = o
    BY <1>1, <2>1, <2>3 DEF CapturesSound
  <2>6. Rules(y', f, v)
    BY <1>1, <2>4, <2>5, CapturesKeep
  <2> QED BY <1>2, <2>4, <2>6, WorldGoes
<1> QED BY <1>5, <1>6

\* A bundle was made and its record queued: the drain starts.
LEMMA QueuedGoes ==
  ASSUME ArtifactsInv, manager' = manager, NEW c \in artifacts.captures, NEW z, NEW g,
         z = [artifacts EXCEPT !.captures = @ \ {c}],
         Rules(z, g, Artifacts!Made(artifactWorld, c)), z.drain = artifacts.drain,
         DOMAIN g.queue = DOMAIN artifactFiles.queue \cup {c.id},
         LET u == Artifacts!Made(artifactWorld, c)
         IN  /\ u.uploaded = artifactWorld.uploaded /\ u.registered = artifactWorld.registered
             /\ u.excused = artifactWorld.excused,
         artifactFiles' = g, artifactWorld' = Artifacts!Made(artifactWorld, c),
         artifacts' = Artifacts!DrainStarted(z, g)
  PROVE  Delivers
<1> DEFINE y == artifacts  f == artifactFiles  v == artifactWorld
           u == Artifacts!Made(artifactWorld, c)
<1>1. Draining(y, f, v) /\ c.id \in ArtifactIds /\ DOMAIN f.queue \subseteq ArtifactIds
  BY DEF ArtifactsInv, Rules, CapturesSound, Capture, Stored
<1> HIDE DEF u
<1>2. Draining(z, g, u)
  BY <1>1 DEF Draining, u
<1>3. z = [active |-> z.active, captures |-> z.captures, drain |-> z.drain]
  BY DEF Rules
<1>4. Drains(z, Artifacts!DrainStarted(z, g)) /\ Draining(Artifacts!DrainStarted(z, g), g, u)
  BY <1>2, <1>3, StartedFacts
<1>5. Rules(Artifacts!DrainStarted(z, g), g, u)
  BY <1>4, DrainKeeps DEF u
<1>6. Rules(y, f, v)'
  BY <1>5, RulesPrimed DEF u
<1>7. Draining(y, f, v)'
  <2>1. Draining(y', f', v')
    BY <1>4 DEF u
  <2> QED BY <2>1 DEF Draining
<1>8. OwedFlows(f, v, f', v')
  BY <1>1 DEF OwedFlows
<1> QED BY <1>6, <1>7, <1>8 DEF Delivers, ArtifactsInv

\* A capture that failed is over.
LEMMA CaptureOver ==
  ASSUME ArtifactsInv, manager' = manager, NEW c,
         artifacts' = [artifacts EXCEPT !.captures = @ \ {c}],
         artifactFiles' = artifactFiles, artifactWorld' = artifactWorld
  PROVE  Delivers
<1> DEFINE y == artifacts  f == artifactFiles  v == artifactWorld
<1>1. /\ Rules(y, f, v) /\ CapturesSound(y, f, v)
      /\ y = [active |-> y.active, captures |-> y.captures, drain |-> y.drain]
  BY DEF ArtifactsInv, Rules
<1>2. y' = [active |-> y.active, captures |-> y.captures \ {c}, drain |-> y.drain]
  BY <1>1
<1>3. Rules(y', f, v)
  BY <1>1, <1>2, CapturesKeep DEF CapturesSound
<1> QED BY <1>2, <1>3, WorldGoes

LEMMA PackStep == ASSUME ArtifactsInv, Artifacts!Pack PROVE Delivers
<1> DEFINE y == artifacts  f == artifactFiles  v == artifactWorld
<1> SUFFICES ASSUME NEW c \in y.captures, NEW ok \in BOOLEAN, c.stage = "packing",
                    UNCHANGED manager,
                    LET z == [y EXCEPT !.captures = @ \ {c}]
                        h == Artifacts!FolderCleaned(Artifacts!SourcesCleaned(
                               Artifacts!SnapshotCleared(Artifacts!Queued(f, c)), c.files))
                    IN  IF ok THEN /\ f' = h /\ y' = Artifacts!DrainStarted(z, h)
                                   /\ v' = Artifacts!Made(v, c)
                        ELSE y' = z /\ UNCHANGED <<f, v>>
             PROVE  Delivers
  BY DEF Artifacts!Pack
<1> DEFINE z == [y EXCEPT !.captures = @ \ {c}]
           q == Artifacts!Queued(f, c)
           g == Artifacts!FolderCleaned(
                  Artifacts!SourcesCleaned(Artifacts!SnapshotCleared(q), c.files))
           u == Artifacts!Made(v, c)
<1>1. Rules(y, f, v)
  BY DEF ArtifactsInv
<1>2. CASE ok
  <2>1. /\ Rules(z, q, u) /\ z.drain = y.drain /\ DOMAIN q.queue = DOMAIN f.queue \cup {c.id}
        /\ u.uploaded = v.uploaded /\ u.registered = v.registered /\ u.excused = v.excused
    BY <1>1, BundleQueued
  <2> HIDE DEF q, z, u
  <2>2. q = [folder |-> q.folder, snapshot |-> q.snapshot, cut |-> q.cut, end |-> q.end,
             queue |-> q.queue, bundles |-> q.bundles, old |-> q.old, torn |-> q.torn]
    BY <2>1 DEF Rules, Stored
  <2>3. g = [folder |-> {}, snapshot |-> None, cut |-> q.cut, end |-> q.end,
             queue |-> q.queue, bundles |-> q.bundles, old |-> q.old, torn |-> q.torn]
    <3> DEFINE o == Artifacts!SnapshotCleared(q)
               k == Artifacts!SourcesCleaned(o, c.files)
    <3>1. o = [folder |-> q.folder, snapshot |-> None, cut |-> q.cut, end |-> q.end,
               queue |-> q.queue, bundles |-> q.bundles, old |-> q.old, torn |-> q.torn]
      BY <2>2 DEF Artifacts!SnapshotCleared
    <3> HIDE DEF o
    <3>2. k = [folder |-> q.folder \ c.files, snapshot |-> None, cut |-> q.cut,
               end |-> q.end, queue |-> q.queue, bundles |-> q.bundles, old |-> q.old,
               torn |-> q.torn]
      BY <3>1 DEF Artifacts!SourcesCleaned
    <3> HIDE DEF k
    <3>3. g = Artifacts!FolderCleaned(k)
      BY DEF k, o
    <3> HIDE DEF g
    <3> QED BY <3>2, <3>3 DEF Artifacts!FolderCleaned
  <2>4. f' = g /\ y' = Artifacts!DrainStarted(z, g) /\ v' = u
    BY <1>2 DEF q, z, u
  <2> HIDE DEF g
  <2>5. Rules(z, g, u) /\ g.queue = q.queue
    BY <2>1, <2>3, FolderClears
  <2> QED BY <2>1, <2>4, <2>5, QueuedGoes DEF z, u
<1>3. CASE ~ok
  BY <1>3, CaptureOver
<1> QED BY <1>2, <1>3

LEMMA CompressStep == ASSUME ArtifactsInv, Artifacts!Compress PROVE Delivers
<1> DEFINE y == artifacts  f == artifactFiles  v == artifactWorld
<1> SUFFICES ASSUME NEW c \in y.captures, NEW ok \in BOOLEAN, UNCHANGED manager,
                    manager = "logs",
                    LET z == [y EXCEPT !.captures = @ \ {c}]
                        h == Artifacts!Queued(f, c)
                    IN  IF ok THEN /\ f' = h /\ y' = Artifacts!DrainStarted(z, h)
                                   /\ v' = Artifacts!Made(v, c)
                        ELSE y' = z /\ UNCHANGED <<f, v>>
             PROVE  Delivers
  BY DEF Artifacts!Compress
<1> DEFINE z == [y EXCEPT !.captures = @ \ {c}]
           q == Artifacts!Queued(f, c)
           u == Artifacts!Made(v, c)
<1>1. Rules(y, f, v)
  BY DEF ArtifactsInv
<1>2. CASE ok
  <2>1. c.stage = "packing"
    BY <1>1 DEF Rules, CapturesSound, CaptureSound, Capture
  <2>2. /\ Rules(z, q, u) /\ z.drain = y.drain /\ DOMAIN q.queue = DOMAIN f.queue \cup {c.id}
        /\ u.uploaded = v.uploaded /\ u.registered = v.registered /\ u.excused = v.excused
    BY <1>1, <2>1, BundleQueued
  <2> HIDE DEF q, z, u
  <2>3. f' = q /\ y' = Artifacts!DrainStarted(z, q) /\ v' = u
    BY <1>2 DEF q, z, u
  <2> QED BY <2>2, <2>3, QueuedGoes DEF z, u
<1>3. CASE ~ok
  BY <1>3, CaptureOver
<1> QED BY <1>2, <1>3

\* The log of the files grows.
LEMMA GrownKeeps ==
  ASSUME NEW y, NEW f, NEW v, Rules(y, f, v)
  PROVE  LET g == [f EXCEPT !.end = @ + 1] IN Rules(y, g, v) /\ g.queue = f.queue
<1> DEFINE g == [f EXCEPT !.end = @ + 1]
<1>1. Stored(f)
  BY DEF Rules
<1>2. g = [folder |-> f.folder, snapshot |-> f.snapshot, cut |-> f.cut, end |-> f.end + 1,
           queue |-> f.queue, bundles |-> f.bundles, old |-> f.old, torn |-> f.torn]
  BY <1>1 DEF Stored
<1> HIDE DEF g
<1>3. Stored(g)
  BY <1>1, <1>2 DEF Stored
<1>4. Sessions(y, g, v) /\ CapturesSound(y, g, v)
  BY <1>2 DEF Rules, Sessions, CapturesSound, CaptureSound
<1>5. QueueSound(g, v) /\ Kept(g, v)
  BY <1>2 DEF Rules, QueueSound, Kept
<1>6. Rules(y, g, v) /\ g.queue = f.queue
  BY <1>2, <1>3, <1>4, <1>5 DEF Rules
<1> QED BY <1>6 DEF g

LEMMA WriteStep == ASSUME ArtifactsInv, Artifacts!Write PROVE Delivers
<1> DEFINE g == [artifactFiles EXCEPT !.end = @ + 1]
<1>1. /\ artifactFiles' = g /\ artifacts' = artifacts /\ artifactWorld' = artifactWorld
      /\ manager' = manager
  BY DEF Artifacts!Write
<1>2. Rules(artifacts, g, artifactWorld) /\ g.queue = artifactFiles.queue
  BY GrownKeeps DEF ArtifactsInv
<1> HIDE DEF g
<1> QED BY <1>1, <1>2, WorldGoes

LEMMA CollectStep == ASSUME ArtifactsInv, Artifacts!Collect PROVE Delivers
<1> DEFINE y == artifacts  f == artifactFiles  v == artifactWorld
           g == [f EXCEPT !.end = @ + 1]
           print == [cut |-> f.cut, end |-> f.end]
<1>1. /\ Rules(y, f, v) /\ Stored(f) /\ Outside(v) /\ CapturesSound(y, f, v)
      /\ y = [active |-> y.active, captures |-> y.captures, drain |-> y.drain]
  BY DEF ArtifactsInv, Rules
<1>2. PICK k \in {1, None}, id \in Artifacts!Unused, grows \in BOOLEAN :
        /\ y' = [y EXCEPT !.captures = @ \cup
                  {[id |-> id, stage |-> "packing", sess |-> k, base |-> None, files |-> {},
                    skipped |-> FALSE, end |-> f.end,
                    print |-> IF grows \/ f.cut = f.end THEN None
                              ELSE [cut |-> f.cut, end |-> f.end]]}]
        /\ f' = IF grows THEN [f EXCEPT !.end = @ + 1] ELSE f
        /\ UNCHANGED <<manager, v>>
  BY DEF Artifacts!Collect
<1> DEFINE p == IF grows \/ f.cut = f.end THEN None ELSE print
           c == [id |-> id, stage |-> "packing", sess |-> k, base |-> None, files |-> {},
                 skipped |-> FALSE, end |-> f.end, print |-> p]
<1>3. p \in Fingerprint /\ (p # None => p.end = f.end)
  BY <1>1 DEF Stored, Fingerprint
<1>4. y' = [active |-> y.active, captures |-> y.captures \cup {c}, drain |-> y.drain]
  BY <1>1, <1>2
<1> HIDE DEF p
<1>5. id \in ArtifactIds \ DOMAIN v.made /\ \A e \in y.captures : e.id # id
  BY <1>2 DEF Artifacts!Unused
<1>6. c \in Capture
  BY <1>1, <1>3, <1>5 DEF Capture, Customer, Stored
<1>7. c.id = id /\ c.stage = "packing" /\ c.files = {} /\ c.print = p /\ c.end = f.end
  OBVIOUS
<1> HIDE DEF c
<1>8. CaptureSound(c, f, v)
  BY <1>3, <1>5, <1>7 DEF CaptureSound
<1>9. Rules(y', f, v)
  BY <1>1, <1>4, <1>5, <1>6, <1>7, <1>8, CapturesKeep DEF CapturesSound
<1>10. Rules(y', g, v) /\ g.queue = f.queue
  BY <1>9, GrownKeeps
<1>11. f' \in {f, g} /\ v' = v /\ manager' = manager
  BY <1>2
<1> HIDE DEF g
<1>12. Rules(y', f', v') /\ f'.queue = f.queue
  BY <1>9, <1>10, <1>11
<1> QED BY <1>4, <1>11, <1>12, WorldGoes

-----------------------------------------------------------------------------
(* Faults.                                                                 *)

\* The manager starts again and some files have gone that were given up.
LEMMA FreshGoes ==
  ASSUME ArtifactsInv, manager' = manager, artifacts' = Artifacts!Fresh,
         Rules(artifacts, artifactFiles', artifactWorld'),
         OwedFlows(artifactFiles, artifactWorld, artifactFiles', artifactWorld')
  PROVE  Delivers
<1> DEFINE f == artifactFiles  v == artifactWorld
<1>1. Rules(Artifacts!Fresh, f', v') /\ Draining(Artifacts!Fresh, f', v')
  BY FreshKeeps
<1>2. Rules(artifacts, f, v)'
  BY <1>1, RulesPrimed
<1>3. Draining(artifacts, f, v)'
  <2>1. Draining(artifacts', f', v')
    BY <1>1
  <2> QED BY <2>1 DEF Draining
<1> QED BY <1>2, <1>3 DEF Delivers, ArtifactsInv

LEMMA RestartStep == ASSUME ArtifactsInv, Artifacts!Restart PROVE Delivers
<1> DEFINE y == artifacts  f == artifactFiles  v == artifactWorld
<1>1. /\ Rules(y, f, v) /\ Stored(f) /\ Outside(v) /\ f.old \subseteq v.excused
  BY DEF ArtifactsInv, Rules, QueueSound
<1>2. PICK preserve \in BOOLEAN :
        /\ y' = Artifacts!Fresh /\ f' = Artifacts!StartupCleaned(f, preserve)
        /\ v' = IF preserve /\ v.sess > 0 /\ ~v.ended
                THEN [v EXCEPT !.recycling = TRUE, !.preserved = f.folder] ELSE v
        /\ manager' = manager
  BY DEF Artifacts!Restart
<1>3. Lessened(f, f') /\ DOMAIN f.queue \ f.old \subseteq DOMAIN f'.queue
  BY <1>1, <1>2, StartupFacts
<1>4. Gains(v, v') /\ v'.registered = v.registered /\ v'.excused = v.excused
  <2>1. v' = [sess |-> v.sess, ended |-> v.ended, recycling |-> v'.recycling,
              taken |-> v.taken, preserved |-> v'.preserved, made |-> v.made,
              uploaded |-> v.uploaded, registered |-> v.registered, excused |-> v.excused]
    BY <1>1, <1>2 DEF Outside
  <2>2. PICK u : u = v'
    OBVIOUS
  <2>3. Gains(v, u)
    BY <1>1, <2>1, <2>2 DEF Gains, Outside
  <2> QED BY <2>1, <2>2, <2>3
<1>5. Rules(y, f', v')
  BY <1>1, <1>3, <1>4, LessKeeps, GainKeeps
<1>6. OwedFlows(f, v, f', v')
  BY <1>1, <1>3, <1>4 DEF OwedFlows, Lessened
<1> QED BY <1>2, <1>5, <1>6, FreshGoes

\* What else is given up, and what of it is old.
LEMMA GivenUp ==
  ASSUME NEW v, Outside(v), NEW S
  PROVE  LET u == [v EXCEPT !.excused = @ \cup S]
         IN  /\ Gains(v, u) /\ u.registered = v.registered /\ u.excused = v.excused \cup S
             /\ u.uploaded = v.uploaded
<1> DEFINE e == v.excused \cup S
<1>1. v = [sess |-> v.sess, ended |-> v.ended, recycling |-> v.recycling, taken |-> v.taken,
           preserved |-> v.preserved, made |-> v.made, uploaded |-> v.uploaded,
           registered |-> v.registered, excused |-> v.excused]
  BY DEF Outside
<1>2. [v EXCEPT !.excused = @ \cup S] = [v EXCEPT !.excused = e]
  OBVIOUS
<1>3. v.excused \subseteq e
  OBVIOUS
<1> HIDE DEF e
<1>4. [v EXCEPT !.excused = e] =
        [sess |-> v.sess, ended |-> v.ended, recycling |-> v.recycling, taken |-> v.taken,
         preserved |-> v.preserved, made |-> v.made, uploaded |-> v.uploaded,
         registered |-> v.registered, excused |-> e]
  BY <1>1
<1> QED BY <1>2, <1>3, <1>4 DEF Gains, Outside, e

LEMMA AgeStep == ASSUME ArtifactsInv, Artifacts!Age PROVE Delivers
<1> DEFINE y == artifacts  f == artifactFiles  v == artifactWorld
<1>1. Rules(y, f, v) /\ Draining(y, f, v) /\ Stored(f) /\ Outside(v)
  BY DEF ArtifactsInv, Rules
<1>2. PICK id \in f.bundles \ f.old :
        /\ f' = [f EXCEPT !.old = @ \cup {id}] /\ v' = [v EXCEPT !.excused = @ \cup {id}]
        /\ y' = y /\ manager' = manager
  BY DEF Artifacts!Age
<1>3. /\ Gains(v, v') /\ v'.registered = v.registered /\ v'.excused = v.excused \cup {id}
      /\ v'.uploaded = v.uploaded
  BY <1>1, <1>2, GivenUp
<1>4. id \in DOMAIN f.queue
  BY <1>1, <1>2 DEF Stored
<1> DEFINE g == [f EXCEPT !.old = @ \cup {id}]
<1>5. g = [folder |-> f.folder, snapshot |-> f.snapshot, cut |-> f.cut, end |-> f.end,
           queue |-> f.queue, bundles |-> f.bundles, old |-> f.old \cup {id},
           torn |-> f.torn]
  BY <1>1 DEF Stored
<1> HIDE DEF g
<1>6. PICK u : u = v'
  OBVIOUS
<1>7. Rules(y, f, u)
  BY <1>1, <1>3, <1>6, GainKeeps
<1>8. Rules(y, g, u)
  <2>1. Stored(g)
    BY <1>1, <1>5 DEF Stored
  <2>2. Sessions(y, g, u) /\ CapturesSound(y, g, u)
    BY <1>5, <1>7 DEF Rules, Sessions, CapturesSound, CaptureSound
  <2>3. QueueSound(g, u) /\ Kept(g, u)
    BY <1>3, <1>5, <1>6, <1>7 DEF Rules, QueueSound, Kept
  <2> QED BY <1>7, <2>1, <2>2, <2>3 DEF Rules
<1>9. f' = g
  BY <1>2 DEF g
<1>10. Rules(y, f, v)'
  BY <1>2, <1>6, <1>8, <1>9, RulesPrimed
<1>11. Draining(y, f, v)'
  BY <1>1, <1>2, <1>3, <1>5, <1>9 DEF Draining
<1>12. OwedFlows(f, v, f', v')
  BY <1>1, <1>3, <1>4, <1>5, <1>9 DEF OwedFlows
<1> QED BY <1>10, <1>11, <1>12 DEF Delivers, ArtifactsInv

LEMMA TearStep == ASSUME ArtifactsInv, Artifacts!Tear PROVE Delivers
<1> DEFINE y == artifacts  f == artifactFiles  v == artifactWorld
<1>1. /\ Rules(y, f, v) /\ Stored(f) /\ Outside(v) /\ f.old \subseteq v.excused
  BY DEF ArtifactsInv, Rules, QueueSound
<1>2. PICK id \in DOMAIN f.queue \ f.torn :
        /\ y' = Artifacts!Fresh
        /\ f' = Artifacts!StartupCleaned([f EXCEPT !.torn = @ \cup {id}], FALSE)
        /\ v' = [v EXCEPT !.excused = @ \cup {id}] /\ manager' = manager
  BY DEF Artifacts!Tear
<1> DEFINE g == [f EXCEPT !.torn = @ \cup {id}]
<1>3. g = [folder |-> f.folder, snapshot |-> f.snapshot, cut |-> f.cut, end |-> f.end,
           queue |-> f.queue, bundles |-> f.bundles, old |-> f.old,
           torn |-> f.torn \cup {id}]
  BY <1>1 DEF Stored
<1> HIDE DEF g
<1>4. Lessened(f, g) /\ g.queue = f.queue /\ g.old = f.old /\ Stored(g)
  BY <1>1, <1>3 DEF Stored, Lessened
<1>5. Lessened(g, f') /\ DOMAIN g.queue \ g.old \subseteq DOMAIN f'.queue
  BY <1>2, <1>4, StartupFacts DEF g
<1>6. Lessened(f, f')
  BY <1>4, <1>5, LessTransitive
<1>7. /\ Gains(v, v') /\ v'.registered = v.registered /\ v'.excused = v.excused \cup {id}
  BY <1>1, <1>2, GivenUp
<1>8. Rules(y, f', v')
  BY <1>1, <1>6, <1>7, LessKeeps, GainKeeps
<1>9. OwedFlows(f, v, f', v')
  BY <1>1, <1>2, <1>4, <1>5, <1>6, <1>7 DEF OwedFlows, Lessened
<1> QED BY <1>2, <1>8, <1>9, FreshGoes

LEMMA CloneStep == ASSUME ArtifactsInv, Artifacts!Clone PROVE Delivers
<1> DEFINE y == artifacts  f == artifactFiles  v == artifactWorld
           g == Artifacts!StartupCleaned(f, FALSE)
           q == [id \in DOMAIN g.queue |-> [g.queue[id] EXCEPT !.own = FALSE]]
<1>1. /\ Rules(y, f, v) /\ Stored(f) /\ Outside(v) /\ f.old \subseteq v.excused
  BY DEF ArtifactsInv, Rules, QueueSound
<1>2. /\ y' = Artifacts!Fresh /\ manager' = manager
      /\ f' = [g EXCEPT !.queue = [id \in DOMAIN @ |-> [@[id] EXCEPT !.own = FALSE]]]
      /\ v' = [v EXCEPT !.excused = @ \cup DOMAIN f.queue]
  BY DEF Artifacts!Clone
<1>3. Lessened(f, g)
  BY <1>1, StartupFacts
<1>4. /\ Gains(v, v') /\ v'.registered = v.registered
      /\ v'.excused = v.excused \cup DOMAIN f.queue
  BY <1>1, <1>2, GivenUp
<1> HIDE DEF g
<1>5. PICK u : u = v'
  OBVIOUS
<1>6. Rules(y, g, u) /\ Stored(g)
  BY <1>1, <1>3, <1>4, <1>5, LessKeeps, GainKeeps DEF Lessened
<1>7. /\ q \in [DOMAIN g.queue -> Record]
      /\ \A id \in DOMAIN g.queue : q[id].print = g.queue[id].print
  <2>1. ASSUME NEW id \in DOMAIN g.queue
        PROVE  /\ [g.queue[id] EXCEPT !.own = FALSE] \in Record
               /\ [g.queue[id] EXCEPT !.own = FALSE].print = g.queue[id].print
    <3>1. g.queue[id] \in Record
      BY <1>6 DEF Stored
    <3> QED BY <3>1 DEF Record
  <2> QED BY <2>1
<1>8. f' = [folder |-> g.folder, snapshot |-> g.snapshot, cut |-> g.cut, end |-> g.end,
            queue |-> q, bundles |-> g.bundles, old |-> g.old, torn |-> g.torn]
  <2>1. f' = [g EXCEPT !.queue = q]
    BY <1>2
  <2> HIDE DEF q
  <2> QED BY <1>6, <2>1 DEF Stored
<1>9. PICK h : h = f'
  OBVIOUS
<1> HIDE DEF q
<1>10. Rules(y, h, u)
  <2>1. Stored(h)
    BY <1>6, <1>7, <1>8, <1>9 DEF Stored
  <2>2. Sessions(y, h, u) /\ CapturesSound(y, h, u)
    BY <1>6, <1>8, <1>9 DEF Rules, Sessions, CapturesSound, CaptureSound
  <2>3. DOMAIN q \subseteq u.excused
    BY <1>3, <1>4, <1>5, <1>7 DEF Lessened
  <2>4. QueueSound(h, u) /\ Kept(h, u)
    BY <1>6, <1>7, <1>8, <1>9, <2>3 DEF Rules, QueueSound, Kept
  <2> QED BY <1>6, <2>1, <2>2, <2>4 DEF Rules
<1>11. OwedFlows(f, v, f', v')
  BY <1>1, <1>3, <1>4, <1>7, <1>8 DEF OwedFlows, Lessened
<1> QED BY <1>2, <1>5, <1>9, <1>10, <1>11, FreshGoes

LEMMA ArtifactsStep == ASSUME ArtifactsInv, Artifacts!Next PROVE Delivers
BY DrainStep, NextRecordStep, IdentifiedStep, CopiedStep, HeadedStep, RegisteredStep,
   ConnectStep, ShootStep, AttachStep, CompleteStep, SettleStep, PackStep, WriteStep,
   CollectStep, CompressStep, RestartStep, AgeStep, TearStep, CloneStep
DEF Artifacts!Next

LEMMA ArtifactsStart ==
  ASSUME Artifacts!Init PROVE ArtifactsInv /\ Artifacts!Delivery!Init
<1> DEFINE y == artifacts  f == artifactFiles  v == artifactWorld
<1>1. /\ y = [active |-> None, captures |-> {}, drain |-> None]
      /\ f = [folder |-> {}, snapshot |-> None, cut |-> 0, end |-> 0,
              queue |-> <<>>, bundles |-> {}, old |-> {}, torn |-> {}]
      /\ v = [sess |-> 0, ended |-> FALSE, recycling |-> FALSE, taken |-> {},
              preserved |-> {}, made |-> <<>>, uploaded |-> {}, registered |-> {},
              excused |-> {}]
  BY DEF Artifacts!Init, Artifacts!Fresh
<1>2. DOMAIN f.queue = {} /\ DOMAIN v.made = {}
  BY <1>1
<1>3. Stored(f)
  BY <1>1, <1>2 DEF Stored
<1>4. Outside(v)
  BY <1>1, <1>2, ArtifactAssumption DEF Outside
<1>5. Sessions(y, f, v) /\ CapturesSound(y, f, v) /\ QueueSound(f, v) /\ Kept(f, v)
  BY <1>1, <1>2 DEF Sessions, CapturesSound, QueueSound, Kept
<1>6. Rules(y, f, v) /\ Draining(y, f, v)
  BY <1>1, <1>3, <1>4, <1>5 DEF Rules, Draining
<1>7. Artifacts!Delivery!Init
  BY <1>1, <1>2 DEF Artifacts!Delivery!Init
<1> QED BY <1>6, <1>7 DEF ArtifactsInv

-----------------------------------------------------------------------------
(* Side by side.                                                           *)

LEMMA EitherSteps ==
  ASSUME Inv, ArtifactsInv, [EitherNext]_eitherVars
  PROVE  /\ Inv' /\ ArtifactsInv'
         /\ [Artifacts!Delivery!Next]_<<DOMAIN artifactFiles.queue,
                                       artifactWorld.registered \cup artifactWorld.excused>>
<1>1. Inv'
  <2>1. [Next]_vars
    BY DEF EitherNext, eitherVars
  <2> QED BY <2>1, StepGoes DEF Goes
<1>2. CASE Artifacts!Next
  <2>1. Delivers
    BY <1>2, ArtifactsStep
  <2>2. Artifacts!Delivery!Next
    BY <2>1 DEF Delivers, OwedFlows, Artifacts!Delivery!Next, Artifacts!Delivery!Owe,
                Artifacts!Delivery!Deliver
  <2> QED BY <1>1, <2>1, <2>2 DEF Delivers
<1>3. CASE UNCHANGED artifactsVars
  <2>1. Rules(artifacts, artifactFiles, artifactWorld)'
    BY <1>3, RulesPrimed DEF ArtifactsInv, artifactsVars
  <2>2. Draining(artifacts, artifactFiles, artifactWorld)'
    BY <1>3 DEF ArtifactsInv, artifactsVars, Draining
  <2> QED BY <1>1, <1>3, <2>1, <2>2 DEF ArtifactsInv, artifactsVars
<1> QED BY <1>2, <1>3 DEF EitherNext, eitherVars

LEMMA EitherHolds == EitherSpec => [](Inv /\ ArtifactsInv)
<1>1. EitherInit => Inv /\ ArtifactsInv
  BY InitSound, ArtifactsStart DEF EitherInit, Inv
<1>2. Inv /\ ArtifactsInv /\ [EitherNext]_eitherVars => Inv' /\ ArtifactsInv'
  BY EitherSteps
<1>3. QED BY <1>1, <1>2, PTL DEF EitherSpec

\* What proves something is not lost or mixed up: the marker of a recycle stays while its
\* token is asked for, the customer reported as projected is the one on disk, no customer's
\* screenshots are bundled for a later one, though a session is attached late, replaced or
\* recovered, and a log is cut only where an uploaded bundle ends.
THEOREM EvidenceKept == EitherSpec => []EvidenceIsKept
<1>1. Inv => MarkerStays /\ ProjectedIsWritten
  BY DEF Inv, Sound, ResetSound, MarkerStays, ProjectedIsWritten
<1>2. ArtifactsInv => Artifacts!NoEarlierShots /\ Artifacts!CutIsUploaded
  BY DEF ArtifactsInv, Rules, Kept, Artifacts!NoEarlierShots, Artifacts!CutIsUploaded
<1>3. QED BY <1>1, <1>2, EitherHolds, PTL DEF EvidenceIsKept

\* A bundle is owed until the control plane knows it or it is given up (expired, torn, of
\* another instance or of no session), over failed and late calls and restarts: the
\* artifacts implement AtLeastOnce.
THEOREM ArtifactsDelivered == EitherSpec => Artifacts!Delivered
<1>1. EitherInit => Artifacts!Delivery!Init
  BY ArtifactsStart DEF EitherInit
<1>2. Inv /\ ArtifactsInv /\ [EitherNext]_eitherVars =>
        [Artifacts!Delivery!Next]_<<DOMAIN artifactFiles.queue,
                                   artifactWorld.registered \cup artifactWorld.excused>>
  BY EitherSteps
<1>3. QED BY <1>1, <1>2, EitherHolds, PTL
          DEF EitherSpec, Artifacts!Delivered, Artifacts!Delivery!Spec

=============================================================================
