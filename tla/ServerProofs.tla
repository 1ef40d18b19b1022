----------------------------- MODULE ServerProofs -----------------------------
(***************************************************************************)
(* The server's invariants, for any values of its components' parameters.  *)
(* Each component's invariant is kept by its steps; a step of the server   *)
(* is one of its components', and a stutter of the others.                 *)
(***************************************************************************)
EXTENDS Server, FiniteSetTheorems, FunctionTheorems, WellFoundedInduction, TLAPS

-----------------------------------------------------------------------------
(* Keepalive: the pongs a dead socket misses are counted.                  *)

AliveInv ==
  /\ socket \in {"open", "dead", "closed"}
  /\ missed \in [Alive!Monitors -> Nat] /\ silent \in [Alive!Monitors -> Nat]
  /\ \A m \in Alive!Monitors :
       /\ missed[m] <= Alive!Limit(m)
       /\ socket # "dead" => silent[m] = 0
       /\ silent[m] <= missed[m]

LEMMA AliveInit == Alive!Init => AliveInv
BY KeepaliveAssumption DEF Alive!Init, AliveInv, Alive!Monitors, Alive!Limit

LEMMA AliveStep ==
  ASSUME AliveInv, [Alive!Next]_keepaliveVars
  PROVE  AliveInv'
<1> USE KeepaliveAssumption DEF AliveInv, Alive!Monitors, Alive!Limit
<1>1. ASSUME NEW by, Alive!Closed(by) PROVE AliveInv'
  BY <1>1 DEF Alive!Closed
<1>2. ASSUME NEW m \in Alive!Monitors, Alive!Tick(m) PROVE AliveInv'
  BY <1>1, <1>2 DEF Alive!Tick, Alive!Exhausted
<1>3. CASE Alive!PingThrows
  BY <1>1, <1>3 DEF Alive!PingThrows
<1>4. ASSUME NEW m \in Alive!Monitors, NEW age, Alive!Pong(m, age) PROVE AliveInv'
  BY <1>4 DEF Alive!Pong, Alive!Reset
<1>5. CASE Alive!FallsSilent
  BY <1>5 DEF Alive!FallsSilent
<1>6. CASE Alive!Leaves
  BY <1>1, <1>6 DEF Alive!Leaves
<1>7. CASE UNCHANGED keepaliveVars
  BY <1>7 DEF keepaliveVars
<1> QED BY <1>2, <1>3, <1>4, <1>5, <1>6, <1>7 DEF Alive!Next

LEMMA AliveSound == AliveInv => Alive!SilentGoes
BY KeepaliveAssumption DEF AliveInv, Alive!SilentGoes, Alive!Monitors, Alive!Limit

-----------------------------------------------------------------------------
(* TurnCredentials: what a peer was configured with, and when.             *)

Issued == [turn: BOOLEAN, list: BOOLEAN, until: {Nil, Static} \cup Int]
Written == SUBSET Turn!Entries

\* A credential is there, and a streamer's outlasts the server.
Credentialed(type, entries) ==
  \A e \in entries :
    e.turn => e.until \in Int /\ (type = "streamer" => e.until >= TurnTime)

\* The options an operator wrote, of which each peer without a secret is sent one.
Options == {options.shared, options.player, options.streamer, {}}

TurnTypes ==
  /\ turnNow \in 0 .. TurnTime
  /\ secret \in BOOLEAN
  /\ options \in [shared: {Nil} \cup Written, player: {Nil} \cup Written,
                  streamer: {Nil} \cup Written]
  /\ config \in [Turn!PeerTypes -> {Nil} \cup SUBSET Issued]
  /\ made \in [Turn!PeerTypes -> {Nil} \cup [at: 0 .. TurnTime, entries: SUBSET Issued]]

TurnInv ==
  /\ TurnTypes
  /\ warned = (~secret /\ Turn!Lacks)
  /\ \A t \in Turn!PeerTypes :
       /\ config[t] # Nil /\ secret => Credentialed(t, config[t])
       /\ config[t] # Nil /\ ~secret => config[t] \in Options
       /\ made[t] # Nil /\ secret => Credentialed(t, made[t].entries)

\* getPeerOptions: what a peer that connects is sent.
LEMMA PeerOptionsFacts ==
  ASSUME TurnTypes, NEW t \in Turn!PeerTypes
  PROVE  /\ Turn!GetPeerOptions(t) \in SUBSET Issued
         /\ secret => Credentialed(t, Turn!GetPeerOptions(t))
         /\ ~secret => Turn!GetPeerOptions(t) \in Options
<1> DEFINE c == Turn!Configured(t)
<1>1. c \in Written /\ c \in Options
  BY DEF TurnTypes, Turn!Configured, Turn!Or, Options, Written, Turn!PeerTypes
<1>2. Written \subseteq SUBSET Issued
  BY DEF Written, Issued, Turn!Entries
<1>3. Turn!Expiry(t) \in Int /\ (t = "streamer" => Turn!Expiry(t) >= TurnTime)
  BY TurnAssumption DEF TurnTypes, Turn!Expiry, Turn!TtlSecondsFor
<1>4. ASSUME NEW e \in c PROVE e \in Turn!Entries
  BY <1>1, <1>4 DEF Written
<1>5. ASSUME NEW e \in Turn!Entries
      PROVE  /\ [e EXCEPT !.until = Turn!Expiry(t)] \in Issued /\ e \in Issued
             /\ [e EXCEPT !.until = Turn!Expiry(t)].until = Turn!Expiry(t)
  BY <1>3 DEF Issued, Turn!Entries
<1>6. CASE secret
  <2>1. Turn!GetPeerOptions(t) =
          {IF e.turn THEN [e EXCEPT !.until = Turn!Expiry(t)] ELSE e : e \in c}
    BY <1>6 DEF Turn!GetPeerOptions, Turn!Provided, Turn!IsTurnServerEntry
  <2> HIDE DEF c
  <2>2. ASSUME NEW i \in Turn!GetPeerOptions(t)
        PROVE  i \in Issued /\ (i.turn => i.until = Turn!Expiry(t))
    <3>1. PICK e \in c : i = IF e.turn THEN [e EXCEPT !.until = Turn!Expiry(t)] ELSE e
      BY <2>1, <2>2
    <3>2. e \in Turn!Entries BY <1>4
    <3> QED BY <3>1, <3>2, <1>5
  <2> QED BY <2>2, <1>3, <1>6 DEF Credentialed
<1>7. CASE ~secret
  BY <1>1, <1>2, <1>7 DEF Turn!GetPeerOptions
<1> QED BY <1>6, <1>7 DEF TurnTypes

\* A peer connection made with what its peer was configured with.
LEMMA MadeFacts ==
  ASSUME TurnInv, NEW t \in Turn!PeerTypes, NEW entries \in SUBSET Issued,
         secret => Credentialed(t, entries), Turn!MakePeer(t, entries),
         UNCHANGED secret
  PROVE  /\ made' \in [Turn!PeerTypes -> {Nil} \cup [at: 0 .. TurnTime, entries: SUBSET Issued]]
         /\ \A u \in Turn!PeerTypes :
              made'[u] # Nil /\ secret => Credentialed(u, made'[u].entries)
<1> DEFINE m == [at |-> turnNow, entries |-> entries]
<1>1. m \in [at: 0 .. TurnTime, entries: SUBSET Issued] /\ m.entries = entries
  BY DEF TurnInv, TurnTypes
<1>2. made' = [made EXCEPT ![t] = m]
  BY DEF Turn!MakePeer
<1> HIDE DEF m
<1>3. \A u \in Turn!PeerTypes : made'[u] = IF u = t THEN m ELSE made[u]
  BY <1>2 DEF TurnInv, TurnTypes
<1> QED BY <1>1, <1>2, <1>3 DEF TurnInv, TurnTypes

\* A peer is sent its configuration.
LEMMA SentFacts ==
  ASSUME TurnInv, NEW t \in Turn!PeerTypes, Turn!SendConfigMessage(t),
         UNCHANGED <<secret, options>>
  PROVE  /\ config' \in [Turn!PeerTypes -> {Nil} \cup SUBSET Issued]
         /\ \A u \in Turn!PeerTypes :
              /\ config'[u] # Nil /\ secret => Credentialed(u, config'[u])
              /\ config'[u] # Nil /\ ~secret => config'[u] \in Options
<1> DEFINE c == Turn!GetPeerOptions(t)
<1>1. /\ c \in SUBSET Issued
      /\ secret => Credentialed(t, c)
      /\ ~secret => c \in Options
  BY PeerOptionsFacts DEF TurnInv
<1>2. config' = [config EXCEPT ![t] = c]
  BY DEF Turn!SendConfigMessage
<1> HIDE DEF c
<1>3. \A u \in Turn!PeerTypes : config'[u] = IF u = t THEN c ELSE config[u]
  BY <1>2 DEF TurnInv, TurnTypes
<1> QED BY <1>1, <1>2, <1>3 DEF TurnInv, TurnTypes

LEMMA TurnInit == Turn!Init => TurnInv
<1> SUFFICES ASSUME Turn!Init PROVE TurnInv
  OBVIOUS
<1>1. ASSUME NEW c \in Turn!Configurable PROVE c \in {Nil} \cup Written
  <2>1. Turn!Stun \in Turn!Entries
    BY DEF Turn!Stun, Turn!Entries
  <2>2. CASE c \in {Nil, {Turn!Stun}}
    BY <2>1, <2>2 DEF Written
  <2>3. CASE c \in {{Turn!Stun, e} : e \in {d \in Turn!Entries : d.turn}}
    <3>1. PICK e \in Turn!Entries : c = {Turn!Stun, e}
      BY <2>3
    <3> QED BY <2>1, <3>1 DEF Written
  <2> QED BY <1>1, <2>2, <2>3 DEF Turn!Configurable
<1>2. TurnTypes
  BY <1>1, TurnAssumption DEF Turn!Init, TurnTypes
<1> QED BY <1>2 DEF Turn!Init, TurnInv

LEMMA TurnStep ==
  ASSUME TurnInv, [Turn!Next]_turnVars
  PROVE  TurnInv'
<1>1. ASSUME UNCHANGED <<options, secret, warned>>, TurnTypes',
             \A u \in Turn!PeerTypes :
               /\ config'[u] # Nil /\ secret => Credentialed(u, config'[u])
               /\ config'[u] # Nil /\ ~secret => config'[u] \in Options
               /\ made'[u] # Nil /\ secret => Credentialed(u, made'[u].entries)
      PROVE  TurnInv'
  BY <1>1 DEF TurnInv, Options, Turn!Lacks, Turn!HasCredentiallessTurnServer,
              Turn!IsTurnServerEntry, Credentialed, Turn!PeerTypes
<1>2. ASSUME NEW t \in Turn!PeerTypes, Turn!SendConfigMessage(t),
             UNCHANGED <<turnNow, options, secret, warned, made>>
      PROVE  TurnInv'
  BY <1>1, <1>2, SentFacts DEF TurnInv, TurnTypes
<1>3. ASSUME NEW t \in Turn!PeerTypes, NEW c \in Turn!PeerTypes, config[c] # Nil,
             c = t, Turn!MakePeer(t, config[c]),
             UNCHANGED <<turnNow, options, secret, warned, config>>
      PROVE  TurnInv'
  <2>1. config[c] \in SUBSET Issued /\ (secret => Credentialed(t, config[c]))
    BY <1>3 DEF TurnInv, TurnTypes
  <2> QED BY <1>1, <1>3, <2>1, MadeFacts DEF TurnInv, TurnTypes
<1>4. CASE Turn!PlayerConnects
  <2>1. "player" \in Turn!PeerTypes BY DEF Turn!PeerTypes
  <2>2. CASE UNCHANGED made
    BY <1>2, <1>4, <2>1, <2>2 DEF Turn!PlayerConnects
  <2>3. CASE Turn!MakePeer("player", Turn!GetPeerOptions("player"))
    <3>1. TurnTypes BY DEF TurnInv
    <3> QED
      BY <1>1, <1>4, <2>1, <2>3, <3>1, SentFacts, PeerOptionsFacts, MadeFacts
      DEF Turn!PlayerConnects, TurnTypes
  <2> QED BY <1>4, <2>2, <2>3 DEF Turn!PlayerConnects
<1>5. CASE Turn!StreamerConnects
  BY <1>2, <1>5 DEF Turn!StreamerConnects, Turn!PeerTypes
<1>6. CASE Turn!SfuConnects
  BY <1>2, <1>6 DEF Turn!SfuConnects, Turn!PeerTypes
<1>7. CASE Turn!HandlePlayerConnectedMessage
  BY <1>3, <1>7 DEF Turn!HandlePlayerConnectedMessage, Turn!PeerTypes
<1>8. CASE Turn!PageMakesAnother
  BY <1>3, <1>8 DEF Turn!PageMakesAnother, Turn!PeerTypes
<1>9. CASE Turn!TimePasses
  <2>1. TurnTypes'
    BY <1>9, TurnAssumption DEF Turn!TimePasses, TurnInv, TurnTypes
  <2> QED BY <1>1, <1>9, <2>1 DEF Turn!TimePasses, TurnInv
<1>10. CASE UNCHANGED turnVars
  BY <1>1, <1>10 DEF turnVars, TurnInv, TurnTypes
<1> QED
  BY <1>4, <1>5, <1>6, <1>7, <1>8, <1>9, <1>10 DEF Turn!Next

LEMMA TurnSound == TurnInv => Turn!RelayStaysUsable /\ Turn!BareRelayIsWarned
<1> SUFFICES ASSUME TurnInv PROVE Turn!RelayStaysUsable /\ Turn!BareRelayIsWarned
  OBVIOUS
<1>1. Turn!RelayStaysUsable
  <2> SUFFICES ASSUME secret, made["streamer"] # Nil,
                      NEW e \in made["streamer"].entries, e.turn
               PROVE  e.until # Nil /\ e.until >= made["streamer"].at
    BY DEF Turn!RelayStaysUsable, Turn!Usable
  <2>1. "streamer" \in Turn!PeerTypes BY DEF Turn!PeerTypes
  <2>2. made["streamer"].at \in 0 .. TurnTime
    BY <2>1 DEF TurnInv, TurnTypes
  <2>3. e.until \in Int /\ e.until >= TurnTime
    BY <2>1 DEF TurnInv, Credentialed
  <2> QED BY <2>2, <2>3, TurnAssumption
<1>2. Turn!BareRelayIsWarned
  <2> SUFFICES ASSUME NEW t \in Turn!PeerTypes, config[t] # Nil,
                      Turn!HasCredentiallessTurnServer(config[t])
               PROVE  warned
    BY DEF Turn!BareRelayIsWarned
  <2>1. PICK e \in config[t] : e.turn /\ e.until = Nil
    BY DEF Turn!HasCredentiallessTurnServer, Turn!IsTurnServerEntry
  <2>2. ~secret
    BY <2>1, TurnAssumption DEF TurnInv, Credentialed
  <2>3. config[t] \in {options.shared, options.player, options.streamer}
    BY <2>1, <2>2 DEF TurnInv, Options
  <2> QED BY <2>2, <2>3 DEF TurnInv, Turn!Lacks
<1> QED BY <1>1, <1>2

-----------------------------------------------------------------------------
(* IceMonitor: the records of the monitor, their order and their timers.   *)

LEMMA SameCount == ASSUME NEW S PROVE Ice!Cardinality(S) = Cardinality(S)
BY DEF Ice!Cardinality, Cardinality

LEMMA SameSeq == ASSUME NEW s PROVE Ice!ToSet(s) = {s[i] : i \in DOMAIN s}
BY DEF Ice!ToSet

LEMMA CountLen ==
  ASSUME NEW S, NEW s \in Seq(S), {s[i] : i \in DOMAIN s} = S
  PROVE  IsFiniteSet(S) /\ Cardinality(S) <= Len(s)
<1>1. s \in Surjection(1 .. Len(s), S)
  BY DEF Surjection
<1>2. Len(s) \in Nat
  OBVIOUS
<1> QED BY <1>1, <1>2, FS_SurjCardinalityBound, FS_NatSurjection DEF ExistsSurjection

LEMMA Removed ==
  ASSUME NEW S, NEW s \in Seq(S), NEW i \in DOMAIN s
  PROVE  /\ Ice!RemoveAt(s, i) \in Seq(S)
         /\ Len(Ice!RemoveAt(s, i)) = Len(s) - 1
         /\ \A k \in 1 .. Len(s) - 1 :
              Ice!RemoveAt(s, i)[k] = IF k < i THEN s[k] ELSE s[k + 1]
<1>1. /\ SubSeq(s, 1, i - 1) \in Seq(S) /\ Len(SubSeq(s, 1, i - 1)) = i - 1
      /\ \A k \in 1 .. i - 1 : SubSeq(s, 1, i - 1)[k] = s[k]
  OBVIOUS
<1>2. /\ SubSeq(s, i + 1, Len(s)) \in Seq(S) /\ Len(SubSeq(s, i + 1, Len(s))) = Len(s) - i
      /\ \A k \in 1 .. Len(s) - i : SubSeq(s, i + 1, Len(s))[k] = s[i + k]
  OBVIOUS
<1>0. i \in 1 .. Len(s) /\ Len(s) \in Nat
  OBVIOUS
<1> DEFINE a == SubSeq(s, 1, i - 1)
           b == SubSeq(s, i + 1, Len(s))
<1>3. Ice!RemoveAt(s, i) = a \o b
  BY DEF Ice!RemoveAt
<1> HIDE DEF a, b
<1>4. a \in Seq(S) /\ b \in Seq(S) /\ Len(a) = i - 1 /\ Len(b) = Len(s) - i
  BY <1>1, <1>2 DEF a, b
<1>5. a \o b \in Seq(S) /\ Len(a \o b) = Len(s) - 1
  BY <1>4
<1>6. ASSUME NEW k \in 1 .. Len(s) - 1
      PROVE  (a \o b)[k] = IF k < i THEN s[k] ELSE s[k + 1]
  <2>1. CASE k < i
    <3>1. (a \o b)[k] = a[k]
      BY <1>4, <2>1
    <3> QED BY <1>1, <2>1, <3>1 DEF a
  <2>2. CASE ~(k < i)
    <3> DEFINE j == k - (i - 1)
               c == a \o b
    <3>1. j \in 1 .. Len(s) - i /\ k = j + (i - 1) /\ i + j = k + 1 /\ ~(k <= i - 1)
      BY <1>0, <2>2
    <3>2. c[k] = IF k <= Len(a) THEN a[k] ELSE b[k - Len(a)]
      BY <1>0, <1>4
    <3>3. k - Len(a) = j
      BY <1>4
    <3> HIDE DEF j, c
    <3>4. c[k] = b[j]
      BY <1>4, <3>1, <3>2, <3>3
    <3>5. b[j] = s[k + 1]
      BY <1>2, <3>1 DEF b
    <3>6. c[k] = s[k + 1]
      BY <3>4, <3>5
    <3> QED BY <2>2, <3>6 DEF c
  <2> QED BY <2>1, <2>2
<1> QED BY <1>3, <1>5, <1>6

\* The records, and their ids in the order they came.
IceShape(m) ==
  /\ m = [records |-> m.records, order |-> m.order, timers |-> m.timers]
  /\ m.records \in [DOMAIN m.records -> Ice!Record]
  /\ m.order \in Seq(DOMAIN m.records)
  /\ \A id \in DOMAIN m.records : \E i \in DOMAIN m.order : m.order[i] = id
  /\ \A i, j \in DOMAIN m.order : m.order[i] = m.order[j] => i = j
  /\ Len(m.order) <= MaxTracked

\* The timers are those of the unsaid records.
IceOk(m) ==
  /\ IceShape(m)
  /\ m.timers = {id \in DOMAIN m.records : ~m.records[id].emitted}

LEMMA SummarisedFacts ==
  ASSUME NEW stats \in Ice!Record
  PROVE  Ice!Summarised(stats) \in Ice!Record /\ Ice!Summarised(stats).emitted = TRUE
<1> DEFINE w == stats.warned \/ (~stats.emitted /\ Ice!HasOnlyHostCandidates(stats.streamer))
<1>1. w \in BOOLEAN
  BY DEF Ice!Record, Ice!HasOnlyHostCandidates
<1>2. Ice!Summarised(stats) = [stats EXCEPT !.emitted = TRUE, !.warned = w]
  BY DEF Ice!Summarised
<1> HIDE DEF w
<1> QED BY <1>1, <1>2 DEF Ice!Record

LEMMA Emitted ==
  ASSUME NEW m, IceOk(m), NEW id \in DOMAIN m.records
  PROVE  /\ IceOk(Ice!EmitSummary(m, id))
         /\ Ice!EmitSummary(m, id).order = m.order
         /\ DOMAIN Ice!EmitSummary(m, id).records = DOMAIN m.records
<1> DEFINE y == Ice!EmitSummary(m, id)
           k == Ice!Summarised(m.records[id])
<1>1. k \in Ice!Record /\ k.emitted = TRUE
  BY SummarisedFacts DEF IceOk, IceShape
<1>2. /\ y.timers = m.timers \ {id} /\ y.order = m.order
      /\ y.records = [m.records EXCEPT ![id] = k]
      /\ y = [records |-> y.records, order |-> y.order, timers |-> y.timers]
  <2> DEFINE R == m.records  O == m.order  T == m.timers
  <2>1. m = [records |-> R, order |-> O, timers |-> T]
    BY DEF IceOk, IceShape
  <2>2. y = [m EXCEPT !.timers = @ \ {id}, !.records[id] = k]
    BY DEF Ice!EmitSummary
  <2> HIDE DEF R, O, T, y, k
  <2> QED BY <2>1, <2>2 DEF R, O, T
<1> HIDE DEF k, y
<1>3. /\ DOMAIN y.records = DOMAIN m.records
      /\ \A i \in DOMAIN m.records : y.records[i] = IF i = id THEN k ELSE m.records[i]
  BY <1>2 DEF IceOk, IceShape
<1>4. y.records \in [DOMAIN y.records -> Ice!Record]
  BY <1>1, <1>2, <1>3 DEF IceOk, IceShape
<1>5. y.timers = {i \in DOMAIN y.records : ~y.records[i].emitted}
  BY <1>1, <1>2, <1>3 DEF IceOk, IceShape
<1>6. IceOk(y)
  BY <1>2, <1>3, <1>4, <1>5 DEF IceOk, IceShape
<1> QED BY <1>2, <1>3, <1>6 DEF y

LEMMA Deleted ==
  ASSUME NEW m, IceOk(m), NEW id \in DOMAIN m.records
  PROVE  /\ IceOk(Ice!DeleteRecord(m, id))
         /\ Len(Ice!DeleteRecord(m, id).order) = Len(m.order) - 1
         /\ DOMAIN Ice!DeleteRecord(m, id).records = DOMAIN m.records \ {id}
<1> DEFINE y == Ice!DeleteRecord(m, id)
           at == Ice!PlaceOf(m, id)
<1>1. at \in DOMAIN m.order /\ m.order[at] = id
  BY DEF Ice!PlaceOf, IceOk, IceShape
<1> HIDE DEF at
<1>2. /\ y.records = [i \in DOMAIN m.records \ {id} |-> m.records[i]]
      /\ y.order = Ice!RemoveAt(m.order, at) /\ y.timers = m.timers \ {id}
      /\ y = [records |-> y.records, order |-> y.order, timers |-> y.timers]
  BY DEF Ice!DeleteRecord, Ice!Restrict, at
<1> HIDE DEF y
<1> DEFINE S == DOMAIN m.records
           o == Ice!RemoveAt(m.order, at)
<1>3. /\ o \in Seq(S) /\ Len(o) = Len(m.order) - 1
      /\ \A k \in 1 .. Len(m.order) - 1 :
           o[k] = IF k < at THEN m.order[k] ELSE m.order[k + 1]
  BY <1>1, Removed DEF IceOk, IceShape
<1> HIDE DEF o
<1>4. DOMAIN y.records = S \ {id} /\ y.records \in [S \ {id} -> Ice!Record]
  BY <1>2 DEF IceOk, IceShape
<1>5. DOMAIN o = 1 .. Len(m.order) - 1 /\ DOMAIN m.order = 1 .. Len(m.order)
      /\ Len(m.order) \in Nat
  BY <1>3 DEF IceOk, IceShape
<1>6. ASSUME NEW k \in DOMAIN o PROVE o[k] \in S /\ o[k] # id
  <2>1. CASE k < at
    <3>1. k \in DOMAIN m.order /\ o[k] = m.order[k] /\ k # at
      BY <1>1, <1>3, <1>5, <2>1
    <3> QED BY <1>1, <3>1 DEF IceOk, IceShape
  <2>2. CASE k >= at
    <3>1. k + 1 \in DOMAIN m.order /\ o[k] = m.order[k + 1] /\ k + 1 # at
      BY <1>1, <1>3, <1>5, <2>2
    <3> QED BY <1>1, <3>1 DEF IceOk, IceShape
  <2> QED BY <1>1, <1>5, <2>1, <2>2
<1>7. y.order \in Seq(DOMAIN y.records)
  BY <1>2, <1>3, <1>4, <1>5, <1>6 DEF o
<1>8. ASSUME NEW i \in S, i # id PROVE \E k \in DOMAIN o : o[k] = i
  <2>1. PICK j \in DOMAIN m.order : m.order[j] = i
    BY DEF IceOk, IceShape
  <2>2. CASE j < at
    BY <1>1, <1>3, <1>5, <2>1, <2>2
  <2>3. CASE j > at
    <3>1. j - 1 \in DOMAIN o /\ o[j - 1] = m.order[j - 1 + 1] /\ j - 1 + 1 = j
      BY <1>1, <1>3, <1>5, <2>1, <2>3
    <3> QED BY <2>1, <3>1
  <2> QED BY <1>1, <1>5, <1>8, <2>1, <2>2, <2>3
<1>9. ASSUME NEW i \in DOMAIN o, NEW j \in DOMAIN o, o[i] = o[j] PROVE i = j
  <2> DEFINE P(k) == IF k < at THEN k ELSE k + 1
  <2>1. P(i) \in DOMAIN m.order /\ P(j) \in DOMAIN m.order
    BY <1>1, <1>5
  <2>2. o[i] = m.order[P(i)] /\ o[j] = m.order[P(j)]
    BY <1>3, <1>5
  <2>3. P(i) = P(j)
    BY <1>9, <2>1, <2>2 DEF IceOk, IceShape
  <2> QED BY <1>1, <1>5, <2>3
<1>10. y.timers = {i \in DOMAIN y.records : ~y.records[i].emitted}
  BY <1>2, <1>4 DEF IceOk, IceShape
<1>11. Len(y.order) <= MaxTracked
  BY <1>2, <1>3, <1>5, IceAssumption DEF IceOk, IceShape, o
<1>12. IceOk(y)
  BY <1>2, <1>4, <1>7, <1>8, <1>9, <1>10, <1>11 DEF IceOk, IceShape, o
<1> QED BY <1>2, <1>3, <1>4, <1>12 DEF y, o

LEMMA Flushed ==
  ASSUME NEW m, IceOk(m), NEW id
  PROVE  /\ IceOk(Ice!FlushPlayer(m, id))
         /\ id \in DOMAIN m.records =>
              /\ Len(Ice!FlushPlayer(m, id).order) = Len(m.order) - 1
              /\ DOMAIN Ice!FlushPlayer(m, id).records = DOMAIN m.records \ {id}
<1>1. CASE id \in DOMAIN m.records
  <2> DEFINE y == Ice!EmitSummary(m, id)
  <2>1. IceOk(y) /\ y.order = m.order /\ DOMAIN y.records = DOMAIN m.records
    BY <1>1, Emitted
  <2>2. Ice!FlushPlayer(m, id) = Ice!DeleteRecord(y, id)
    BY <1>1 DEF Ice!FlushPlayer
  <2> HIDE DEF y
  <2> QED BY <1>1, <2>1, <2>2, Deleted
<1>2. CASE id \notin DOMAIN m.records
  BY <1>2 DEF Ice!FlushPlayer
<1> QED BY <1>1, <1>2

\* A record of an id that has none goes last, its timer still to be started.
IceAdded(m, id) ==
  [m EXCEPT !.records = [i \in DOMAIN @ \cup {id} |->
                           IF i = id THEN Ice!NewRecord ELSE @[i]],
            !.order = Append(@, id)]

LEMMA Created ==
  ASSUME NEW m, IceOk(m), NEW id, id \notin DOMAIN m.records, Len(m.order) < MaxTracked
  PROVE  LET y == IceAdded(m, id)
         IN  /\ IceShape(y) /\ id \in DOMAIN y.records
             /\ y.timers \cup {id} = {i \in DOMAIN y.records : ~y.records[i].emitted}
             /\ ~y.records[id].emitted
<1> DEFINE y == IceAdded(m, id)
<1> DEFINE S == DOMAIN m.records
           T == S \cup {id}
<1>1. /\ y.records = [i \in T |-> IF i = id THEN Ice!NewRecord ELSE m.records[i]]
      /\ y.order = Append(m.order, id) /\ y.timers = m.timers
      /\ y = [records |-> y.records, order |-> y.order, timers |-> y.timers]
  <2> DEFINE R == m.records  O == m.order  U == m.timers
             X == [i \in T |-> IF i = id THEN Ice!NewRecord ELSE m.records[i]]
             Y == Append(m.order, id)
  <2>1. m = [records |-> R, order |-> O, timers |-> U]
    BY DEF IceOk, IceShape
  <2>2. y = [m EXCEPT !.records = X, !.order = Y]
    BY DEF IceAdded
  <2> HIDE DEF R, O, U, X, Y, y
  <2>3. y = [records |-> X, order |-> Y, timers |-> U]
    BY <2>1, <2>2
  <2> QED BY <2>3 DEF X, Y, U
<1> HIDE DEF y
<1>2. Ice!NewRecord \in Ice!Record /\ Ice!NewRecord.emitted = FALSE
  BY DEF Ice!NewRecord, Ice!Record
<1>3. /\ DOMAIN y.records = T
      /\ \A i \in T : y.records[i] = IF i = id THEN Ice!NewRecord ELSE m.records[i]
      /\ y.records \in [T -> Ice!Record]
  BY <1>1, <1>2 DEF IceOk, IceShape
<1>4. y.timers \cup {id} = {i \in T : ~y.records[i].emitted} /\ ~y.records[id].emitted
  BY <1>1, <1>2, <1>3 DEF IceOk
<1>5. m.order \in Seq(T) /\ Len(m.order) \in Nat /\ DOMAIN m.order = 1 .. Len(m.order)
  BY DEF IceOk, IceShape
<1>6. /\ y.order \in Seq(T) /\ Len(y.order) = Len(m.order) + 1
      /\ DOMAIN y.order = 1 .. Len(m.order) + 1
      /\ \A i \in 1 .. Len(m.order) : y.order[i] = m.order[i]
      /\ y.order[Len(m.order) + 1] = id
  BY <1>1, <1>5
<1>7. \A i \in T : \E j \in DOMAIN y.order : y.order[j] = i
  <2> SUFFICES ASSUME NEW i \in T PROVE \E j \in DOMAIN y.order : y.order[j] = i
    OBVIOUS
  <2>1. CASE i = id
    <3>1. Len(m.order) + 1 \in DOMAIN y.order
      BY <1>5, <1>6
    <3> QED BY <1>6, <2>1, <3>1
  <2>2. CASE i \in S
    <3>1. PICK j \in DOMAIN m.order : m.order[j] = i
      BY <2>2 DEF IceOk, IceShape
    <3>2. j \in DOMAIN y.order /\ y.order[j] = i
      BY <1>5, <1>6, <3>1
    <3> QED BY <3>2
  <2> QED BY <2>1, <2>2
<1>8. \A i \in 1 .. Len(m.order) : m.order[i] \in S
  BY <1>5 DEF IceOk, IceShape
<1>9. \A i, j \in DOMAIN y.order : y.order[i] = y.order[j] => i = j
  <2> DEFINE len == Len(m.order)
             o == m.order
  <2>1. \A i, j \in 1 .. len : o[i] = o[j] => i = j
    BY <1>5 DEF IceOk, IceShape
  <2>2. \A i \in 1 .. len : o[i] # id
    BY <1>8
  <2> SUFFICES ASSUME NEW i \in 1 .. len + 1, NEW j \in 1 .. len + 1, y.order[i] = y.order[j]
               PROVE  i = j
    BY <1>6
  <2>3. len \in Nat /\ \A k \in 1 .. len : y.order[k] = o[k]
    BY <1>5, <1>6
  <2>4. y.order[len + 1] = id
    BY <1>6
  <2> HIDE DEF len, o
  <2>5. \A k \in 1 .. len + 1 : k = len + 1 \/ k \in 1 .. len
    BY <2>3
  <2>6. CASE i = len + 1
    BY <2>2, <2>3, <2>4, <2>5, <2>6
  <2>7. CASE i \in 1 .. len
    BY <2>1, <2>2, <2>3, <2>4, <2>5, <2>7
  <2> QED BY <2>5, <2>6, <2>7
<1>10. Len(y.order) <= MaxTracked
  BY <1>5, <1>6, IceAssumption
<1>11. IceShape(y) /\ id \in DOMAIN y.records
  BY <1>1, <1>3, <1>6, <1>7, <1>9, <1>10 DEF IceShape
<1> QED BY <1>3, <1>4, <1>11 DEF y

LEMMA Recorded ==
  ASSUME NEW m, IceOk(m), NEW id, NEW endpoint, NEW type \in Types
  PROVE  IceOk(Ice!RecordCandidate(m, id, endpoint, type))
<1> DEFINE known == Ice!GetOrCreateRecord(m, id)
           seen == IF endpoint = "player"
                   THEN [known EXCEPT !.records[id].player = @ \cup {type}]
                   ELSE [known EXCEPT !.records[id].streamer = @ \cup {type}]
           Unsaid(y) == {i \in DOMAIN y.records : ~y.records[i].emitted}
<1>1. /\ IceShape(known) /\ id \in DOMAIN known.records
      /\ known.timers \cup {id} = Unsaid(known) \cup {id}
      /\ known.records[id].emitted => known.timers = Unsaid(known)
  <2>1. CASE id \in DOMAIN m.records
    BY <2>1 DEF Ice!GetOrCreateRecord, IceOk
  <2>2. CASE id \notin DOMAIN m.records
    <3> DEFINE room == IF Len(m.order) >= MaxTracked THEN Ice!Evicted(m) ELSE m
    <3>1. IceOk(room) /\ id \notin DOMAIN room.records /\ Len(room.order) < MaxTracked
      <4>1. CASE Len(m.order) >= MaxTracked
        <5>1. Head(m.order) \in DOMAIN m.records /\ Len(m.order) = MaxTracked
          BY <4>1, IceAssumption DEF IceOk, IceShape
        <5> QED BY <2>2, <4>1, <5>1, Flushed, IceAssumption DEF Ice!Evicted
      <4>2. CASE ~(Len(m.order) >= MaxTracked)
        BY <2>2, <4>2, IceAssumption DEF IceOk, IceShape
      <4> QED BY <4>1, <4>2
    <3>2. known = IceAdded(room, id)
      BY <2>2 DEF Ice!GetOrCreateRecord, IceAdded
    <3> HIDE DEF room, known
    <3>3. /\ IceShape(known) /\ id \in DOMAIN known.records
          /\ known.timers \cup {id} = {i \in DOMAIN known.records : ~known.records[i].emitted}
          /\ ~known.records[id].emitted
      BY <3>1, <3>2, Created
    <3> QED BY <3>3
  <2> QED BY <2>1, <2>2
<1> HIDE DEF known
<1>2. /\ IceShape(seen) /\ id \in DOMAIN seen.records
      /\ seen.timers = known.timers /\ Unsaid(seen) = Unsaid(known)
      /\ seen.records[id].emitted = known.records[id].emitted
  <2> DEFINE k == known.records[id]
             l == IF endpoint = "player" THEN [k EXCEPT !.player = @ \cup {type}]
                  ELSE [k EXCEPT !.streamer = @ \cup {type}]
             R == known.records  O == known.order  U == known.timers
  <2>1. k \in Ice!Record
    BY <1>1 DEF IceShape
  <2>2. l \in Ice!Record /\ l.emitted = k.emitted
    <3> HIDE DEF k
    <3> QED BY <2>1 DEF Ice!Record
  <2>3. known = [records |-> R, order |-> O, timers |-> U]
    BY <1>1 DEF IceShape
  <2>4. seen = [known EXCEPT !.records = [@ EXCEPT ![id] = l]]
    OBVIOUS
  <2> HIDE DEF k, l, R, O, U, seen
  <2>5. seen = [records |-> [R EXCEPT ![id] = l], order |-> O, timers |-> U]
    BY <2>3, <2>4
  <2>6. R \in [DOMAIN R -> Ice!Record] /\ id \in DOMAIN R
    BY <1>1 DEF IceShape, R
  <2>7. /\ DOMAIN seen.records = DOMAIN R
        /\ \A i \in DOMAIN R : seen.records[i] = IF i = id THEN l ELSE R[i]
        /\ seen.records \in [DOMAIN R -> Ice!Record]
    BY <2>2, <2>5, <2>6
  <2>8. Unsaid(seen) = Unsaid(known)
    BY <2>2, <2>7 DEF R, k
  <2>9. IceShape(seen)
    BY <1>1, <2>5, <2>7 DEF IceShape, R, O
  <2> QED BY <2>2, <2>5, <2>6, <2>7, <2>8, <2>9 DEF U, k
<1> DEFINE z == IF seen.records[id].emitted THEN seen
                ELSE [seen EXCEPT !.timers = @ \cup {id}]
<1>3. Ice!RecordCandidate(m, id, endpoint, type) = z
  BY DEF Ice!RecordCandidate, known
<1> HIDE DEF seen
<1>4. CASE seen.records[id].emitted
  BY <1>1, <1>2, <1>3, <1>4 DEF IceOk
<1>5. CASE ~seen.records[id].emitted
  <2> DEFINE R == seen.records  O == seen.order  U == seen.timers
  <2>1. seen = [records |-> R, order |-> O, timers |-> U]
    BY <1>2 DEF IceShape
  <2>2. z = [seen EXCEPT !.timers = @ \cup {id}]
    BY <1>5
  <2> HIDE DEF R, O, U, z
  <2>3. z = [records |-> R, order |-> O, timers |-> U \cup {id}]
    BY <2>1, <2>2 DEF U
  <2>4. U \cup {id} = Unsaid(seen)
    BY <1>1, <1>2, <1>5 DEF U
  <2>5. z.records = seen.records /\ z.order = seen.order /\ z.timers = Unsaid(seen)
    BY <2>3, <2>4 DEF R, O
  <2>6. IceShape(z)
    BY <1>2, <2>3, <2>5 DEF IceShape
  <2>7. IceOk(z)
    BY <2>5, <2>6 DEF IceOk
  <2> QED BY <1>3, <2>7
<1> QED BY <1>4, <1>5

IceInv == IceOk(Ice!Monitor)

LEMMA IceInit == Ice!Init => IceInv
BY IceAssumption DEF Ice!Init, IceInv, Ice!Monitor, IceOk, IceShape

LEMMA IceStep ==
  ASSUME IceInv, [Ice!Next]_iceVars
  PROVE  IceInv'
<1>1. ASSUME NEW m, IceOk(m), Ice!Set(m) PROVE IceInv'
  <2>1. Ice!Monitor' = m
    BY <1>1 DEF Ice!Set, Ice!Monitor, IceOk, IceShape
  <2> QED BY <1>1, <2>1 DEF IceInv
<1>2. ASSUME UNCHANGED <<records, order, timers>> PROVE IceInv'
  BY <1>2 DEF IceInv, IceOk, IceShape, Ice!Monitor
<1>3. ASSUME NEW p, Ice!Connect(p) \/ Ice!NextMedia(p) PROVE IceInv'
  BY <1>2, <1>3 DEF Ice!Connect, Ice!NextMedia
<1>4. ASSUME NEW p, Ice!Close(p) PROVE IceInv'
  BY <1>1, <1>4, Flushed DEF Ice!Close, IceInv
<1>5. ASSUME NEW p, NEW type \in Types, Ice!PlayerCandidate(p, type) PROVE IceInv'
  BY <1>1, <1>5, Recorded DEF Ice!PlayerCandidate, IceInv
<1>6. ASSUME NEW id, NEW type \in Types, Ice!StreamerCandidate(id, type) PROVE IceInv'
  BY <1>1, <1>6, Recorded DEF Ice!StreamerCandidate, IceInv
<1>7. ASSUME NEW id, Ice!SummaryTimer(id) PROVE IceInv'
  <2>1. id \in DOMAIN Ice!Monitor.records
    BY <1>7 DEF Ice!SummaryTimer, IceInv, IceOk, Ice!Monitor
  <2>2. Ice!Set(Ice!EmitSummary(Ice!Monitor, id))
    BY <1>7, <2>1 DEF Ice!SummaryTimer, Ice!Monitor
  <2> QED BY <1>1, <2>1, <2>2, Emitted DEF IceInv
<1>8. CASE UNCHANGED iceVars
  BY <1>2, <1>8 DEF iceVars
<1> QED BY <1>3, <1>4, <1>5, <1>6, <1>7, <1>8 DEF Ice!Next

LEMMA IceSound == IceInv => Ice!UnsaidIsTimed
<1> SUFFICES ASSUME IceInv PROVE Ice!UnsaidIsTimed
  OBVIOUS
<1>1. timers = {id \in DOMAIN records : ~records[id].emitted}
  BY DEF IceInv, IceOk, Ice!Monitor
<1>2. /\ order \in Seq(DOMAIN records) /\ Len(order) <= MaxTracked
      /\ \A id \in DOMAIN records : \E i \in DOMAIN order : order[i] = id
  BY DEF IceInv, IceOk, IceShape, Ice!Monitor
<1>3. {order[i] : i \in DOMAIN order} = DOMAIN records
  <2>1. \A i \in DOMAIN order : order[i] \in DOMAIN records
    BY <1>2
  <2>2. \A id \in DOMAIN records : \E i \in DOMAIN order : order[i] = id
    BY <1>2
  <2> QED BY ONLY <2>1, <2>2
<1>4. Cardinality(DOMAIN records) <= Len(order)
  BY <1>2, <1>3, CountLen
<1>5. Cardinality(DOMAIN records) \in Nat
  <2>1. IsFiniteSet(DOMAIN records)
    BY <1>2, <1>3, CountLen
  <2> QED BY <2>1, FS_CardinalityType
<1>6. Cardinality(DOMAIN records) <= MaxTracked
  BY <1>2, <1>4, <1>5, IceAssumption
<1> QED BY <1>1, <1>3, <1>6, SameCount, SameSeq DEF Ice!UnsaidIsTimed

-----------------------------------------------------------------------------
(* RuntimeStatus: what is published leaves the derivation alone.           *)

Derives(p) == {"streamer", "status", "soak"} \subseteq DOMAIN p

SameDerived(p, q) ==
  /\ Derives(q)
  /\ q.streamer = p.streamer /\ q.status = p.status /\ q.soak = p.soak

LEMMA Published ==
  ASSUME NEW p, Derives(p), NEW status, NEW beat
  PROVE  SameDerived(p, Status!Publish(p, status, beat))
BY DEF Status!Publish, SameDerived, Derives

LEMMA Withheld ==
  ASSUME NEW p, Derives(p), NEW beat
  PROVE  SameDerived(p, Status!WithholdReady(p, beat))
<1> DEFINE q == [p EXCEPT !.block = TRUE, !.release = @ \/ p.gate.margin # Status!None]
<1>1. SameDerived(p, q)
  BY DEF SameDerived, Derives
<1>2. Status!WithholdReady(p, beat) = Status!Publish(q, "resetting", beat /\ p.block)
  BY DEF Status!WithholdReady
<1> HIDE DEF q
<1>3. Derives(q)
  BY <1>1 DEF SameDerived
<1>4. SameDerived(q, Status!Publish(q, "resetting", beat /\ p.block))
  BY <1>3, Published
<1> QED BY <1>1, <1>2, <1>4 DEF SameDerived

LEMMA PublishedCommercial ==
  ASSUME NEW p, Derives(p), NEW status, NEW beat
  PROVE  SameDerived(p, Status!PublishCommercial(p, status, beat))
<1> DEFINE seen == IF beat THEN p ELSE Status!Observe(p, status)
           after == Status!RecordRuntimeStatus(seen, status)
           open == [after EXCEPT !.block = FALSE, !.release = FALSE]
<1>1. SameDerived(p, seen)
  BY DEF SameDerived, Derives, Status!Observe
<1>2. SameDerived(p, after)
  <2> HIDE DEF seen
  <2> QED BY <1>1 DEF SameDerived, Derives, Status!RecordRuntimeStatus
<1> HIDE DEF after
<1>3. SameDerived(p, open)
  BY <1>2 DEF SameDerived, Derives
<1> HIDE DEF open
<1>4. Derives(after) /\ Derives(open)
  BY <1>2, <1>3 DEF SameDerived
<1>5. SameDerived(p, Status!Publish(p, status, beat))
  BY Published
<1>6. SameDerived(p, Status!Publish(after, status, beat))
  BY <1>2, <1>4, Published DEF SameDerived
<1>7. SameDerived(p, Status!WithholdReady(after, beat))
  BY <1>2, <1>4, Withheld DEF SameDerived
<1>8. SameDerived(p, Status!Publish(open, "ready", beat /\ ~after.block))
  <2>1. SameDerived(open, Status!Publish(open, "ready", beat /\ ~after.block))
    BY <1>4, Published
  <2> QED BY <1>3, <2>1 DEF SameDerived
<1>9. \/ Status!PublishCommercial(p, status, beat) = Status!Publish(p, status, beat)
      \/ Status!PublishCommercial(p, status, beat) = Status!Publish(after, status, beat)
      \/ Status!PublishCommercial(p, status, beat) = Status!WithholdReady(after, beat)
      \/ Status!PublishCommercial(p, status, beat)
           = Status!Publish(open, "ready", beat /\ ~after.block)
  BY DEF Status!PublishCommercial, after, open
<1> QED BY <1>5, <1>6, <1>7, <1>8, <1>9

LEMMA Announced ==
  ASSUME NEW p, Derives(p), NEW status
  PROVE  SameDerived(p, Status!Announce(p, status))
<1> DEFINE q == [p EXCEPT !.said = status]
<1>1. SameDerived(p, q)
  BY DEF SameDerived, Derives
<1>2. Status!Announce(p, status) = Status!PublishCommercial(q, status, FALSE)
  BY DEF Status!Announce
<1> HIDE DEF q
<1>3. SameDerived(q, Status!PublishCommercial(q, status, FALSE))
  BY <1>1, PublishedCommercial DEF SameDerived
<1> QED BY <1>1, <1>2, <1>3 DEF SameDerived

LEMMA Transited ==
  ASSUME NEW p, Derives(p), NEW status, NEW force
  PROVE  /\ Derives(Status!Transition(p, status, force))
         /\ Status!Transition(p, status, force).streamer = p.streamer
         /\ Status!Transition(p, status, force).status = status
         /\ Status!Transition(p, status, force).soak = p.soak
<1> DEFINE q == [p EXCEPT !.status = status]
<1>1. /\ Derives(q) /\ q.streamer = p.streamer /\ q.status = status /\ q.soak = p.soak
  BY DEF Derives
<1>2. \/ Status!Transition(p, status, force) = q
      \/ Status!Transition(p, status, force) = Status!Announce(q, status)
  BY DEF Status!Transition
<1> HIDE DEF q
<1>3. SameDerived(q, Status!Announce(q, status))
  BY <1>1, Announced
<1> QED BY <1>1, <1>2, <1>3 DEF SameDerived

-----------------------------------------------------------------------------
(* A derived Ready, or a soak under way, has the streak behind it that it  *)
(* stands for, as long as a streamer is visible.                           *)

Derived(p) ==
  /\ Derives(p)
  /\ p.streamer \in [Streamers -> {"none", "connected", "visible"}]
  /\ p.soak \in -1 .. ReadySoak

Soaked(p, k) ==
  Status!Visible(p) # {} =>
    /\ p.status = "ready" => k = ReadySoak
    /\ p.soak <= k

StatusSound(p, k) ==
  /\ Derived(p) /\ Soaked(p, k)
  /\ p.status = "ready" \/ p.soak # -1 => Status!Visible(p) # {}

StatusInv == StatusSound(r, streak) /\ streak \in 0 .. ReadySoak

\* evaluateDerivedStatus
LEMMA Evaluated ==
  ASSUME NEW p, NEW k \in 0 .. ReadySoak, Derived(p), Soaked(p, k), NEW force
  PROVE  /\ StatusSound(Status!Evaluate(p, force), k)
         /\ Status!Evaluate(p, force).streamer = p.streamer
<1> DEFINE q == Status!Evaluate(p, force)
           none == [p EXCEPT !.soak = -1]
           going == [p EXCEPT !.soak = IF @ = -1 THEN 0 ELSE @]
<1> USE StatusAssumption
<1>1. /\ Derives(none) /\ none.streamer = p.streamer /\ none.soak = -1
      /\ Derives(going) /\ going.streamer = p.streamer
      /\ going.soak = IF p.soak = -1 THEN 0 ELSE p.soak
  BY DEF Derived, Derives
<1>2. Status!Unsoaked(p) = none
  BY DEF Status!Unsoaked, Status!None
<1>3. \A x : x.streamer = p.streamer => Status!Visible(x) = Status!Visible(p)
  BY DEF Status!Visible
<1>4. (\A s \in Streamers : p.streamer[s] = "none") => Status!Visible(p) = {}
  BY DEF Status!Visible
<1>5. \/ Status!Visible(p) = {}
           /\ \E status \in {"waiting", "warming"} : q = Status!Transition(none, status, force)
      \/ Status!Visible(p) # {} /\ (p.status = "ready" \/ p.soak = ReadySoak)
           /\ q = Status!Transition(none, "ready", force)
      \/ Status!Visible(p) # {} /\ q = Status!Transition(going, "stabilizing", force)
  BY <1>2, <1>4 DEF Status!Evaluate, Status!None
<1> HIDE DEF q, none, going
<1>6. ASSUME NEW status \in {"waiting", "warming"}, Status!Visible(p) = {},
             q = Status!Transition(none, status, force)
      PROVE  StatusSound(q, k) /\ q.streamer = p.streamer
  <2>1. Derives(q) /\ q.streamer = p.streamer /\ q.status = status /\ q.soak = -1
    BY <1>1, <1>6, Transited
  <2> QED BY <1>3, <1>6, <2>1 DEF StatusSound, Derived, Soaked
<1>7. ASSUME Status!Visible(p) # {}, p.status = "ready" \/ p.soak = ReadySoak,
             q = Status!Transition(none, "ready", force)
      PROVE  StatusSound(q, k) /\ q.streamer = p.streamer
  <2>1. Derives(q) /\ q.streamer = p.streamer /\ q.status = "ready" /\ q.soak = -1
    BY <1>1, <1>7, Transited
  <2>2. k = ReadySoak
    BY <1>7 DEF Soaked
  <2> QED BY <1>3, <1>7, <2>1, <2>2 DEF StatusSound, Derived, Soaked
<1>8. ASSUME Status!Visible(p) # {}, q = Status!Transition(going, "stabilizing", force)
      PROVE  StatusSound(q, k) /\ q.streamer = p.streamer
  <2>1. Derives(q) /\ q.streamer = p.streamer /\ q.status = "stabilizing"
        /\ q.soak = IF p.soak = -1 THEN 0 ELSE p.soak
    BY <1>1, <1>8, Transited
  <2> QED BY <1>3, <1>8, <2>1 DEF StatusSound, Derived, Soaked
<1> QED BY <1>5, <1>6, <1>7, <1>8 DEF q

LEMMA StartedSound ==
  ASSUME NEW g
  PROVE  StatusSound(Status!Started(g), 0)
<1> DEFINE p == [streamer |-> [s \in Streamers |-> "none"], status |-> "-",
                 soak |-> Status!None, idle |-> "-", said |-> "-", observed |-> "-",
                 block |-> FALSE, release |-> FALSE, gate |-> g,
                 desired |-> "-", queue |-> <<>>, writing |-> FALSE]
<1>1. /\ Derives(p) /\ p.streamer = [s \in Streamers |-> "none"]
      /\ p.soak = -1 /\ p.status = "-"
  BY DEF Derives, Status!None
<1>2. Status!Started(g) = Status!Evaluate(p, TRUE)
  BY DEF Status!Started
<1> HIDE DEF p
<1>3. Derived(p) /\ Soaked(p, 0)
  BY <1>1, StatusAssumption DEF Derived, Soaked
<1>4. 0 \in 0 .. ReadySoak
  BY StatusAssumption
<1> QED BY <1>2, <1>3, <1>4, Evaluated

LEMMA StatusInit == Status!Init => StatusInv
BY StartedSound, StatusAssumption DEF Status!Init, StatusInv

LEMMA StatusStep ==
  ASSUME StatusInv, [Status!Next]_statusVars
  PROVE  StatusInv'
<1> USE StatusAssumption
<1>0. Derived(r) /\ Derives(r) /\ Soaked(r, streak) /\ streak \in 0 .. ReadySoak
  BY DEF StatusInv, StatusSound, Derived
<1>1. ASSUME SameDerived(r, r'), UNCHANGED streak PROVE StatusInv'
  BY <1>1 DEF StatusInv, StatusSound, Derived, SameDerived, Soaked, Status!Visible
<1>2. ASSUME NEW p, Derived(p), Soaked(p, streak), NEW force,
             r' = Status!Evaluate(p, force), UNCHANGED streak
      PROVE  StatusInv'
  BY <1>0, <1>2, Evaluated DEF StatusInv
<1>3. ASSUME NEW s \in Streamers, Status!Connect(s) PROVE StatusInv'
  <2> DEFINE p == [r EXCEPT !.streamer[s] = "connected"]
  <2>1. /\ Derives(p) /\ p.streamer = [r.streamer EXCEPT ![s] = "connected"]
        /\ p.soak = r.soak /\ p.status = r.status
    BY <1>0 DEF Derives
  <2>2. r' = Status!Evaluate(p, TRUE) /\ UNCHANGED streak /\ r.streamer[s] = "none"
    BY <1>3 DEF Status!Connect
  <2> HIDE DEF p
  <2>3. Derived(p) /\ Soaked(p, streak)
    BY <1>0, <2>1, <2>2 DEF Derived, Soaked, Status!Visible
  <2> QED BY <1>2, <2>2, <2>3
<1>4. ASSUME NEW s \in Streamers, Status!Identify(s) PROVE StatusInv'
  <2> DEFINE p == [r EXCEPT !.streamer[s] = "visible"]
             q == Status!Evaluate(p, TRUE)
  <2>1. /\ Derives(p) /\ p.streamer = [r.streamer EXCEPT ![s] = "visible"]
        /\ p.soak = r.soak /\ p.status = r.status
    BY <1>0 DEF Derives
  <2>2. r' = Status!Evaluate(q, TRUE) /\ UNCHANGED streak
    BY <1>4 DEF Status!Identify
  <2> HIDE DEF p
  <2>3. Derived(p)
    BY <1>0, <2>1 DEF Derived
  <2>4. Soaked(p, streak)
    BY <1>0, <2>1 DEF Derived, Soaked, Status!Visible, StatusInv, StatusSound
  <2>5. StatusSound(q, streak)
    BY <1>0, <2>3, <2>4, Evaluated
  <2> HIDE DEF q
  <2> QED BY <1>2, <2>2, <2>5 DEF StatusSound
<1>5. ASSUME NEW s \in Streamers, Status!Ping(s) PROVE StatusInv'
  BY <1>0, <1>2, <1>5 DEF Status!Ping
<1>6. ASSUME NEW s \in Streamers, Status!Disconnect(s) PROVE StatusInv'
  <2> DEFINE e == Status!Evaluate(r, TRUE)
             q == [e EXCEPT !.streamer[s] = "none"]
  <2>1. StatusSound(e, streak) /\ e.streamer = r.streamer
    BY <1>0, Evaluated
  <2>2. /\ r' = Status!Evaluate(q, TRUE)
        /\ streak' = IF Status!Visible(q) = {} THEN 0 ELSE streak
    BY <1>6 DEF Status!Disconnect
  <2> HIDE DEF e
  <2>3. /\ Derives(q) /\ q.streamer = [e.streamer EXCEPT ![s] = "none"]
        /\ q.soak = e.soak /\ q.status = e.status
    BY <2>1 DEF Derives, StatusSound, Derived
  <2> HIDE DEF q
  <2>4. Derived(q)
    BY <2>1, <2>3 DEF Derived, StatusSound
  <2>5. Status!Visible(q) \subseteq Status!Visible(e)
    BY <2>1, <2>3 DEF Status!Visible, StatusSound, Derived
  <2>6. Soaked(q, streak') /\ streak' \in 0 .. ReadySoak
    BY <1>0, <2>1, <2>2, <2>3, <2>5 DEF Soaked, StatusSound
  <2>7. StatusSound(Status!Evaluate(q, TRUE), streak')
    BY <2>4, <2>6, Evaluated
  <2>8. StatusSound(r', streak')
    BY <2>2, <2>7
  <2> QED BY <2>6, <2>8 DEF StatusInv, StatusSound, Derived, Derives, Soaked, Status!Visible
<1>7. CASE Status!SoakTimer
  BY <1>0, <1>2, <1>7 DEF Status!SoakTimer
<1>8. CASE Status!WireHeartbeat
  BY <1>0, <1>1, <1>8, PublishedCommercial DEF Status!WireHeartbeat
<1>9. CASE Status!ReleaseTimer
  <2> DEFINE q == [r EXCEPT !.release = FALSE]
  <2>1. SameDerived(r, q)
    BY <1>0 DEF SameDerived, Derives
  <2>2. r' = Status!PublishCommercial(q, "ready", FALSE) /\ UNCHANGED streak
    BY <1>9 DEF Status!ReleaseTimer
  <2> HIDE DEF q
  <2>3. SameDerived(q, r')
    BY <2>1, <2>2, PublishedCommercial DEF SameDerived
  <2>4. SameDerived(r, r')
    BY <2>1, <2>3 DEF SameDerived
  <2> QED BY <1>1, <2>2, <2>4
<1>10. ASSUME NEW status, Status!IdleAnnounce(status) PROVE StatusInv'
  <2> DEFINE q == [r EXCEPT !.idle = status]
  <2>1. SameDerived(r, q)
    BY <1>0 DEF SameDerived, Derives
  <2>2. r' = Status!Announce(q, status) /\ UNCHANGED streak
    BY <1>10 DEF Status!IdleAnnounce
  <2> HIDE DEF q
  <2>3. SameDerived(q, r')
    BY <2>1, <2>2, Announced DEF SameDerived
  <2>4. SameDerived(r, r')
    BY <2>1, <2>3 DEF SameDerived
  <2> QED BY <1>1, <2>2, <2>4
<1>11. CASE Status!IdleHeartbeat
  BY <1>0, <1>1, <1>11, PublishedCommercial DEF Status!IdleHeartbeat
<1>12. CASE Status!IdleRestore
  <2> DEFINE q == [r EXCEPT !.idle = "-"]
  <2>1. SameDerived(r, q)
    BY <1>0 DEF SameDerived, Derives
  <2>2. r' = Status!Evaluate(q, TRUE) /\ UNCHANGED streak
    BY <1>12 DEF Status!IdleRestore
  <2> HIDE DEF q
  <2>3. Derived(q) /\ Soaked(q, streak)
    BY <1>0, <2>1 DEF SameDerived, Derived, Soaked, Status!Visible
  <2> QED BY <1>2, <2>2, <2>3
<1>13. CASE Status!RequireRecovery \/ Status!JournalBlock
  <2>1. SameDerived(r, r')
    BY <1>0, <1>13 DEF SameDerived, Derives, Status!RequireRecovery, Status!JournalBlock
  <2> QED BY <1>1, <1>13, <2>1 DEF Status!RequireRecovery, Status!JournalBlock
<1>14. ASSUME NEW proof, Status!Restart(proof) PROVE StatusInv'
  <2>1. streak' = 0 /\ \E g : r' = Status!Started(g)
    BY <1>14 DEF Status!Restart
  <2>2. StatusSound(r', 0)
    BY <2>1, StartedSound
  <2> QED BY <2>1, <2>2 DEF StatusInv, StatusSound, Derived, Derives, Soaked, Status!Visible
<1>15. CASE Status!Tick
  <2>1. /\ Derives(r') /\ r'.streamer = r.streamer /\ r'.status = r.status
        /\ r'.soak = IF r.soak = -1 THEN r.soak ELSE r.soak + 1
    BY <1>0, <1>15 DEF Status!Tick, Derives, Status!None
  <2>2. /\ r.soak # ReadySoak
        /\ streak' = IF Status!Visible(r) # {} /\ streak < ReadySoak THEN streak + 1 ELSE streak
    BY <1>15 DEF Status!Tick
  <2>3. Status!Visible(r') = Status!Visible(r)
    BY <2>1 DEF Status!Visible
  <2>4. StatusSound(r, streak)
    BY DEF StatusInv
  <2>5. StatusSound(r', streak') /\ streak' \in 0 .. ReadySoak
    BY <1>0, <2>1, <2>2, <2>3, <2>4 DEF StatusSound, Derived, Soaked
  <2> QED BY <2>5 DEF StatusInv, StatusSound, Derived, Derives, Soaked, Status!Visible
<1>16. CASE Status!StartTask \/ Status!EndTask
  <2>1. SameDerived(r, r')
    BY <1>0, <1>16 DEF SameDerived, Derives, Status!StartTask, Status!EndTask
  <2> QED BY <1>1, <1>16, <2>1 DEF Status!StartTask, Status!EndTask
<1>17. CASE UNCHANGED statusVars
  <2>1. SameDerived(r, r')
    BY <1>0, <1>17 DEF SameDerived, Derives, statusVars
  <2> QED BY <1>1, <1>17, <2>1 DEF statusVars
<1> QED
  BY <1>3, <1>4, <1>5, <1>6, <1>7, <1>8, <1>9, <1>10, <1>11, <1>12, <1>13, <1>14, <1>15,
     <1>16, <1>17
  DEF Status!Next

LEMMA StatusSoundReady == StatusInv => Status!ReadyIsSoaked
BY DEF StatusInv, StatusSound, Soaked, Status!ReadyIsSoaked

-----------------------------------------------------------------------------
(* NegotiationRecovery: the waits are sums of the time waited.             *)

NoWait == Negotiation!None
Waits == [elapsed: Nat, since: Nat, lastSeen: Int, players: SUBSET Places, reported: BOOLEAN]
Seats == [at: {"gone", "open", "waiting", "offered", "negotiated"}, age: Int]
Negotiators ==
  [up: BOOLEAN, stalled: BOOLEAN, wait: [Requests -> {NoWait} \cup Waits],
   socket: [Places -> Seats]]

\* A wait, of which d ticks were waited until t.
Earned(w, d, t) ==
  /\ w.since <= t
  /\ d = w.elapsed + IF w.players # {} THEN t - w.since ELSE 0
  /\ w.reported => d >= FaultAfter

Exact(m, d, t) ==
  /\ m \in Negotiators
  /\ d \in [Requests -> Nat]
  /\ \A q \in Requests :
       IF m.wait[q] = NoWait THEN d[q] = 0
       ELSE Earned(m.wait[q], d[q], t) /\ m.wait[q].players \subseteq Negotiation!Waiting(m, q)

\* Who waits after the full time has been reported.
Told(m, d) ==
  \A q \in Requests :
    m.wait[q] # NoWait /\ d[q] >= FaultAfter /\ m.wait[q].players # {} => m.wait[q].reported

NegotiationInv ==
  /\ negotiationNow \in Nat
  /\ Exact(n, waited, negotiationNow)
  /\ ~due => Told(n, waited)

LEMMA NoWaitFacts == NoWait \notin Waits
<1>1. \A w \in Waits : w.elapsed \in Nat
  BY DEF Waits
<1>2. NoWait.elapsed = -1
  BY DEF NoWait, Negotiation!None
<1> QED BY <1>1, <1>2

LEMMA WaitFacts ==
  ASSUME NEW m \in Negotiators, NEW q \in Requests, m.wait[q] # NoWait
  PROVE  /\ m.wait[q] \in Waits /\ m.wait[q].elapsed \in Nat /\ m.wait[q].since \in Nat
         /\ m.wait[q].players \subseteq Places /\ m.wait[q].reported \in BOOLEAN
         /\ m.wait[q].lastSeen \in Int
BY DEF Negotiators, Waits

\* check, of any state of the object: it forgets, and reports whoever is late.
LEMMA Checked ==
  ASSUME NEW m, NEW d, negotiationNow \in Nat, Exact(m, d, negotiationNow),
         NEW e, e = [q \in Requests |-> IF Negotiation!Forgotten(m.wait[q]) THEN 0 ELSE d[q]]
  PROVE  /\ Exact(Negotiation!Check(m), e, negotiationNow)
         /\ Told(Negotiation!Check(m), e)
         /\ Negotiation!Check(m).socket = m.socket
         /\ \A q \in Requests :
              Negotiation!Check(m).wait[q] = NoWait <=>
                m.wait[q] = NoWait \/ Negotiation!Forgotten(m.wait[q])
<1> USE NegotiationAssumption
<1> DEFINE t == negotiationNow
           k == Negotiation!Prune(m)
           late == {q \in Requests : Negotiation!Late(k.wait[q])}
           W == [q \in Requests |-> IF q \in late THEN [k.wait[q] EXCEPT !.reported = TRUE]
                                    ELSE k.wait[q]]
           y == Negotiation!Check(m)
<1>1. m \in Negotiators /\ d \in [Requests -> Nat]
  BY DEF Exact
<1>2. /\ k.wait = [q \in Requests |-> IF Negotiation!Forgotten(m.wait[q]) THEN NoWait
                                      ELSE m.wait[q]]
      /\ k = [m EXCEPT !.wait = k.wait]
      /\ k.socket = m.socket /\ k.up = m.up /\ k.stalled = m.stalled
  BY <1>1 DEF Negotiation!Prune, Negotiators, NoWait
<1>3. k \in Negotiators
  <2>1. k.wait \in [Requests -> {NoWait} \cup Waits]
    BY <1>1, <1>2 DEF Negotiators
  <2> HIDE DEF k
  <2> QED BY <1>1, <1>2, <2>1 DEF Negotiators
<1>4. /\ y.wait = W /\ y.socket = k.socket /\ y.up = k.up
      /\ y = [k EXCEPT !.wait = W, !.stalled = @ \/ late # {}]
  <2> DEFINE s == k.stalled \/ late # {}
  <2>1. y = [k EXCEPT !.wait = W, !.stalled = s]
    BY DEF Negotiation!Check
  <2> HIDE DEF y, k, W, late, s
  <2> QED BY <1>3, <2>1 DEF Negotiators, s
<1> HIDE DEF k
<1>5. ASSUME NEW q \in late
      PROVE  /\ k.wait[q] # NoWait /\ k.wait[q].players # {}
             /\ k.wait[q].elapsed + (t - k.wait[q].since) >= FaultAfter
  BY <1>5 DEF Negotiation!Late, NoWait
<1>6. ASSUME NEW q \in Requests, k.wait[q] # NoWait
      PROVE  /\ ~Negotiation!Forgotten(m.wait[q]) /\ k.wait[q] = m.wait[q] /\ e[q] = d[q]
             /\ m.wait[q] # NoWait
  BY <1>2, <1>6
<1>7. ASSUME NEW w \in Waits
      PROVE  /\ [w EXCEPT !.reported = TRUE] \in Waits
             /\ [w EXCEPT !.reported = TRUE].elapsed = w.elapsed
             /\ [w EXCEPT !.reported = TRUE].since = w.since
             /\ [w EXCEPT !.reported = TRUE].players = w.players
             /\ [w EXCEPT !.reported = TRUE].reported = TRUE
  BY DEF Waits
<1>8. W \in [Requests -> {NoWait} \cup Waits]
  <2>1. ASSUME NEW q \in Requests PROVE W[q] \in {NoWait} \cup Waits
    <3>1. k.wait[q] \in {NoWait} \cup Waits
      BY <1>3 DEF Negotiators
    <3> QED BY <1>5, <1>7, <3>1
  <2> HIDE DEF late
  <2> QED BY <2>1
<1>9. y \in Negotiators
  <2> DEFINE s == k.stalled \/ late # {}
  <2>1. s \in BOOLEAN
    BY <1>3 DEF Negotiators
  <2>2. y = [k EXCEPT !.wait = W, !.stalled = s]
    BY <1>4
  <2> HIDE DEF y, W, late, s
  <2> QED BY <1>3, <1>8, <2>1, <2>2 DEF Negotiators
<1>10. ASSUME NEW q \in Requests
       PROVE  /\ W[q] = NoWait <=> k.wait[q] = NoWait
              /\ W[q] # NoWait =>
                   /\ m.wait[q] # NoWait /\ e[q] = d[q] /\ k.wait[q] = m.wait[q]
                   /\ W[q].elapsed = m.wait[q].elapsed /\ W[q].since = m.wait[q].since
                   /\ W[q].players = m.wait[q].players
                   /\ W[q].reported = (m.wait[q].reported \/ q \in late)
  <2>1. CASE k.wait[q] = NoWait
    <3>1. q \notin late BY <1>5, <2>1
    <3> QED BY <2>1, <3>1
  <2>2. CASE k.wait[q] # NoWait
    <3>1. k.wait[q] \in Waits /\ k.wait[q] = m.wait[q] /\ e[q] = d[q] /\ m.wait[q] # NoWait
      BY <1>3, <1>6, <2>2 DEF Negotiators
    <3>2. m.wait[q].reported \in BOOLEAN
      BY <3>1 DEF Waits
    <3>3. CASE q \in late
      <4>1. W[q] = [k.wait[q] EXCEPT !.reported = TRUE]
        BY <3>3
      <4>2. W[q] \in Waits
        BY <1>7, <3>1, <4>1
      <4> HIDE DEF W, late
      <4> QED BY <1>7, <2>2, <3>1, <3>3, <4>1, <4>2, NoWaitFacts
    <3>4. CASE q \notin late
      BY <2>2, <3>1, <3>2, <3>4
    <3> QED BY <3>3, <3>4
  <2> QED BY <2>1, <2>2
<1>11. e \in [Requests -> Nat]
  BY <1>1
<1> HIDE DEF W, y
<1>12. ASSUME NEW q \in Requests, W[q] # NoWait
       PROVE  /\ Earned(W[q], e[q], t)
              /\ W[q].players \subseteq Negotiation!Waiting(y, q)
              /\ e[q] >= FaultAfter /\ W[q].players # {} => W[q].reported
  <2>1. /\ m.wait[q] # NoWait /\ e[q] = d[q] /\ k.wait[q] = m.wait[q]
        /\ W[q].elapsed = m.wait[q].elapsed /\ W[q].since = m.wait[q].since
        /\ W[q].players = m.wait[q].players
        /\ W[q].reported = (m.wait[q].reported \/ q \in late)
    BY <1>10, <1>12
  <2>2. Earned(m.wait[q], d[q], t) /\ m.wait[q].players \subseteq Negotiation!Waiting(m, q)
    BY <2>1 DEF Exact
  <2>3. /\ m.wait[q].elapsed \in Nat /\ m.wait[q].since \in Nat
        /\ m.wait[q].reported \in BOOLEAN
    BY <1>1, <2>1, WaitFacts
  <2>4. q \in late <=> /\ ~m.wait[q].reported /\ m.wait[q].players # {}
                       /\ m.wait[q].elapsed + (t - m.wait[q].since) >= FaultAfter
    BY <2>1 DEF Negotiation!Late, NoWait
  <2> HIDE DEF late
  <2>5. Earned(W[q], e[q], t)
    BY <2>1, <2>2, <2>3, <2>4 DEF Earned
  <2>6. e[q] >= FaultAfter /\ W[q].players # {} => W[q].reported
    BY <2>1, <2>2, <2>3, <2>4 DEF Earned
  <2>7. Negotiation!Waiting(y, q) = Negotiation!Waiting(m, q)
    BY <1>2, <1>4 DEF Negotiation!Waiting
  <2> QED BY <2>1, <2>2, <2>5, <2>6, <2>7
<1>13. ASSUME NEW q \in Requests, W[q] = NoWait PROVE e[q] = 0
  BY <1>2, <1>10, <1>13 DEF Exact
<1>14. Exact(y, e, t)
  BY <1>4, <1>9, <1>11, <1>12, <1>13 DEF Exact
<1>15. Told(y, e)
  BY <1>4, <1>12 DEF Told
<1>16. \A q \in Requests : W[q] = NoWait <=> m.wait[q] = NoWait \/ Negotiation!Forgotten(m.wait[q])
  BY <1>2, <1>10
<1> QED BY <1>2, <1>4, <1>14, <1>15, <1>16 DEF y

\* A socket changes: those who wait on it have left it.
LEMMA Moved ==
  ASSUME NEW m, NEW d, NEW t \in Nat, Exact(m, d, t), NEW p \in Places, NEW s \in Seats,
         \A q \in Requests : m.wait[q] # NoWait => p \notin m.wait[q].players
  PROVE  LET y == [m EXCEPT !.socket[p] = s]
         IN  /\ Exact(y, d, t) /\ y.wait = m.wait /\ y.stalled = m.stalled
             /\ y.socket = [m.socket EXCEPT ![p] = s]
             /\ Told(m, d) => Told(y, d)
<1> DEFINE y == [m EXCEPT !.socket[p] = s]
<1>1. m \in Negotiators
  BY DEF Exact
<1>2. /\ y = [m EXCEPT !.socket = [m.socket EXCEPT ![p] = s]]
      /\ y.wait = m.wait /\ y.stalled = m.stalled /\ y.socket = [m.socket EXCEPT ![p] = s]
  BY <1>1 DEF Negotiators
<1>3. [m.socket EXCEPT ![p] = s] \in [Places -> Seats]
  BY <1>1 DEF Negotiators
<1> HIDE DEF y
<1>4. y \in Negotiators
  BY <1>1, <1>2, <1>3 DEF Negotiators
<1>5. ASSUME NEW q \in Requests, m.wait[q] # NoWait
      PROVE  m.wait[q].players \subseteq Negotiation!Waiting(y, q)
  <2>1. m.wait[q].players \subseteq Negotiation!Waiting(m, q) /\ p \notin m.wait[q].players
    BY <1>5 DEF Exact
  <2>2. \A o \in Places : o # p => y.socket[o] = m.socket[o]
    BY <1>1, <1>2 DEF Negotiators
  <2> QED BY <2>1, <2>2 DEF Negotiation!Waiting
<1>6. Exact(y, d, t)
  BY <1>2, <1>4, <1>5 DEF Exact
<1> QED BY <1>2, <1>6 DEF Told, y

\* abandoned
LEMMA Abandoned ==
  ASSUME NEW m, NEW d, negotiationNow \in Nat, Exact(m, d, negotiationNow), NEW p \in Places
  PROVE  LET y == Negotiation!Abandon(m, p)
         IN  /\ Exact(y, d, negotiationNow) /\ y.socket = m.socket /\ y.stalled = m.stalled
             /\ Told(m, d) => Told(y, d)
             /\ \A q \in Requests : y.wait[q] # NoWait => p \notin y.wait[q].players
<1> USE NegotiationAssumption
<1> DEFINE q == Request[p]
           w == m.wait[q]
           rest == w.players \ {p}
           t == negotiationNow
           y == Negotiation!Abandon(m, p)
<1>1. m \in Negotiators /\ q \in Requests /\ d \in [Requests -> Nat]
  BY DEF Exact
<1>2. ASSUME NEW o \in Requests, m.wait[o] # NoWait, p \in m.wait[o].players PROVE o = q
  BY <1>2 DEF Exact, Negotiation!Waiting
<1>3. CASE w = NoWait \/ p \notin w.players
  BY <1>1, <1>2, <1>3 DEF Negotiation!Abandon, NoWait
<1>4. CASE w # NoWait /\ p \in w.players
  <2> DEFINE x == IF rest = {} THEN w.elapsed + (t - w.since) ELSE w.elapsed
             v == [w EXCEPT !.players = rest, !.lastSeen = t, !.elapsed = x]
  <2>1. /\ w \in Waits /\ w.elapsed \in Nat /\ w.since \in Nat
        /\ w.players \subseteq Places /\ w.reported \in BOOLEAN
    BY <1>1, <1>4, WaitFacts
  <2>2. /\ Earned(w, d[q], t) /\ w.players \subseteq Negotiation!Waiting(m, q)
    BY <1>1, <1>4 DEF Exact
  <2>3. x \in Nat
    BY <2>1, <2>2 DEF Earned
  <2>4. y = [m EXCEPT !.wait[q] = v]
    BY <1>4 DEF Negotiation!Abandon, NoWait
  <2> HIDE DEF w
  <2>5. v \in Waits
    <3>1. rest \in SUBSET Places /\ t \in Int
      BY <2>1
    <3> HIDE DEF rest, x, t
    <3> QED BY <2>1, <2>3, <3>1, Zenon DEF Waits
  <2>6. v.players = rest /\ v.elapsed = x /\ v.since = w.since /\ v.reported = w.reported
    BY <2>1 DEF Waits
  <2> HIDE DEF v, y
  <2>7. Earned(v, d[q], t)
    BY <1>1, <1>4, <2>1, <2>2, <2>3, <2>6 DEF Earned
  <2> HIDE DEF x, rest
  <2>8. /\ y.wait = [m.wait EXCEPT ![q] = v] /\ y.socket = m.socket /\ y.stalled = m.stalled
        /\ y = [m EXCEPT !.wait = [m.wait EXCEPT ![q] = v]]
    BY <1>1, <2>4 DEF Negotiators
  <2>9. [m.wait EXCEPT ![q] = v] \in [Requests -> {NoWait} \cup Waits]
    BY <1>1, <2>5 DEF Negotiators
  <2>10. y \in Negotiators
    BY <1>1, <2>8, <2>9 DEF Negotiators
  <2>11. \A o \in Requests : y.wait[o] = IF o = q THEN v ELSE m.wait[o]
    BY <1>1, <2>8 DEF Negotiators
  <2>12. \A o \in Requests : Negotiation!Waiting(y, o) = Negotiation!Waiting(m, o)
    BY <2>8 DEF Negotiation!Waiting
  <2>13. v # NoWait /\ v.players \subseteq Negotiation!Waiting(m, q)
    BY <2>2, <2>5, <2>6, NoWaitFacts DEF rest
  <2>14. Exact(y, d, t)
    BY <1>1, <2>7, <2>10, <2>11, <2>12, <2>13 DEF Exact
  <2>15. Told(m, d) => Told(y, d)
    BY <1>1, <1>4, <2>6, <2>11 DEF Told, rest, w
  <2>16. \A o \in Requests : y.wait[o] # NoWait => p \notin y.wait[o].players
    BY <1>2, <2>6, <2>11 DEF rest
  <2> QED BY <2>8, <2>14, <2>15, <2>16 DEF y
<1> QED BY <1>3, <1>4

\* unsubscribe
LEMMA LeftFacts ==
  ASSUME NEW m, NEW d, negotiationNow \in Nat, Exact(m, d, negotiationNow), NEW p \in Places,
         NEW s \in Seats
  PROVE  LET y == Negotiation!Left(m, p, s)
         IN  /\ Exact(y, d, negotiationNow)
             /\ Told(m, d) => Told(y, d)
             /\ y.socket = [m.socket EXCEPT ![p] = s]
             /\ \A q \in Requests : y.wait[q] # NoWait => p \notin y.wait[q].players
<1> DEFINE k == Negotiation!Abandon(m, p)
<1>1. /\ Exact(k, d, negotiationNow) /\ k.socket = m.socket
      /\ Told(m, d) => Told(k, d)
      /\ \A q \in Requests : k.wait[q] # NoWait => p \notin k.wait[q].players
  BY Abandoned
<1>2. Negotiation!Left(m, p, s) = [k EXCEPT !.socket[p] = s]
  BY DEF Negotiation!Left
<1> HIDE DEF k
<1>3. LET y == [k EXCEPT !.socket[p] = s]
      IN  /\ Exact(y, d, negotiationNow) /\ y.wait = k.wait /\ y.stalled = k.stalled
          /\ y.socket = [k.socket EXCEPT ![p] = s]
          /\ Told(k, d) => Told(y, d)
  BY <1>1, Moved
<1> QED BY <1>1, <1>2, <1>3

\* started, of a socket that waits for no request.
LEMMA Begun ==
  ASSUME NEW m, NEW d, negotiationNow \in Nat, Exact(m, d, negotiationNow), NEW p \in Places,
         m.socket[p].at = "waiting",
         \A q \in Requests : m.wait[q] # NoWait => p \notin m.wait[q].players,
         NEW e, e = [q \in Requests |-> IF Negotiation!Prune(m).wait[q] = NoWait THEN 0 ELSE d[q]]
  PROVE  LET y == Negotiation!Begin(m, p)
         IN  Exact(y, e, negotiationNow) /\ Told(y, e)
<1> USE NegotiationAssumption
<1> DEFINE t == negotiationNow
           q == Request[p]
           k == Negotiation!Prune(m)
           fresh == [elapsed |-> 0, since |-> t, lastSeen |-> t, players |-> {},
                     reported |-> FALSE]
           w == IF k.wait[q] # NoWait THEN k.wait[q] ELSE fresh
           v == [w EXCEPT !.since = Negotiation!Since(w), !.players = @ \cup {p}, !.lastSeen = t]
           x == [k EXCEPT !.wait[q] = v]
<1>1. m \in Negotiators /\ q \in Requests /\ d \in [Requests -> Nat]
  BY DEF Exact
<1>2. /\ k.wait = [o \in Requests |-> IF Negotiation!Forgotten(m.wait[o]) THEN NoWait
                                      ELSE m.wait[o]]
      /\ k = [m EXCEPT !.wait = k.wait]
      /\ k.socket = m.socket /\ k.up = m.up /\ k.stalled = m.stalled
  BY <1>1 DEF Negotiation!Prune, Negotiators, NoWait
<1>3. k \in Negotiators
  <2>1. k.wait \in [Requests -> {NoWait} \cup Waits]
    BY <1>1, <1>2 DEF Negotiators
  <2> HIDE DEF k
  <2> QED BY <1>1, <1>2, <2>1 DEF Negotiators
<1>4. Negotiation!Begin(m, p) = Negotiation!Check(x)
  BY DEF Negotiation!Begin, NoWait
<1> HIDE DEF k
<1>5. \A o \in Requests : /\ k.wait[o] # NoWait => k.wait[o] = m.wait[o]
                          /\ ~Negotiation!Forgotten(k.wait[o])
  BY <1>2 DEF Negotiation!Forgotten, NoWait
<1>6. e \in [Requests -> Nat] /\ \A o \in Requests : e[o] = IF k.wait[o] = NoWait THEN 0 ELSE d[o]
  BY <1>1 DEF k
<1>7. fresh \in Waits /\ Earned(fresh, 0, t)
  BY DEF Waits, Earned
<1>8. w \in Waits /\ Earned(w, e[q], t) /\ p \notin w.players
      /\ w.players \subseteq Negotiation!Waiting(m, q)
  <2>1. CASE k.wait[q] = NoWait
    BY <1>1, <1>6, <1>7, <2>1
  <2>2. CASE k.wait[q] # NoWait
    BY <1>1, <1>3, <1>5, <1>6, <2>2 DEF Exact, Negotiators
  <2> QED BY <2>1, <2>2
<1>9. /\ w.elapsed \in Nat /\ w.since \in Nat /\ w.players \subseteq Places
      /\ w.reported \in BOOLEAN /\ w.since <= t
  BY <1>8 DEF Waits, Earned
<1> HIDE DEF w
<1>10. Negotiation!Since(w) = IF w.players = {} THEN t ELSE w.since
  BY DEF Negotiation!Since
<1>11. v \in Waits
  <2> DEFINE a == Negotiation!Since(w)
             b == w.players \cup {p}
  <2>1. a \in Nat /\ b \in SUBSET Places /\ t \in Int
    BY <1>9, <1>10
  <2>2. v = [w EXCEPT !.since = a, !.players = b, !.lastSeen = t]
    OBVIOUS
  <2> HIDE DEF a, b, t, v
  <2> QED BY <1>8, <2>1, <2>2, Zenon DEF Waits
<1>12. /\ v.elapsed = w.elapsed /\ v.since = Negotiation!Since(w)
       /\ v.players = w.players \cup {p} /\ v.reported = w.reported
  BY <1>8 DEF Waits
<1> HIDE DEF v
<1>13. Earned(v, e[q], t)
  BY <1>1, <1>6, <1>8, <1>9, <1>10, <1>12 DEF Earned
<1>14. /\ x.wait = [k.wait EXCEPT ![q] = v] /\ x.socket = m.socket
       /\ x = [k EXCEPT !.wait = [k.wait EXCEPT ![q] = v]]
  BY <1>2, <1>3 DEF Negotiators
<1>15. [k.wait EXCEPT ![q] = v] \in [Requests -> {NoWait} \cup Waits]
  BY <1>1, <1>3, <1>11 DEF Negotiators
<1> HIDE DEF x
<1>16. x \in Negotiators
  BY <1>3, <1>14, <1>15 DEF Negotiators
<1>17. \A o \in Requests : x.wait[o] = IF o = q THEN v ELSE k.wait[o]
  BY <1>3, <1>14 DEF Negotiators
<1>18. \A o \in Requests : Negotiation!Waiting(x, o) = Negotiation!Waiting(m, o)
  BY <1>14 DEF Negotiation!Waiting
<1>19. v # NoWait /\ v.players \subseteq Negotiation!Waiting(m, q) /\ v.players # {}
  BY <1>8, <1>11, <1>12, NoWaitFacts DEF Negotiation!Waiting
<1>20. Exact(x, e, t)
  <2>1. ASSUME NEW o \in Requests, o # q, k.wait[o] # NoWait
        PROVE  Earned(k.wait[o], e[o], t) /\ k.wait[o].players \subseteq Negotiation!Waiting(m, o)
    BY <1>5, <1>6, <2>1 DEF Exact
  <2> QED BY <1>6, <1>13, <1>16, <1>17, <1>18, <1>19, <2>1 DEF Exact
<1>21. ASSUME NEW o \in Requests PROVE ~Negotiation!Forgotten(x.wait[o])
  <2>1. ~Negotiation!Forgotten(v)
    BY <1>19 DEF Negotiation!Forgotten
  <2> QED BY <1>5, <1>17, <2>1
<1>22. e = [o \in Requests |-> IF Negotiation!Forgotten(x.wait[o]) THEN 0 ELSE e[o]]
  BY <1>6, <1>21
<1>23. Exact(Negotiation!Check(x), e, t) /\ Told(Negotiation!Check(x), e)
  BY <1>20, <1>22, Checked
<1> QED BY <1>4, <1>23

LEMMA NegotiationInit == Negotiation!Init => NegotiationInv
<1> SUFFICES ASSUME Negotiation!Init PROVE NegotiationInv
  OBVIOUS
<1>1. n.wait = [q \in Requests |-> NoWait] /\ waited = [q \in Requests |-> 0]
      /\ negotiationNow = 0 /\ due = FALSE
  BY DEF Negotiation!Init, NoWait
<1>2. Negotiation!Gone \in Seats
  BY DEF Negotiation!Gone, Seats
<1>3. n \in Negotiators
  BY <1>2 DEF Negotiation!Init, Negotiators, NoWait
<1> QED BY <1>1, <1>3 DEF NegotiationInv, Exact, Told

LEMMA NegotiationStep ==
  ASSUME NegotiationInv, [Negotiation!Next]_negotiationVars
  PROVE  NegotiationInv'
<1> USE NegotiationAssumption
<1> DEFINE t == negotiationNow
<1>0. /\ t \in Nat /\ Exact(n, waited, t) /\ (~due => Told(n, waited)) /\ n \in Negotiators
      /\ waited \in [Requests -> Nat]
  BY DEF NegotiationInv, Exact
<1>1. ASSUME UNCHANGED <<negotiationNow, due>>, Exact(n', waited', t), ~due => Told(n', waited')
      PROVE  NegotiationInv'
  BY <1>0, <1>1 DEF NegotiationInv, Exact, Told, Earned, Negotiation!Waiting
\* What a check leaves, and what is remembered after it.
<1>2. ASSUME NEW m, Exact(m, waited, t), NEW k, k = Negotiation!Check(m)
      PROVE  /\ Exact(k, Negotiation!Remembered(k), t) /\ Told(k, Negotiation!Remembered(k))
             /\ k.socket = m.socket
  <2> DEFINE e == [q \in Requests |-> IF Negotiation!Forgotten(m.wait[q]) THEN 0 ELSE waited[q]]
  <2>1. /\ Exact(k, e, t) /\ Told(k, e) /\ k.socket = m.socket
        /\ \A q \in Requests :
             k.wait[q] = NoWait <=> m.wait[q] = NoWait \/ Negotiation!Forgotten(m.wait[q])
    BY <1>0, <1>2, Checked
  <2>2. Negotiation!Remembered(k) = e
    BY <1>2, <2>1 DEF Negotiation!Remembered, Exact, NoWait
  <2> QED BY <2>1, <2>2
<1>3. Negotiation!Remembered(n) = waited
  BY <1>0 DEF Negotiation!Remembered, Exact, NoWait
<1>4. ASSUME NEW p \in Places, Negotiation!Connect(p) PROVE NegotiationInv'
  <2>1. n.socket[p].at = "gone" /\ UNCHANGED <<negotiationNow, due, waited>>
        /\ n' = [n EXCEPT !.socket[p] = [at |-> "open", age |-> 0]]
    BY <1>4 DEF Negotiation!Connect
  <2>2. [at |-> "open", age |-> 0] \in Seats
    BY DEF Seats
  <2>3. \A q \in Requests : n.wait[q] # NoWait => p \notin n.wait[q].players
    BY <1>0, <2>1 DEF Exact, Negotiation!Waiting
  <2> DEFINE s == [at |-> "open", age |-> 0]
  <2> HIDE DEF s
  <2>4. Exact(n', waited, t) /\ (Told(n, waited) => Told(n', waited))
    <3>1. LET y == [n EXCEPT !.socket[p] = s]
          IN  Exact(y, waited, t) /\ (Told(n, waited) => Told(y, waited))
      BY <1>0, <2>2, <2>3, Moved DEF s
    <3> QED BY <2>1, <3>1 DEF s
  <2> QED BY <1>0, <1>1, <2>1, <2>4
<1>5. ASSUME NEW p \in Places, Negotiation!Subscribe(p) PROVE NegotiationInv'
  <2> DEFINE s == [Negotiation!Timed(n.socket[p]) EXCEPT !.at = "waiting"]
             k == Negotiation!Left(n, p, s)
             e == Negotiation!Remembered(Negotiation!Prune(k))
  <2>1. n' = Negotiation!Begin(k, p) /\ waited' = e /\ UNCHANGED <<negotiationNow, due>>
    BY <1>5 DEF Negotiation!Subscribe
  <2>2. s \in Seats /\ s.at = "waiting"
    <3>1. n.socket[p] \in Seats
      BY <1>0 DEF Negotiators
    <3> DEFINE x == n.socket[p]
               a == IF x.age = -1 THEN 0 ELSE x.age
    <3>2. a \in Int
      BY <3>1 DEF Seats
    <3>3. Negotiation!Timed(x) = [x EXCEPT !.age = a]
      BY DEF Negotiation!Timed
    <3> HIDE DEF x, a
    <3>4. [[x EXCEPT !.age = a] EXCEPT !.at = "waiting"] \in Seats
      BY <3>1, <3>2 DEF x, Seats
    <3>5. [[x EXCEPT !.age = a] EXCEPT !.at = "waiting"].at = "waiting"
      BY <3>1 DEF x, Seats
    <3> QED BY <3>3, <3>4, <3>5 DEF x
  <2> HIDE DEF s
  <2>3. /\ Exact(k, waited, t) /\ k.socket = [n.socket EXCEPT ![p] = s]
        /\ \A q \in Requests : k.wait[q] # NoWait => p \notin k.wait[q].players
    BY <1>0, <2>2, LeftFacts
  <2>4. k.socket[p].at = "waiting"
    BY <1>0, <2>2, <2>3 DEF Negotiators
  <2> HIDE DEF k
  <2>5. e = [q \in Requests |-> IF Negotiation!Prune(k).wait[q] = NoWait THEN 0 ELSE waited[q]]
    BY DEF Negotiation!Remembered, NoWait
  <2> HIDE DEF e
  <2>6. Exact(n', e, t) /\ Told(n', e)
    BY <1>0, <2>1, <2>3, <2>4, <2>5, Begun
  <2> QED BY <1>1, <2>1, <2>6
<1>6. ASSUME NEW p \in Places, NEW s \in Seats, n' = Negotiation!Left(n, p, s),
             UNCHANGED <<negotiationNow, due, waited>>
      PROVE  NegotiationInv'
  <2>1. Exact(n', waited, t) /\ (Told(n, waited) => Told(n', waited))
    BY <1>0, <1>6, LeftFacts
  <2> QED BY <1>0, <1>1, <1>6, <2>1
<1>7. ASSUME NEW p \in Places, Negotiation!Unsubscribe(p) PROVE NegotiationInv'
  <2>1. [n.socket[p] EXCEPT !.at = "open"] \in Seats
    <3>1. n.socket[p] \in Seats
      BY <1>0 DEF Negotiators
    <3> QED BY <3>1 DEF Seats
  <2> QED BY <1>6, <1>7, <2>1 DEF Negotiation!Unsubscribe
<1>8. Negotiation!Gone \in Seats
  BY DEF Negotiation!Gone, Seats
<1>9. ASSUME NEW p \in Places, Negotiation!Close(p) PROVE NegotiationInv'
  BY <1>6, <1>8, <1>9 DEF Negotiation!Close
<1>10. ASSUME NEW p \in Places, Negotiation!Response(p) PROVE NegotiationInv'
  <2> DEFINE q == Request[p]
             s == [n.socket[p] EXCEPT !.at = "offered"]
             m == [n EXCEPT !.socket[p] = s]
             k == [m EXCEPT !.wait[q] = NoWait, !.stalled = FALSE]
             d == [waited EXCEPT ![q] = 0]
  <2>1. /\ n.socket[p].at = "waiting" /\ UNCHANGED <<negotiationNow, due>>
        /\ waited' = Negotiation!Remembered(n')
        /\ n' = IF m.stalled THEN Negotiation!Check(k) ELSE k
    BY <1>10 DEF Negotiation!Response, Negotiation!Respond, NoWait
  <2>2. s \in Seats
    <3>1. n.socket[p] \in Seats
      BY <1>0 DEF Negotiators
    <3> QED BY <3>1 DEF Seats
  <2> HIDE DEF s
  <2>3. k = [n EXCEPT !.socket = [n.socket EXCEPT ![p] = s], !.wait = [n.wait EXCEPT ![q] = NoWait],
                      !.stalled = FALSE]
    BY <1>0 DEF Negotiators
  <2>4. /\ k.wait = [n.wait EXCEPT ![q] = NoWait] /\ k.socket = [n.socket EXCEPT ![p] = s]
    BY <1>0, <2>3 DEF Negotiators
  <2>5. /\ [n.socket EXCEPT ![p] = s] \in [Places -> Seats]
        /\ [n.wait EXCEPT ![q] = NoWait] \in [Requests -> {NoWait} \cup Waits]
    BY <1>0, <2>2 DEF Negotiators
  <2> HIDE DEF k, m
  <2>6. k \in Negotiators
    BY <1>0, <2>3, <2>5 DEF Negotiators
  <2>7. \A o \in Requests : k.wait[o] = IF o = q THEN NoWait ELSE n.wait[o]
    BY <1>0, <2>4 DEF Negotiators
  <2>8. \A o \in Places : o # p => k.socket[o] = n.socket[o]
    BY <1>0, <2>4 DEF Negotiators
  <2>9. ASSUME NEW o \in Requests, k.wait[o] # NoWait
        PROVE  k.wait[o].players \subseteq Negotiation!Waiting(k, o)
    BY <1>0, <2>7, <2>8, <2>9 DEF Exact, Negotiation!Waiting
  <2>10. q \in Requests /\ d \in [Requests -> Nat]
         /\ \A o \in Requests : d[o] = IF o = q THEN 0 ELSE waited[o]
    BY <1>0
  <2> HIDE DEF d, q
  <2>11. Exact(k, d, t)
    BY <1>0, <2>6, <2>7, <2>9, <2>10 DEF Exact
  <2>12. ~due => Told(k, d)
    BY <1>0, <2>7, <2>10 DEF Told
  <2>13. CASE ~m.stalled
    <3>1. n' = k BY <2>1, <2>13
    <3>2. waited' = d
      <4>1. waited' = [o \in Requests |-> IF k.wait[o] = NoWait THEN 0 ELSE waited[o]]
        BY <2>1, <3>1 DEF Negotiation!Remembered, NoWait
      <4> QED BY <1>0, <2>7, <2>10, <4>1 DEF Exact
    <3> QED BY <1>1, <2>1, <2>11, <2>12, <3>1, <3>2
  <2>14. CASE m.stalled
    <3> DEFINE e == [o \in Requests |-> IF Negotiation!Forgotten(k.wait[o]) THEN 0 ELSE d[o]]
    <3>1. n' = Negotiation!Check(k)
      BY <2>1, <2>14
    <3>2. /\ Exact(n', e, t) /\ Told(n', e)
          /\ \A o \in Requests :
               n'.wait[o] = NoWait <=> k.wait[o] = NoWait \/ Negotiation!Forgotten(k.wait[o])
      BY <1>0, <2>11, <3>1, Checked
    <3>3. waited' = e
      <4>1. waited' = [o \in Requests |-> IF n'.wait[o] = NoWait THEN 0 ELSE waited[o]]
        BY <2>1 DEF Negotiation!Remembered, NoWait
      <4> QED BY <1>0, <2>7, <2>10, <2>11, <3>2, <4>1 DEF Exact
    <3> QED BY <1>1, <2>1, <3>2, <3>3
  <2> QED BY <2>13, <2>14
<1>11. ASSUME NEW p \in Places, Negotiation!Answer(p) PROVE NegotiationInv'
  <2> DEFINE s == [at |-> "negotiated", age |-> -1]
  <2>1. n.socket[p].at = "offered" /\ UNCHANGED <<negotiationNow, due, waited>>
        /\ n' = [n EXCEPT !.socket[p] = s]
    BY <1>11 DEF Negotiation!Answer
  <2>2. s \in Seats
    BY DEF Seats
  <2>3. \A q \in Requests : n.wait[q] # NoWait => p \notin n.wait[q].players
    BY <1>0, <2>1 DEF Exact, Negotiation!Waiting
  <2> HIDE DEF s
  <2>4. LET y == [n EXCEPT !.socket[p] = s]
        IN  Exact(y, waited, t) /\ (Told(n, waited) => Told(y, waited))
    BY <1>0, <2>2, <2>3, Moved
  <2> QED BY <1>0, <1>1, <2>1, <2>4
<1>12. ASSUME NEW p \in Places, Negotiation!Deadline(p) PROVE NegotiationInv'
  <2> DEFINE m == [n EXCEPT !.stalled = TRUE]
             k == IF n.socket[p].at = "waiting" THEN Negotiation!Check(m) ELSE n
  <2>1. /\ n' = Negotiation!Left(k, p, Negotiation!Gone)
        /\ waited' = Negotiation!Remembered(k) /\ UNCHANGED <<negotiationNow, due>>
    BY <1>12 DEF Negotiation!Deadline
  <2>2. Exact(m, waited, t)
    <3>1. m \in Negotiators /\ m.wait = n.wait /\ m.socket = n.socket
      BY <1>0 DEF Negotiators
    <3> HIDE DEF m
    <3> QED BY <1>0, <3>1 DEF Exact, Negotiation!Waiting
  <2> HIDE DEF m
  <2>3. Exact(k, Negotiation!Remembered(k), t) /\ (~due => Told(k, Negotiation!Remembered(k)))
    <3>1. CASE n.socket[p].at = "waiting"
      BY <1>2, <2>2, <3>1
    <3>2. CASE n.socket[p].at # "waiting"
      BY <1>0, <1>3, <3>2
    <3> QED BY <3>1, <3>2
  <2> HIDE DEF k
  <2> DEFINE e == Negotiation!Remembered(k)
  <2>4. Exact(k, e, t) /\ (~due => Told(k, e)) /\ waited' = e
    BY <2>1, <2>3
  <2> HIDE DEF e
  <2>5. Exact(n', e, t) /\ (Told(k, e) => Told(n', e))
    BY <1>0, <1>8, <2>1, <2>4, LeftFacts
  <2> QED BY <1>1, <2>1, <2>4, <2>5
<1>13. CASE Negotiation!Replace
  <2> DEFINE a == [n EXCEPT !.up = FALSE, !.stalled = FALSE, !.wait = [q \in Requests |-> NoWait],
                            !.socket = [p \in Places |-> IF @[p].at = "open" THEN @[p]
                                                          ELSE Negotiation!Gone]]
             b == [n EXCEPT !.up = TRUE]
             z == [q \in Requests |-> 0]
  <2>1. /\ n' = IF n.up THEN Negotiation!Check(a) ELSE Negotiation!Check(b)
        /\ waited' = Negotiation!Remembered(n') /\ UNCHANGED <<negotiationNow, due>>
    BY <1>13 DEF Negotiation!Replace, NoWait
  <2>2. Exact(b, waited, t)
    <3>1. b \in Negotiators /\ b.wait = n.wait /\ b.socket = n.socket
      BY <1>0 DEF Negotiators
    <3> HIDE DEF b
    <3> QED BY <1>0, <3>1 DEF Exact, Negotiation!Waiting
  <2>3. Exact(a, z, t)
    <3> DEFINE so == [p \in Places |-> IF n.socket[p].at = "open" THEN n.socket[p]
                                       ELSE Negotiation!Gone]
               wa == [q \in Requests |-> NoWait]
    <3>1. so \in [Places -> Seats] /\ wa \in [Requests -> {NoWait} \cup Waits]
      BY <1>0, <1>8 DEF Negotiators
    <3>2. a = [n EXCEPT !.up = FALSE, !.stalled = FALSE, !.wait = wa, !.socket = so]
      OBVIOUS
    <3>3. \A q \in Requests : wa[q] = NoWait
      OBVIOUS
    <3> HIDE DEF a, so, wa
    <3>4. a \in Negotiators /\ a.wait = wa
      BY <1>0, <3>1, <3>2 DEF Negotiators
    <3> QED BY <3>3, <3>4 DEF Exact
  <2>4. CASE n.up
    <3> DEFINE e == [q \in Requests |-> IF Negotiation!Forgotten(a.wait[q]) THEN 0 ELSE z[q]]
    <3> HIDE DEF a
    <3>1. n' = Negotiation!Check(a)
      BY <2>1, <2>4
    <3>2. Exact(n', e, t) /\ Told(n', e)
          /\ \A q \in Requests :
               n'.wait[q] = NoWait <=> a.wait[q] = NoWait \/ Negotiation!Forgotten(a.wait[q])
      BY <1>0, <2>3, <3>1, Checked
    <3>3. \A q \in Requests : a.wait[q] = NoWait
      BY <1>0 DEF a, Negotiators
    <3>4. waited' = e
      BY <2>1, <3>2, <3>3 DEF Negotiation!Remembered, NoWait
    <3> QED BY <1>1, <2>1, <3>2, <3>4
  <2>5. CASE ~n.up
    <3> HIDE DEF b
    <3>1. n' = Negotiation!Check(b)
      BY <2>1, <2>5
    <3>2. Exact(n', Negotiation!Remembered(n'), t) /\ Told(n', Negotiation!Remembered(n'))
      BY <1>2, <2>2, <3>1
    <3>3. Exact(n', waited', t) /\ Told(n', waited')
      BY <2>1, <3>2
    <3> QED BY <1>1, <2>1, <3>3
  <2> QED BY <2>4, <2>5
<1>14. CASE Negotiation!HealthTimer
  <2>1. /\ n' = Negotiation!Check(n) /\ waited' = Negotiation!Remembered(n')
        /\ UNCHANGED negotiationNow
    BY <1>14 DEF Negotiation!HealthTimer
  <2>2. Exact(n', Negotiation!Remembered(n'), t) /\ Told(n', Negotiation!Remembered(n'))
    BY <1>0, <1>2, <2>1
  <2>3. Exact(n', waited', t) /\ Told(n', waited')
    BY <2>1, <2>2
  <2>4. negotiationNow' = t
    BY <2>1
  <2> QED BY <1>0, <2>3, <2>4 DEF NegotiationInv, Exact, Told, Earned, Negotiation!Waiting
<1>15. CASE Negotiation!Tick
  <2> DEFINE so == [p \in Places |-> Negotiation!Older(n.socket[p])]
             e == [q \in Requests |->
                    IF n.wait[q] # NoWait /\ Negotiation!Waiting(n, q) \cap n.wait[q].players # {}
                    THEN waited[q] + 1 ELSE waited[q]]
  <2>1. /\ n' = [n EXCEPT !.socket = so] /\ waited' = e
        /\ negotiationNow' = t + 1 /\ due' = TRUE
    <3>1. n' = [n EXCEPT !.socket = so]
      BY <1>15 DEF Negotiation!Tick
    <3>2. waited' = e
      BY <1>15 DEF Negotiation!Tick, NoWait
    <3>3. negotiationNow' = t + 1 /\ due' = TRUE
      BY <1>15 DEF Negotiation!Tick
    <3> QED BY <3>1, <3>2, <3>3
  <2>2. ASSUME NEW p \in Places PROVE so[p] \in Seats /\ so[p].at = n.socket[p].at
    <3>1. n.socket[p] \in Seats
      BY <1>0 DEF Negotiators
    <3> QED BY <3>1 DEF Negotiation!Older, Seats
  <2>3. so \in [Places -> Seats]
    <3>1. \A p \in Places : so[p] \in Seats
      BY <2>2
    <3> QED BY <3>1
  <2> HIDE DEF so
  <2>4. n' \in Negotiators /\ n'.wait = n.wait /\ n'.socket = so
    BY <1>0, <2>1, <2>3 DEF Negotiators
  <2>5. \A q \in Requests : Negotiation!Waiting(n', q) = Negotiation!Waiting(n, q)
    BY <2>2, <2>4 DEF Negotiation!Waiting
  <2>6. e \in [Requests -> Nat]
    BY <1>0
  <2>7. ASSUME NEW q \in Requests, n.wait[q] # NoWait
        PROVE  Earned(n.wait[q], e[q], t + 1)
    <3>1. /\ Earned(n.wait[q], waited[q], t)
          /\ n.wait[q].players \subseteq Negotiation!Waiting(n, q)
      BY <1>0, <2>7 DEF Exact
    <3>2. n.wait[q].elapsed \in Nat /\ n.wait[q].since \in Nat
      BY <1>0, <2>7, WaitFacts
    <3>3. e[q] = IF n.wait[q].players # {} THEN waited[q] + 1 ELSE waited[q]
      BY <2>7, <3>1
    <3> HIDE DEF e
    <3> QED BY <1>0, <3>1, <3>2, <3>3 DEF Earned
  <2>8. ASSUME NEW q \in Requests, n.wait[q] = NoWait PROVE e[q] = 0
    BY <1>0, <2>8 DEF Exact
  <2> HIDE DEF e
  <2>9. Exact(n', e, t + 1)
    BY <1>0, <2>4, <2>5, <2>6, <2>7, <2>8 DEF Exact
  <2>10. t + 1 \in Nat
    BY <1>0
  <2> QED BY <2>1, <2>9, <2>10 DEF NegotiationInv, Exact, Told, Earned, Negotiation!Waiting
<1>16. CASE UNCHANGED negotiationVars
  BY <1>0, <1>1, <1>16 DEF negotiationVars
<1> QED
  BY <1>4, <1>5, <1>7, <1>9, <1>10, <1>11, <1>12, <1>13, <1>14, <1>15, <1>16
  DEF Negotiation!Next

LEMMA NegotiationSound == NegotiationInv => Negotiation!ReportsAreEarned
BY WaitFacts DEF NegotiationInv, Negotiation!ReportsAreEarned, Exact, Told, Earned, NoWait

-----------------------------------------------------------------------------
(* Relay: the searches of the SFU for a streamer.                          *)

IsSeq(s) == s \in Seq({s[i] : i \in DOMAIN s})

\* A message of these types is in s; there are not two.
Has(s, T) == \E i \in DOMAIN s : s[i].type \in T
One(s, T) == \A i, j \in DOMAIN s : s[i].type \in T /\ s[j].type \in T => i = j

Down == {"identify", "streamerList", "streamerDisconnected"}
Up == {"listStreamers", "subscribe"}

AtMostOne(a, b, c, d) ==
  ~(a /\ b) /\ ~(a /\ c) /\ ~(a /\ d) /\ ~(b /\ c) /\ ~(b /\ d) /\ ~(c /\ d)

LEMMA SeqFacts ==
  ASSUME NEW s
  PROVE  IsSeq(s) <=> \E S : s \in Seq(S)
<1>1. ASSUME NEW S, s \in Seq(S) PROVE IsSeq(s)
  <2>1. Len(s) \in Nat /\ DOMAIN s = 1 .. Len(s) /\ s \in [1 .. Len(s) -> S]
    BY <1>1
  <2> DEFINE R == {s[i] : i \in DOMAIN s}
  <2>2. s \in [1 .. Len(s) -> R]
    BY <2>1
  <2> HIDE DEF R
  <2>3. s \in Seq(R)
    BY <2>1, <2>2
  <2> QED BY <2>3 DEF IsSeq, R
<1> QED BY <1>1 DEF IsSeq

LEMMA JoinFacts ==
  ASSUME NEW s, NEW t, IsSeq(s), IsSeq(t), NEW T
  PROVE  /\ IsSeq(s \o t)
         /\ Has(s \o t, T) <=> Has(s, T) \/ Has(t, T)
         /\ One(s, T) /\ ~Has(t, T) => One(s \o t, T)
         /\ ~Has(s, T) /\ One(t, T) => One(s \o t, T)
<1> DEFINE S == {s[i] : i \in DOMAIN s} \cup {t[i] : i \in DOMAIN t}
           u == s \o t
<1>1. s \in Seq(S) /\ t \in Seq(S)
  <2>1. /\ Len(s) \in Nat /\ DOMAIN s = 1 .. Len(s)
        /\ Len(t) \in Nat /\ DOMAIN t = 1 .. Len(t)
        /\ s = [i \in 1 .. Len(s) |-> s[i]] /\ t = [i \in 1 .. Len(t) |-> t[i]]
    BY DEF IsSeq
  <2>2. (\A i \in DOMAIN s : s[i] \in S) /\ (\A i \in DOMAIN t : t[i] \in S)
    OBVIOUS
  <2> HIDE DEF S
  <2> QED BY <2>1, <2>2
<1> HIDE DEF S
<1>2. /\ u \in Seq(S) /\ Len(u) = Len(s) + Len(t) /\ Len(s) \in Nat /\ Len(t) \in Nat
      /\ DOMAIN u = 1 .. Len(s) + Len(t) /\ DOMAIN s = 1 .. Len(s) /\ DOMAIN t = 1 .. Len(t)
      /\ \A i \in 1 .. Len(s) : u[i] = s[i]
      /\ \A i \in 1 .. Len(t) : u[Len(s) + i] = t[i]
  BY <1>1
<1> HIDE DEF u
<1>3. ASSUME NEW i \in DOMAIN u
      PROVE  \/ i \in DOMAIN s /\ u[i] = s[i]
             \/ \E j \in DOMAIN t : i = Len(s) + j /\ u[i] = t[j]
  <2>1. CASE i <= Len(s)
    BY <1>2, <2>1
  <2>2. CASE i > Len(s)
    <3>1. i - Len(s) \in DOMAIN t /\ i = Len(s) + (i - Len(s))
      BY <1>2, <2>2
    <3> QED BY <1>2, <3>1
  <2> QED BY <1>2, <2>1, <2>2
<1>4. Has(u, T) <=> Has(s, T) \/ Has(t, T)
  <2>1. ASSUME Has(u, T) PROVE Has(s, T) \/ Has(t, T)
    BY <1>3, <2>1 DEF Has
  <2>2. ASSUME Has(s, T) PROVE Has(u, T)
    BY <1>2, <2>2 DEF Has
  <2>3. ASSUME Has(t, T) PROVE Has(u, T)
    <3>1. PICK j \in DOMAIN t : t[j].type \in T
      BY <2>3 DEF Has
    <3>2. Len(s) + j \in DOMAIN u /\ u[Len(s) + j] = t[j]
      BY <1>2
    <3> QED BY <3>1, <3>2 DEF Has
  <2> QED BY <2>1, <2>2, <2>3
<1>5. ASSUME One(s, T), ~Has(t, T) PROVE One(u, T)
  BY <1>3, <1>5 DEF One, Has
<1>6. ASSUME ~Has(s, T), One(t, T) PROVE One(u, T)
  BY <1>3, <1>6 DEF One, Has
<1>7. IsSeq(u)
  BY <1>2, SeqFacts
<1> QED BY <1>4, <1>5, <1>6, <1>7 DEF u

LEMMA TailFacts ==
  ASSUME NEW s, IsSeq(s), s # <<>>, NEW T
  PROVE  /\ IsSeq(Tail(s))
         /\ Has(Tail(s), T) => Has(s, T)
         /\ Head(s).type \in T => Has(s, T)
         /\ One(s, T) => One(Tail(s), T)
         /\ One(s, T) /\ Head(s).type \in T => ~Has(Tail(s), T)
<1> DEFINE S == {s[i] : i \in DOMAIN s}
           t == Tail(s)
<1>1. s \in Seq(S)
  BY DEF IsSeq
<1> HIDE DEF S
<1>2. /\ t \in Seq(S) /\ Len(t) = Len(s) - 1 /\ Len(s) \in Nat \ {0}
      /\ DOMAIN s = 1 .. Len(s) /\ DOMAIN t = 1 .. Len(s) - 1
      /\ \A i \in 1 .. Len(s) - 1 : t[i] = s[i + 1]
      /\ Head(s) = s[1]
  BY <1>1
<1> HIDE DEF t
<1>3. ASSUME NEW i \in DOMAIN t PROVE i + 1 \in DOMAIN s /\ t[i] = s[i + 1] /\ i + 1 # 1
  BY <1>2
<1>4. IsSeq(t)
  BY <1>2, SeqFacts
<1>5. Has(t, T) => Has(s, T)
  BY <1>3 DEF Has
<1>6. Head(s).type \in T => Has(s, T)
  BY <1>2 DEF Has
<1>7. ASSUME One(s, T) PROVE One(t, T)
  <2>1. \A i, j \in DOMAIN t : i + 1 = j + 1 => i = j
    BY <1>2
  <2> QED BY <1>3, <1>7, <2>1 DEF One
<1>8. ASSUME One(s, T), Head(s).type \in T PROVE ~Has(t, T)
  <2>1. 1 \in DOMAIN s
    BY <1>2
  <2> QED BY <1>2, <1>3, <1>8, <2>1 DEF One, Has
<1> QED BY <1>4, <1>5, <1>6, <1>7, <1>8 DEF t

LEMMA EmptyFacts ==
  ASSUME NEW T
  PROVE  IsSeq(<<>>) /\ ~Has(<<>>, T) /\ One(<<>>, T)
<1>1. <<>> \in Seq({})
  OBVIOUS
<1>2. DOMAIN <<>> = {}
  OBVIOUS
<1> QED BY <1>1, <1>2, SeqFacts DEF Has, One

LEMMA SingleFacts ==
  ASSUME NEW m, NEW T
  PROVE  /\ IsSeq(<<m>>) /\ One(<<m>>, T)
         /\ Has(<<m>>, T) <=> m.type \in T
<1>1. <<m>> \in Seq({m})
  OBVIOUS
<1>2. DOMAIN <<m>> = {1} /\ <<m>>[1] = m
  OBVIOUS
<1> QED BY <1>1, <1>2, SeqFacts DEF Has, One

LEMMA PairFacts ==
  ASSUME NEW a, NEW b, NEW T
  PROVE  /\ IsSeq(<<a, b>>)
         /\ Has(<<a, b>>, T) <=> a.type \in T \/ b.type \in T
         /\ a.type \notin T => One(<<a, b>>, T)
<1>1. <<a, b>> \in Seq({a, b})
  OBVIOUS
<1>2. DOMAIN <<a, b>> = {1, 2} /\ <<a, b>>[1] = a /\ <<a, b>>[2] = b
  OBVIOUS
<1> QED BY <1>1, <1>2, SeqFacts DEF Has, One

LEMMA FarewellFacts ==
  /\ IsSeq(Sfu!Farewells)
  /\ ~Has(Sfu!Farewells, Down)
<1> DEFINE S == {p \in SfuPlayers : srv.watches[p] = Sfu!Relay}
           all == Sfu!SetToSeq(S)
           c == Cardinality(S)
<1>1. IsFiniteSet(S)
  BY RelayAssumption, FS_Subset
<1>2. c \in Nat /\ ExistsBijection(1 .. c, S)
  BY <1>1, FS_CardinalityType
<1>3. all = CHOOSE f \in [1 .. c -> S] : Sfu!IsInjective(f)
  BY DEF Sfu!SetToSeq, Sfu!Cardinality, Cardinality
<1>4. \E f \in [1 .. c -> S] : Sfu!IsInjective(f)
  BY <1>2 DEF ExistsBijection, Bijection, Injection, IsInjective, Sfu!IsInjective
<1>5. all \in [1 .. c -> S]
  BY <1>3, <1>4
<1> HIDE DEF all, S, c
<1> DEFINE F == [i \in DOMAIN all |-> [type |-> "playerDisconnected", player |-> all[i]]]
           M == [type: {"playerDisconnected"}, player: S]
<1>6. Sfu!Farewells = F
  BY DEF Sfu!Farewells, all, S
<1>7. F \in [1 .. c -> M]
  BY <1>5
<1>8. F \in Seq(M)
  <2> HIDE DEF F, M
  <2> QED BY <1>2, <1>7
<1>9. \A i \in DOMAIN F : F[i].type = "playerDisconnected"
  OBVIOUS
<1> HIDE DEF F
<1> QED BY <1>6, <1>8, <1>9, SeqFacts DEF Has, Down

SfuFields ==
  {"sock", "search", "streamer", "fresh", "offers", "peers", "joins", "setups", "dead"}
SrvFields == {"streamers", "on", "streaming", "source", "offers", "missed", "watches"}

RelayInv ==
  /\ SfuFields \subseteq DOMAIN sfu /\ SrvFields \subseteq DOMAIN srv
  /\ sfu.search \in BOOLEAN
  /\ IsSeq(down) /\ IsSeq(relayUp)
  /\ One(down, Down) /\ One(relayUp, Up)
  /\ AtMostOne(Has(down, Down), Has(relayUp, Up), sfu.search, srv.source # "none")
  /\ sfu.sock \notin {"open", "closing"} =>
       ~Has(down, Down) /\ ~Has(relayUp, Up) /\ ~sfu.search /\ srv.source = "none"

LEMMA RelayInit == Sfu!Init => RelayInv
<1> SUFFICES ASSUME Sfu!Init PROVE RelayInv
  OBVIOUS
<1>1. /\ SfuFields \subseteq DOMAIN sfu /\ SrvFields \subseteq DOMAIN srv
      /\ sfu.search = FALSE /\ srv.source = "none" /\ down = <<>> /\ relayUp = <<>>
  BY DEF Sfu!Init, SfuFields, SrvFields, Sfu!NoOne
<1> QED BY <1>1, EmptyFacts DEF RelayInv, AtMostOne

\* What is said of a step of the server whose messages start no search.
LEMMA RelaySpoken ==
  ASSUME RelayInv, NEW msgs, IsSeq(msgs), ~Has(msgs, Down), Sfu!Send(msgs),
         SrvFields \subseteq DOMAIN srv', srv'.source = srv.source,
         UNCHANGED <<sfu, relayUp>>
  PROVE  RelayInv'
<1>1. /\ IsSeq(down') /\ One(down', Down)
      /\ Has(down', Down) <=> Has(down, Down)
  BY JoinFacts DEF RelayInv, Sfu!Send
<1> QED BY <1>1 DEF RelayInv, AtMostOne

\* And of a step of the SFU that looks at no message: a search it has goes on.
LEMMA RelayWorked ==
  ASSUME RelayInv, SfuFields \subseteq DOMAIN sfu', sfu'.sock = sfu.sock,
         sfu'.search = sfu.search, NEW msgs, IsSeq(msgs), ~Has(msgs, Up),
         relayUp' = relayUp \/ relayUp' = relayUp \o msgs, UNCHANGED <<srv, down>>
  PROVE  RelayInv'
<1>1. /\ IsSeq(relayUp') /\ One(relayUp', Up)
      /\ Has(relayUp', Up) <=> Has(relayUp, Up)
  <2>1. IsSeq(relayUp) /\ One(relayUp, Up)
    BY DEF RelayInv
  <2>2. CASE relayUp' = relayUp
    BY <2>1, <2>2
  <2>3. CASE relayUp' = relayUp \o msgs
    BY <2>1, <2>3, JoinFacts
  <2> QED BY <2>2, <2>3
<1> QED BY <1>1 DEF RelayInv, AtMostOne

LEMMA ServerStep ==
  ASSUME RelayInv, Sfu!ServerSteps
  PROVE  RelayInv'
<1> USE DEF Sfu!NoOne
<1>0. SrvFields \subseteq DOMAIN srv
  BY DEF RelayInv
<1>1. ASSUME NEW u, Sfu!StreamerArrives(u) PROVE RelayInv'
  <2>1. SrvFields \subseteq DOMAIN srv' /\ srv'.source = srv.source
    BY <1>0, <1>1 DEF Sfu!StreamerArrives, SrvFields
  <2> QED BY <1>1, <2>1 DEF Sfu!StreamerArrives, RelayInv
<1>2. ASSUME NEW u \in Streamers, Sfu!StreamerLeaves(u) PROVE RelayInv'
  <2> DEFINE a == [srv EXCEPT !.streamers = @ \ {u}]
             s == Sfu!Dropped(a, u)
             l == <<Sfu!Msg("streamerDisconnected")>>
  <2>1. SrvFields \subseteq DOMAIN s /\ s.source = srv.source
    BY <1>0 DEF SrvFields, Sfu!Dropped
  <2>2. /\ srv' = IF srv.source = u THEN Sfu!SourceLost(s) ELSE s
        /\ Sfu!Send(IF srv.source = u THEN l \o Sfu!Farewells ELSE <<>>)
        /\ UNCHANGED <<sfu, relayUp>>
    BY <1>2 DEF Sfu!StreamerLeaves
  <2> HIDE DEF s
  <2>3. CASE srv.source = u
    <3>1. SrvFields \subseteq DOMAIN srv' /\ srv'.source = "none"
      BY <2>1, <2>2, <2>3 DEF SrvFields, Sfu!SourceLost, Sfu!SourceLeft, Sfu!Dropped
    <3>2. Sfu!Msg("streamerDisconnected").type \in Down
      BY DEF Sfu!Msg, Down
    <3>3. IsSeq(l) /\ One(l, Down)
      BY SingleFacts
    <3> HIDE DEF l
    <3>4. IsSeq(l \o Sfu!Farewells) /\ One(l \o Sfu!Farewells, Down)
      BY <3>3, FarewellFacts, JoinFacts
    <3>5. srv.source # "none"
      BY <2>3, RelayAssumption
    <3>6. ~Has(down, Down) /\ ~Has(relayUp, Up) /\ ~sfu.search
          /\ sfu.sock \in {"open", "closing"}
      BY <3>5 DEF RelayInv, AtMostOne
    <3>7. down' = down \o (l \o Sfu!Farewells)
      BY <2>2, <2>3 DEF Sfu!Send
    <3>8. IsSeq(down') /\ One(down', Down)
      BY <3>4, <3>6, <3>7, JoinFacts DEF RelayInv
    <3> QED BY <2>2, <3>1, <3>6, <3>8 DEF RelayInv, AtMostOne
  <2>4. CASE srv.source # u
    <3>1. srv' = s /\ Sfu!Send(<<>>)
      BY <2>2, <2>4
    <3> QED BY <2>1, <2>2, <3>1, EmptyFacts, RelaySpoken
  <2> QED BY <2>3, <2>4
<1>3. CASE Sfu!StreamerOffers
  <2>1. SrvFields \subseteq DOMAIN srv' /\ srv'.source = srv.source
    BY <1>0, <1>3 DEF Sfu!StreamerOffers, SrvFields
  <2>2. IsSeq(<<Sfu!Msg("offer")>>) /\ ~Has(<<Sfu!Msg("offer")>>, Down)
    <3>1. Sfu!Msg("offer").type \notin Down
      BY DEF Sfu!Msg, Down
    <3> QED BY <3>1, SingleFacts
  <2> QED BY <1>3, <2>1, <2>2, RelaySpoken DEF Sfu!StreamerOffers
<1>4. CASE Sfu!ServerReceives
  <2> DEFINE m == Head(relayUp)
  <2>1. /\ relayUp # <<>> /\ relayUp' = Tail(relayUp) /\ UNCHANGED sfu
    BY <1>4 DEF Sfu!ServerReceives
  <2>2. /\ IsSeq(relayUp') /\ One(relayUp', Up)
        /\ Has(relayUp', Up) => Has(relayUp, Up)
        /\ m.type \in Up => Has(relayUp, Up) /\ ~Has(relayUp', Up)
    BY <2>1, TailFacts DEF RelayInv
  \* What was no search goes, and the messages it causes are none.
  <2>3. ASSUME NEW msgs, IsSeq(msgs), ~Has(msgs, Down), Sfu!Send(msgs),
               SrvFields \subseteq DOMAIN srv', srv'.source = srv.source
        PROVE  RelayInv'
    <3>1. /\ IsSeq(down') /\ One(down', Down)
          /\ Has(down', Down) <=> Has(down, Down)
      BY <2>3, JoinFacts DEF RelayInv, Sfu!Send
    <3> QED BY <2>1, <2>2, <2>3, <3>1 DEF RelayInv, AtMostOne
  <2>4. CASE m.type \in {"endpointId", "startStreaming"}
    <3>1. srv' = [srv EXCEPT !.streaming = TRUE] /\ Sfu!Send(<<>>)
      BY <1>4, <2>4 DEF Sfu!ServerReceives
    <3>2. SrvFields \subseteq DOMAIN srv' /\ srv'.source = srv.source
      BY <1>0, <3>1 DEF SrvFields
    <3> QED BY <2>3, <3>1, <3>2, EmptyFacts
  <2>5. CASE m.type = "stopStreaming"
    <3>1. /\ srv' = [Sfu!Dropped(srv, Sfu!Relay) EXCEPT !.streaming = FALSE]
          /\ Sfu!Send(Sfu!Farewells)
      BY <1>4, <2>5 DEF Sfu!ServerReceives
    <3>2. SrvFields \subseteq DOMAIN srv' /\ srv'.source = srv.source
      BY <1>0, <3>1 DEF SrvFields, Sfu!Dropped
    <3> QED BY <2>3, <3>1, <3>2, FarewellFacts
  <2>6. CASE m.type = "listStreamers"
    <3> DEFINE list == [type |-> "streamerList", ids |-> srv.streamers]
    <3>1. down' = down \o <<list>> /\ UNCHANGED srv
      BY <1>4, <2>6 DEF Sfu!ServerReceives, Sfu!Send
    <3>2. Has(relayUp, Up) /\ ~Has(relayUp', Up)
      BY <2>2, <2>6 DEF Up
    <3>3. ~Has(down, Down) /\ ~sfu.search /\ srv.source = "none"
          /\ sfu.sock \in {"open", "closing"}
      BY <3>2 DEF RelayInv, AtMostOne
    <3>4. IsSeq(<<list>>) /\ One(<<list>>, Down)
      BY SingleFacts
    <3> HIDE DEF list
    <3>5. IsSeq(down') /\ One(down', Down)
      BY <3>1, <3>3, <3>4, JoinFacts DEF RelayInv
    <3> QED BY <2>1, <2>2, <3>1, <3>2, <3>3, <3>5 DEF RelayInv, AtMostOne
  <2>7. CASE m.type = "subscribe"
    <3>1. Sfu!Subscribe(m.id) /\ down' = down \o <<>>
      BY <1>4, <2>7 DEF Sfu!ServerReceives, Sfu!Send
    <3>2. SrvFields \subseteq DOMAIN srv'
      BY <1>0, <3>1 DEF Sfu!Subscribe, SrvFields
    <3>3. Has(relayUp, Up) /\ ~Has(relayUp', Up)
      BY <2>2, <2>7 DEF Up
    <3>4. ~Has(down, Down) /\ ~sfu.search
          /\ sfu.sock \in {"open", "closing"}
      BY <3>3 DEF RelayInv, AtMostOne
    <3>5. IsSeq(down') /\ One(down', Down) /\ ~Has(down', Down)
      BY <3>1, <3>4, EmptyFacts, JoinFacts DEF RelayInv
    <3> QED BY <2>1, <2>2, <3>2, <3>3, <3>4, <3>5 DEF RelayInv, AtMostOne
  <2> QED BY <1>4, <2>4, <2>5, <2>6, <2>7 DEF Sfu!ServerReceives
<1>5. ASSUME NEW p, NEW x, Sfu!PlayerSubscribes(p, x) PROVE RelayInv'
  <2> DEFINE msgs == IF x = Sfu!Relay THEN <<[type |-> "playerConnected", player |-> p]>> ELSE <<>>
  <2>1. SrvFields \subseteq DOMAIN srv' /\ srv'.source = srv.source
    BY <1>0, <1>5 DEF Sfu!PlayerSubscribes, SrvFields
  <2>2. IsSeq(msgs) /\ ~Has(msgs, Down)
    <3>1. [type |-> "playerConnected", player |-> p].type \notin Down
      BY DEF Down
    <3> QED BY <3>1, SingleFacts, EmptyFacts
  <2>3. Sfu!Send(msgs) /\ UNCHANGED <<sfu, relayUp>>
    BY <1>5 DEF Sfu!PlayerSubscribes
  <2> HIDE DEF msgs
  <2> QED BY <2>1, <2>2, <2>3, RelaySpoken
<1>6. ASSUME NEW p, Sfu!PlayerUnsubscribes(p) PROVE RelayInv'
  <2> DEFINE msgs == IF srv.watches[p] = Sfu!Relay
                     THEN <<[type |-> "playerDisconnected", player |-> p]>> ELSE <<>>
  <2>1. SrvFields \subseteq DOMAIN srv' /\ srv'.source = srv.source
    BY <1>0, <1>6 DEF Sfu!PlayerUnsubscribes, SrvFields
  <2>2. IsSeq(msgs) /\ ~Has(msgs, Down)
    <3>1. [type |-> "playerDisconnected", player |-> p].type \notin Down
      BY DEF Down
    <3> QED BY <3>1, SingleFacts, EmptyFacts
  <2>3. Sfu!Send(msgs) /\ UNCHANGED <<sfu, relayUp>>
    BY <1>6 DEF Sfu!PlayerUnsubscribes
  <2> HIDE DEF msgs
  <2> QED BY <2>1, <2>2, <2>3, RelaySpoken
<1>7. ASSUME NEW p, Sfu!PlayerRequestsData(p) PROVE RelayInv'
  <2> DEFINE m == [type |-> "dataChannelRequest", player |-> p]
  <2>1. m.type \notin Down
    BY DEF Down
  <2>2. Sfu!Send(<<m>>) /\ UNCHANGED <<srv, sfu, relayUp>>
    BY <1>7 DEF Sfu!PlayerRequestsData
  <2> HIDE DEF m
  <2> QED BY <1>0, <2>1, <2>2, SingleFacts, RelaySpoken
<1> QED BY <1>1, <1>2, <1>3, <1>4, <1>5, <1>6, <1>7 DEF Sfu!ServerSteps

\* Sends: up to the server, when the socket is open, go what is sent.
LEMMA SendsFacts ==
  ASSUME RelayInv, NEW f, SfuFields \subseteq DOMAIN f, NEW msgs, IsSeq(msgs),
         Sfu!Sends(f, msgs)
  PROVE  /\ SfuFields \subseteq DOMAIN sfu' /\ sfu'.sock = f.sock /\ sfu'.search = f.search
         /\ relayUp' = relayUp \/ (relayUp' = relayUp \o msgs /\ f.sock = "open")
         /\ IsSeq(relayUp')
<1>1. /\ sfu' = IF f.sock = "connecting" THEN [f EXCEPT !.dead = TRUE] ELSE f
      /\ relayUp' = IF f.sock = "open" THEN relayUp \o msgs ELSE relayUp
  BY DEF Sfu!Sends
<1>2. IsSeq(relayUp \o msgs) /\ IsSeq(relayUp)
  BY JoinFacts DEF RelayInv
<1> QED BY <1>1, <1>2 DEF SfuFields

LEMMA ReceivesStep ==
  ASSUME RelayInv, Sfu!SfuReceives
  PROVE  RelayInv'
<1> USE DEF Sfu!NoOne
<1> DEFINE m == Head(down)
<1>0. SfuFields \subseteq DOMAIN sfu
  BY DEF RelayInv
<1>1. down # <<>> /\ down' = Tail(down) /\ UNCHANGED srv
  BY DEF Sfu!SfuReceives
<1>2. /\ IsSeq(down') /\ One(down', Down)
      /\ Has(down', Down) => Has(down, Down)
      /\ m.type \in Down => Has(down, Down) /\ ~Has(down', Down)
  BY <1>1, TailFacts DEF RelayInv
\* A message that is no part of a search.
<1>3. ASSUME UNCHANGED relayUp, SfuFields \subseteq DOMAIN sfu', sfu'.search = sfu.search,
             sfu'.sock = sfu.sock \/ sfu'.sock = "closing"
      PROVE  RelayInv'
  BY <1>1, <1>2, <1>3 DEF RelayInv, AtMostOne
\* A message that is: the search is not in `down` any more, and goes on elsewhere.
<1>4. ASSUME m.type \in Down
      PROVE  /\ ~Has(down', Down) /\ ~Has(relayUp, Up) /\ ~sfu.search /\ srv.source = "none"
             /\ sfu.sock \in {"open", "closing"}
  BY <1>2, <1>4 DEF RelayInv, AtMostOne
<1>5. ASSUME m.type = "identify",
             Sfu!Sends(sfu, <<Sfu!Msg("endpointId"), Sfu!Msg("listStreamers")>>)
      PROVE  RelayInv'
  <2> DEFINE msgs == <<Sfu!Msg("endpointId"), Sfu!Msg("listStreamers")>>
  <2>1. IsSeq(msgs) /\ One(msgs, Up)
    <3>1. Sfu!Msg("endpointId").type \notin Up
      BY DEF Sfu!Msg, Up
    <3> QED BY <3>1, PairFacts
  <2> HIDE DEF msgs
  <2>2. /\ SfuFields \subseteq DOMAIN sfu' /\ sfu'.sock = sfu.sock /\ sfu'.search = sfu.search
        /\ relayUp' = relayUp \/ relayUp' = relayUp \o msgs
        /\ IsSeq(relayUp')
    BY <1>0, <1>5, <2>1, SendsFacts DEF msgs
  <2>3. m.type \in Down
    BY <1>5 DEF Down
  <2>4. One(relayUp', Up)
    <3>1. One(relayUp, Up) /\ IsSeq(relayUp) /\ ~Has(relayUp, Up)
      BY <1>4, <2>3 DEF RelayInv
    <3>2. One(relayUp \o msgs, Up)
      BY <2>1, <3>1, JoinFacts
    <3> QED BY <2>2, <3>1, <3>2
  <2> QED BY <1>1, <1>2, <1>4, <2>2, <2>3, <2>4 DEF RelayInv, AtMostOne
<1>6. ASSUME m.type = "streamerList", Sfu!OnStreamerList(sfu, m.ids) PROVE RelayInv'
  <2>0. m.type \in Down
    BY <1>6 DEF Down
  <2>1. CASE Sfu!Quiet([sfu EXCEPT !.search = TRUE])
    <3>1. /\ SfuFields \subseteq DOMAIN sfu' /\ sfu'.sock = sfu.sock /\ sfu'.search = TRUE
          /\ UNCHANGED relayUp
      BY <1>0, <2>1 DEF Sfu!Quiet, SfuFields
    <3> QED BY <1>1, <1>2, <1>4, <2>0, <3>1 DEF RelayInv, AtMostOne
  <2>2. ASSUME NEW u, Sfu!Sends(sfu, <<[type |-> "subscribe", id |-> u]>>) PROVE RelayInv'
    <3> DEFINE msgs == <<[type |-> "subscribe", id |-> u]>>
    <3>1. IsSeq(msgs) /\ One(msgs, Up)
      BY SingleFacts
    <3> HIDE DEF msgs
    <3>2. /\ SfuFields \subseteq DOMAIN sfu' /\ sfu'.sock = sfu.sock /\ sfu'.search = sfu.search
          /\ relayUp' = relayUp \/ relayUp' = relayUp \o msgs
          /\ IsSeq(relayUp')
      BY <1>0, <2>2, <3>1, SendsFacts DEF msgs
    <3>3. One(relayUp', Up)
      <4>1. One(relayUp, Up) /\ IsSeq(relayUp) /\ ~Has(relayUp, Up)
        BY <1>4, <2>0 DEF RelayInv
      <4>2. One(relayUp \o msgs, Up)
        BY <3>1, <4>1, JoinFacts
      <4> QED BY <3>2, <4>1, <4>2
    <3> QED BY <1>1, <1>2, <1>4, <2>0, <3>2, <3>3 DEF RelayInv, AtMostOne
  <2> QED BY <1>6, <2>1, <2>2 DEF Sfu!OnStreamerList
<1>7. ASSUME Sfu!OnStreamerOffer(sfu) PROVE RelayInv'
  <2>1. /\ UNCHANGED relayUp /\ SfuFields \subseteq DOMAIN sfu' /\ sfu'.search = sfu.search
        /\ sfu'.sock = sfu.sock \/ sfu'.sock = "closing"
    BY <1>0, <1>7 DEF Sfu!OnStreamerOffer, Sfu!Quiet, SfuFields
  <2> QED BY <1>3, <2>1
<1>8. ASSUME m.type = "streamerDisconnected", Sfu!OnStreamerDisconnected(sfu) PROVE RelayInv'
  <2> DEFINE g == [Sfu!TornDown(sfu) EXCEPT !.search = Sfu!SearchAfter(sfu),
                                          !.offers = [i \in DOMAIN @ |-> FALSE]]
             msgs == <<Sfu!Msg("stopStreaming")>>
  <2>0. m.type \in Down
    BY <1>8 DEF Down
  <2>1. SfuFields \subseteq DOMAIN g /\ g.sock = sfu.sock /\ g.search = TRUE
    BY <1>0 DEF SfuFields, Sfu!TornDown, Sfu!SearchAfter
  <2>2. Sfu!Sends(g, msgs) \/ Sfu!Quiet(g)
    BY <1>8 DEF Sfu!OnStreamerDisconnected
  <2>3. IsSeq(msgs) /\ ~Has(msgs, Up)
    <3>1. Sfu!Msg("stopStreaming").type \notin Up
      BY DEF Sfu!Msg, Up
    <3> QED BY <3>1, SingleFacts
  <2> HIDE DEF g, msgs
  <2>4. /\ SfuFields \subseteq DOMAIN sfu' /\ sfu'.sock = sfu.sock /\ sfu'.search = TRUE
        /\ relayUp' = relayUp \/ relayUp' = relayUp \o msgs
    <3>1. CASE Sfu!Sends(g, msgs)
      BY <2>1, <2>3, <3>1, SendsFacts
    <3>2. CASE Sfu!Quiet(g)
      BY <2>1, <3>2 DEF Sfu!Quiet
    <3> QED BY <2>2, <3>1, <3>2
  <2>5. IsSeq(relayUp') /\ One(relayUp', Up) /\ ~Has(relayUp', Up)
    <3>1. IsSeq(relayUp) /\ One(relayUp, Up) /\ ~Has(relayUp, Up)
      BY <1>4, <2>0 DEF RelayInv
    <3>2. IsSeq(relayUp \o msgs) /\ One(relayUp \o msgs, Up) /\ ~Has(relayUp \o msgs, Up)
      BY <2>3, <3>1, JoinFacts
    <3> QED BY <2>4, <3>1, <3>2
  <2> QED BY <1>1, <1>2, <1>4, <2>0, <2>4, <2>5 DEF RelayInv, AtMostOne
<1>9. ASSUME NEW p, Sfu!OnPeerConnected(sfu, p) \/ Sfu!OnDataChannelRequest(sfu, p)
                      \/ Sfu!Quiet([sfu EXCEPT !.peers = @ \ {p}])
      PROVE  RelayInv'
  <2>1. /\ UNCHANGED relayUp /\ SfuFields \subseteq DOMAIN sfu' /\ sfu'.search = sfu.search
        /\ sfu'.sock = sfu.sock
    BY <1>0, <1>9 DEF Sfu!OnPeerConnected, Sfu!OnDataChannelRequest, Sfu!Quiet, SfuFields
  <2> QED BY <1>3, <2>1
<1> QED BY <1>5, <1>6, <1>7, <1>8, <1>9 DEF Sfu!SfuReceives

LEMMA SfuStep ==
  ASSUME RelayInv, Sfu!SfuSteps
  PROVE  RelayInv'
<1> USE DEF Sfu!NoOne
<1>0. SfuFields \subseteq DOMAIN sfu /\ SrvFields \subseteq DOMAIN srv
  BY DEF RelayInv
\* A step that sends what is no part of a search.
<1>1. ASSUME NEW f, SfuFields \subseteq DOMAIN f, f.sock = sfu.sock, f.search = sfu.search,
             NEW msgs, IsSeq(msgs), ~Has(msgs, Up), Sfu!Sends(f, msgs), UNCHANGED <<srv, down>>
      PROVE  RelayInv'
  <2>1. /\ SfuFields \subseteq DOMAIN sfu' /\ sfu'.sock = sfu.sock /\ sfu'.search = sfu.search
        /\ relayUp' = relayUp \/ relayUp' = relayUp \o msgs
    BY <1>1, SendsFacts
  <2> QED BY <1>1, <2>1, RelayWorked
<1>2. ASSUME SfuFields \subseteq DOMAIN sfu', sfu'.sock = sfu.sock, sfu'.search = sfu.search,
             UNCHANGED <<relayUp, srv, down>>
      PROVE  RelayInv'
  BY <1>2, EmptyFacts, RelayWorked
<1>3. CASE Sfu!SearchTimer
  <2> DEFINE f == [sfu EXCEPT !.search = FALSE]
             msgs == <<Sfu!Msg("listStreamers")>>
  <2>1. SfuFields \subseteq DOMAIN f /\ f.sock = sfu.sock /\ f.search = FALSE
    BY <1>0 DEF SfuFields
  <2>2. /\ sfu.search /\ UNCHANGED <<srv, down>>
        /\ Sfu!Sends(f, msgs) \/ Sfu!Quiet(f)
    BY <1>3 DEF Sfu!SearchTimer
  <2>3. IsSeq(msgs) /\ One(msgs, Up)
    BY SingleFacts
  <2> HIDE DEF f, msgs
  <2>4. /\ SfuFields \subseteq DOMAIN sfu' /\ sfu'.sock = sfu.sock /\ sfu'.search = FALSE
        /\ relayUp' = relayUp \/ relayUp' = relayUp \o msgs
    <3>1. CASE Sfu!Sends(f, msgs)
      BY <2>1, <2>3, <3>1, SendsFacts
    <3>2. CASE Sfu!Quiet(f)
      BY <2>1, <3>2 DEF Sfu!Quiet
    <3> QED BY <2>2, <3>1, <3>2
  <2>5. /\ ~Has(down, Down) /\ ~Has(relayUp, Up) /\ srv.source = "none"
        /\ sfu.sock \in {"open", "closing"} /\ IsSeq(relayUp)
    BY <2>2 DEF RelayInv, AtMostOne
  <2>6. IsSeq(relayUp') /\ One(relayUp', Up)
    <3>1. IsSeq(relayUp \o msgs) /\ One(relayUp \o msgs, Up) /\ One(relayUp, Up)
      BY <2>3, <2>5, JoinFacts DEF RelayInv
    <3> QED BY <2>4, <2>5, <3>1
  <2> QED BY <2>2, <2>4, <2>5, <2>6 DEF RelayInv, AtMostOne
<1>4. CASE Sfu!OfferAnswered
  <2> DEFINE f == [sfu EXCEPT !.offers = Tail(@), !.streamer = "answered",
                             !.fresh = Head(sfu.offers)]
  <2>1. SfuFields \subseteq DOMAIN f /\ f.sock = sfu.sock /\ f.search = sfu.search
    BY <1>0 DEF SfuFields
  <2>2. Sfu!Sends(f, <<>>) /\ UNCHANGED <<srv, down>>
    BY <1>4 DEF Sfu!OfferAnswered
  <2> HIDE DEF f
  <2> QED BY <1>1, <2>1, <2>2, EmptyFacts
<1>5. CASE Sfu!IceCompleted
  <2> DEFINE f == [sfu EXCEPT !.streamer = "connected"]
             msgs == <<Sfu!Msg("startStreaming")>>
  <2>1. SfuFields \subseteq DOMAIN f /\ f.sock = sfu.sock /\ f.search = sfu.search
    BY <1>0 DEF SfuFields
  <2>2. Sfu!Sends(f, msgs) /\ UNCHANGED <<srv, down>>
    BY <1>5 DEF Sfu!IceCompleted
  <2>3. IsSeq(msgs) /\ ~Has(msgs, Up)
    <3>1. Sfu!Msg("startStreaming").type \notin Up
      BY DEF Sfu!Msg, Up
    <3> QED BY <3>1, SingleFacts
  <2> HIDE DEF f, msgs
  <2> QED BY <1>1, <2>1, <2>2, <2>3
<1>6. ASSUME NEW j, Sfu!JoinTransport(j) PROVE RelayInv'
  <2>1. /\ SfuFields \subseteq DOMAIN sfu' /\ sfu'.sock = sfu.sock /\ sfu'.search = sfu.search
        /\ UNCHANGED <<relayUp, srv, down>>
    BY <1>0, <1>6 DEF Sfu!JoinTransport, Sfu!Quiet, SfuFields
  <2> QED BY <1>2, <2>1
<1>7. ASSUME NEW j, Sfu!JoinConsumed(j) PROVE RelayInv'
  <2> DEFINE f == [sfu EXCEPT !.joins = @ \ {j}]
             g == [f EXCEPT !.peers = @ \cup {j.player}]
             h == [f EXCEPT !.dead = TRUE]
  <2>1. /\ SfuFields \subseteq DOMAIN f /\ f.sock = sfu.sock /\ f.search = sfu.search
        /\ SfuFields \subseteq DOMAIN g /\ g.sock = sfu.sock /\ g.search = sfu.search
        /\ SfuFields \subseteq DOMAIN h /\ h.sock = sfu.sock /\ h.search = sfu.search
    BY <1>0 DEF SfuFields
  <2>2. /\ Sfu!Sends(g, <<>>) \/ Sfu!Quiet(f) \/ Sfu!Quiet(h)
        /\ UNCHANGED <<srv, down>>
    BY <1>7 DEF Sfu!JoinConsumed
  <2> HIDE DEF f, g, h
  <2>3. CASE Sfu!Sends(g, <<>>)
    BY <1>1, <2>1, <2>2, <2>3, EmptyFacts
  <2>4. CASE Sfu!Quiet(f) \/ Sfu!Quiet(h)
    <3>1. /\ SfuFields \subseteq DOMAIN sfu' /\ sfu'.sock = sfu.sock /\ sfu'.search = sfu.search
          /\ UNCHANGED relayUp
      BY <2>1, <2>4 DEF Sfu!Quiet
    <3> QED BY <1>2, <2>2, <3>1
  <2> QED BY <2>2, <2>3, <2>4
<1>8. ASSUME NEW p, Sfu!DataChannelsSetUp(p) PROVE RelayInv'
  <2>1. /\ SfuFields \subseteq DOMAIN sfu' /\ sfu'.sock = sfu.sock /\ sfu'.search = sfu.search
        /\ UNCHANGED <<relayUp, srv, down>>
    BY <1>0, <1>8 DEF Sfu!DataChannelsSetUp, Sfu!Quiet, SfuFields
  <2> QED BY <1>2, <2>1
<1>9. CASE Sfu!Closed
  <2>1. down' = <<>> /\ relayUp' = <<>>
    BY <1>9 DEF Sfu!Closed
  <2>2. SfuFields \subseteq DOMAIN sfu' /\ sfu'.search = FALSE
    BY <1>0, <1>9 DEF Sfu!Closed, Sfu!TornDown, Sfu!SearchCancelled, SfuFields
  <2>3. SrvFields \subseteq DOMAIN srv' /\ srv'.source = "none"
    BY <1>0, <1>9 DEF Sfu!Closed, Sfu!Dropped, Sfu!SourceLeft, SrvFields
  <2> QED BY <2>1, <2>2, <2>3, EmptyFacts DEF RelayInv, AtMostOne
<1>10. CASE Sfu!Reconnect
  <2>1. /\ SfuFields \subseteq DOMAIN sfu' /\ sfu'.search = sfu.search /\ sfu.sock = "closed"
        /\ UNCHANGED <<relayUp, srv, down>>
    BY <1>0, <1>10 DEF Sfu!Reconnect, SfuFields
  <2> QED BY <2>1 DEF RelayInv
<1>11. CASE Sfu!Opened
  <2> DEFINE l == <<Sfu!Msg("identify")>>
  <2>1. /\ SfuFields \subseteq DOMAIN sfu' /\ sfu'.search = sfu.search /\ sfu'.sock = "open"
        /\ SrvFields \subseteq DOMAIN srv' /\ srv'.source = srv.source
        /\ sfu.sock = "connecting"
    BY <1>0, <1>11 DEF Sfu!Opened, SfuFields, SrvFields
  <2>2. down' = down \o l /\ UNCHANGED relayUp
    BY <1>11 DEF Sfu!Opened, Sfu!Send
  <2>3. IsSeq(l) /\ One(l, Down)
    BY SingleFacts
  <2> HIDE DEF l
  <2>4. ~Has(down, Down) /\ ~Has(relayUp, Up) /\ ~sfu.search /\ srv.source = "none"
    BY <2>1 DEF RelayInv
  <2>5. IsSeq(down') /\ One(down', Down)
    BY <2>2, <2>3, <2>4, JoinFacts DEF RelayInv
  <2> QED BY <2>1, <2>2, <2>4, <2>5 DEF RelayInv, AtMostOne
<1> QED
  BY <1>3, <1>4, <1>5, <1>6, <1>7, <1>8, <1>9, <1>10, <1>11, ReceivesStep DEF Sfu!SfuSteps

LEMMA RelayStep ==
  ASSUME RelayInv, [Sfu!Next]_relayVars
  PROVE  RelayInv'
<1>1. CASE UNCHANGED relayVars
  BY <1>1 DEF relayVars, RelayInv
<1> QED BY <1>1, ServerStep, SfuStep DEF Sfu!Next

LEMMA RelaySound == RelayInv => Sfu!SearchIsSingle
<1> SUFFICES ASSUME RelayInv, NEW s \in Sfu!Searches, NEW t \in Sfu!Searches
             PROVE  s = t
  BY DEF Sfu!SearchIsSingle
<1> DEFINE SearchOf(x) ==
             \/ \E i \in DOMAIN down : down[i].type \in Down /\ x = <<"down", i>>
             \/ \E i \in DOMAIN relayUp : relayUp[i].type \in Up /\ x = <<"up", i>>
             \/ sfu.search /\ x = <<"timer", 0>>
             \/ srv.source # "none" /\ x = <<"source", 0>>
<1>1. ASSUME NEW x \in Sfu!Searches PROVE SearchOf(x)
  BY <1>1 DEF Sfu!Searches, Sfu!NoOne, Down, Up
<1>2. SearchOf(s) /\ SearchOf(t)
  BY <1>1
<1> QED BY <1>2 DEF RelayInv, One, Has, AtMostOne

-----------------------------------------------------------------------------
(* StreamerRegistry: numbers of names, and the names the registry gives.   *)

\* A set of numbers has a least one.
LEMMA Least == ASSUME NEW S \in SUBSET Nat, S # {} PROVE \E m \in S : \A k \in S : m <= k
<1> DEFINE T == {0 .. k - 1 : k \in S}
<1>1. T \subseteq FiniteSubsetsOf(Nat) /\ T # {}
  <2>1. ASSUME NEW k \in S PROVE IsFiniteSet(0 .. k - 1) /\ 0 .. k - 1 \subseteq Nat
    BY FS_Interval
  <2> QED BY <2>1 DEF FiniteSubsetsOf
<1>2. PICK t \in T : \A s \in T : <<s, t>> \notin StrictSubsetOrdering(Nat)
  BY <1>1, WFMin, FS_StrictSubsetOrderingWellFounded
<1>3. PICK m \in S : t = 0 .. m - 1
  OBVIOUS
<1>4. ASSUME NEW k \in S, k < m PROVE FALSE
  <2>1. 0 .. k - 1 \subseteq 0 .. m - 1 /\ k \in 0 .. m - 1 /\ k \notin 0 .. k - 1
    BY <1>4
  <2>2. <<0 .. k - 1, t>> \in StrictSubsetOrdering(Nat)
    BY <2>1, <1>3, <1>1 DEF StrictSubsetOrdering
  <2> QED BY <2>2, <1>2
<1> QED BY <1>3, <1>4

\* The equation of the digits of a number, for the digits of the smaller ones.
DigitsOf(f, k) == IF k < 10 THEN <<k>> ELSE Append(f[k \div 10], k % 10)

LEMMA Divided ==
  ASSUME NEW k \in Nat, ~(k < 10)
  PROVE  k \div 10 \in Nat /\ k \div 10 < k /\ k % 10 \in 0 .. 9
         /\ k = 10 * (k \div 10) + (k % 10)
OBVIOUS

LEMMA Appended ==
  ASSUME NEW S, NEW s \in Seq(S), NEW t \in Seq(S), NEW x \in S, NEW y \in S
  PROVE  /\ Append(s, x) \in Seq(S) /\ Len(Append(s, x)) = Len(s) + 1
         /\ Append(s, x) = Append(t, y) => s = t /\ x = y
<1>1. ASSUME Append(s, x) = Append(t, y) PROVE s = t /\ x = y
  <2>1. /\ Append(s, x) \in Seq(S) /\ Len(Append(s, x)) = Len(s) + 1
        /\ Append(s, x)[Len(s) + 1] = x
        /\ \A i \in 1 .. Len(s) : Append(s, x)[i] = s[i]
    OBVIOUS
  <2>2. /\ Append(t, y) \in Seq(S) /\ Len(Append(t, y)) = Len(t) + 1
        /\ Append(t, y)[Len(t) + 1] = y
        /\ \A i \in 1 .. Len(t) : Append(t, y)[i] = t[i]
    OBVIOUS
  <2>3. Len(s) = Len(t) /\ x = y
    BY <1>1, <2>1, <2>2
  <2>4. \A i \in 1 .. Len(s) : s[i] = t[i]
    BY <1>1, <2>1, <2>2, <2>3
  <2> QED BY <2>3, <2>4
<1> QED BY <1>1

\* The digits of the numbers up to m.
DigitsTo(f, m) ==
  /\ DOMAIN f = 0 .. m
  /\ \A k \in 0 .. m : f[k] \in Seq(0 .. 9) /\ f[k] = DigitsOf(f, k)

LEMMA DigitsToOne ==
  ASSUME NEW f, NEW m \in Nat, DigitsTo(f, m), NEW g, NEW o \in Nat, DigitsTo(g, o)
  PROVE  \A k \in Nat : k <= m /\ k <= o => f[k] = g[k]
<1> DEFINE S == {k \in Nat : k <= m /\ k <= o /\ f[k] # g[k]}
<1> SUFFICES ASSUME S # {} PROVE FALSE
  OBVIOUS
<1>1. PICK k \in S : \A j \in S : k <= j
  BY Least
<1>2. k \in 0 .. m /\ k \in 0 .. o /\ k \in Nat /\ f[k] # g[k]
  OBVIOUS
<1>3. f[k] = DigitsOf(f, k) /\ g[k] = DigitsOf(g, k)
  BY <1>2 DEF DigitsTo
<1>4. ~(k < 10)
  BY <1>2, <1>3 DEF DigitsOf
<1>5. k \div 10 \in Nat /\ k \div 10 < k
  BY <1>2, <1>4, Divided
<1>6. f[k \div 10] = g[k \div 10]
  BY <1>1, <1>2, <1>5
<1> QED BY <1>2, <1>3, <1>4, <1>6 DEF DigitsOf

LEMMA DigitsToSome == \A m \in Nat : \E f : DigitsTo(f, m)
<1> DEFINE S == {m \in Nat : ~\E f : DigitsTo(f, m)}
<1> SUFFICES ASSUME S # {} PROVE FALSE
  OBVIOUS
<1>1. PICK m \in S : \A j \in S : m <= j
  BY Least
<1>2. m \in Nat /\ ~\E f : DigitsTo(f, m)
  OBVIOUS
<1>3. PICK f : m # 0 => DigitsTo(f, m - 1)
  <2>1. CASE m = 0
    BY <2>1
  <2>2. CASE m # 0
    <3>1. m - 1 \in Nat /\ ~(m <= m - 1)
      BY <1>2, <2>2
    <3> QED BY <1>1, <3>1
  <2> QED BY <2>1, <2>2
<1> DEFINE last == DigitsOf(f, m)
           g == [k \in 0 .. m |-> IF k < m THEN f[k] ELSE last]
<1>4. ASSUME NEW k \in 0 .. m, k < m
      PROVE  g[k] = f[k] /\ f[k] \in Seq(0 .. 9) /\ f[k] = DigitsOf(f, k)
  BY <1>2, <1>3, <1>4 DEF DigitsTo
<1>5. g[m] = last
  BY <1>2
<1>6. last \in Seq(0 .. 9)
  <2>1. CASE m < 10
    BY <1>2, <2>1 DEF DigitsOf
  <2>2. CASE ~(m < 10)
    <3>1. m \div 10 \in Nat /\ m \div 10 < m /\ m % 10 \in 0 .. 9
      BY <1>2, <2>2, Divided
    <3>2. f[m \div 10] \in Seq(0 .. 9)
      BY <1>2, <1>4, <3>1
    <3>3. last = Append(f[m \div 10], m % 10)
      BY <2>2 DEF DigitsOf
    <3> HIDE DEF last
    <3> QED BY <3>1, <3>2, <3>3, Appended
  <2> QED BY <2>1, <2>2
<1>7. ASSUME NEW k \in 0 .. m PROVE DigitsOf(g, k) = DigitsOf(f, k)
  <2>1. CASE k < 10
    BY <2>1 DEF DigitsOf
  <2>2. CASE ~(k < 10)
    <3>1. k \in Nat /\ k <= m
      BY <1>2
    <3>2. k \div 10 \in Nat /\ k \div 10 < k
      BY <2>2, <3>1, Divided
    <3>3. k \div 10 \in 0 .. m /\ k \div 10 < m
      BY <1>2, <3>1, <3>2
    <3>4. g[k \div 10] = f[k \div 10]
      BY <1>4, <3>3
    <3> HIDE DEF g
    <3> QED BY <2>2, <3>4 DEF DigitsOf
  <2> QED BY <2>1, <2>2
<1>8. DOMAIN g = 0 .. m
  OBVIOUS
<1> HIDE DEF g
<1>9. ASSUME NEW k \in 0 .. m PROVE g[k] \in Seq(0 .. 9) /\ g[k] = DigitsOf(g, k)
  <2>1. CASE k < m
    BY <2>1, <1>4, <1>7
  <2>2. CASE ~(k < m)
    <3>1. k = m
      BY <1>2, <2>2
    <3> QED BY <3>1, <1>5, <1>6, <1>7
  <2> QED BY <2>1, <2>2
<1>10. DigitsTo(g, m)
  BY <1>8, <1>9 DEF DigitsTo
<1> QED BY <1>2, <1>10

\* The digits are well defined: the equation has a solution.
LEMMA DigitsFacts ==
  \A k \in Nat : Naming!Digits[k] \in Seq(0 .. 9) /\ Naming!Digits[k] = DigitsOf(Naming!Digits, k)
<1> DEFINE upTo(k) == CHOOSE f : DigitsTo(f, k)
           all == [k \in Nat |-> upTo(k)[k]]
<1>1. ASSUME NEW k \in Nat PROVE DigitsTo(upTo(k), k)
  BY DigitsToSome
<1>2. ASSUME NEW k \in Nat PROVE all[k] = upTo(k)[k]
  OBVIOUS
<1> HIDE DEF upTo
<1>3. ASSUME NEW k \in Nat
      PROVE  all[k] \in Seq(0 .. 9) /\ all[k] = DigitsOf(all, k)
  <2>1. k \in 0 .. k
    OBVIOUS
  <2>2. all[k] \in Seq(0 .. 9) /\ all[k] = DigitsOf(upTo(k), k)
    BY <1>1, <1>2, <2>1 DEF DigitsTo
  <2>3. CASE k < 10
    BY <2>2, <2>3 DEF DigitsOf
  <2>4. CASE ~(k < 10)
    <3>1. k \div 10 \in Nat /\ k \div 10 < k
      BY <2>4, Divided
    <3>2. k \div 10 <= k /\ k \div 10 <= k \div 10
      BY <3>1
    <3>3. upTo(k)[k \div 10] = upTo(k \div 10)[k \div 10]
      BY <1>1, <3>1, <3>2, DigitsToOne
    <3>4. all[k \div 10] = upTo(k)[k \div 10]
      BY <1>2, <3>1, <3>3
    <3> HIDE DEF all
    <3> QED BY <2>2, <2>4, <3>4 DEF DigitsOf
  <2> QED BY <2>3, <2>4
<1>4. all = [k \in Nat |-> DigitsOf(all, k)]
  <2>1. all = [k \in Nat |-> all[k]]
    OBVIOUS
  <2> HIDE DEF all
  <2>2. [k \in Nat |-> all[k]] = [k \in Nat |-> DigitsOf(all, k)]
    BY <1>3
  <2> QED BY <2>1, <2>2
<1> HIDE DEF all
<1>5. Naming!Digits = CHOOSE f : f = [k \in Nat |-> DigitsOf(f, k)]
  BY DEF Naming!Digits, DigitsOf
<1>6. Naming!Digits = [k \in Nat |-> DigitsOf(Naming!Digits, k)]
  BY <1>4, <1>5
<1> DEFINE D == Naming!Digits
<1> HIDE DEF D
<1>7. ASSUME NEW k \in Nat PROVE D[k] = DigitsOf(D, k)
  BY <1>6 DEF D
<1> DEFINE S == {k \in Nat : D[k] \notin Seq(0 .. 9)}
<1>8. S = {}
  <2> SUFFICES ASSUME S # {} PROVE FALSE
    OBVIOUS
  <2>1. PICK k \in S : \A j \in S : k <= j
    BY Least
  <2>2. k \in Nat /\ D[k] \notin Seq(0 .. 9)
    OBVIOUS
  <2>3. CASE k < 10
    <3>1. D[k] = <<k>>
      BY <1>7, <2>2, <2>3 DEF DigitsOf
    <3>2. k \in 0 .. 9
      BY <2>2, <2>3
    <3> QED BY <2>2, <3>1, <3>2
  <2>4. CASE ~(k < 10)
    <3>1. k \div 10 \in Nat /\ k \div 10 < k /\ k % 10 \in 0 .. 9
      BY <2>2, <2>4, Divided
    <3>2. D[k \div 10] \in Seq(0 .. 9)
      BY <2>1, <2>2, <3>1
    <3>3. D[k] = Append(D[k \div 10], k % 10)
      BY <1>7, <2>2, <2>4 DEF DigitsOf
    <3> QED BY <2>2, <3>1, <3>2, <3>3, Appended
  <2> QED BY <2>3, <2>4
<1> QED BY <1>7, <1>8 DEF D

\* Two numbers have the same digits only if they are one.
LEMMA DigitsInjective ==
  ASSUME NEW k \in Nat, NEW j \in Nat, Naming!Digits[k] = Naming!Digits[j]
  PROVE  k = j
<1> DEFINE D == Naming!Digits
           S == {a \in Nat : \E b \in Nat : D[a] = D[b] /\ a # b}
<1> HIDE DEF D
<1>0. \A a \in Nat : D[a] \in Seq(0 .. 9) /\ D[a] = DigitsOf(D, a)
  BY DigitsFacts DEF D
<1> SUFFICES ASSUME S # {} PROVE FALSE
  BY DEF D
<1>1. PICK a \in S : \A b \in S : a <= b
  BY Least
<1>2. PICK b \in Nat : D[a] = D[b] /\ a # b
  OBVIOUS
<1>3. b \in S /\ a \in Nat
  BY <1>2
<1>4. ASSUME NEW c \in Nat, ~(c < 10)
      PROVE  /\ c \div 10 \in Nat /\ c \div 10 < c /\ c % 10 \in 0 .. 9
             /\ c = 10 * (c \div 10) + (c % 10)
             /\ D[c \div 10] \in Seq(0 .. 9)
             /\ D[c] = Append(D[c \div 10], c % 10) /\ Len(D[c]) = Len(D[c \div 10]) + 1
  <2>1. /\ c \div 10 \in Nat /\ c \div 10 < c /\ c % 10 \in 0 .. 9
        /\ c = 10 * (c \div 10) + (c % 10)
    BY <1>4, Divided
  <2>2. D[c \div 10] \in Seq(0 .. 9)
    BY <1>0, <2>1
  <2>3. D[c] = Append(D[c \div 10], c % 10)
    BY <1>0, <1>4 DEF DigitsOf
  <2> QED BY <2>1, <2>2, <2>3, Appended
<1>5. ASSUME NEW c \in Nat, c < 10 PROVE D[c] = <<c>>
  BY <1>0, <1>5 DEF DigitsOf
<1>6. ASSUME NEW c \in Nat, ~(c < 10), NEW d \in Nat, d < 10 PROVE D[c] # D[d]
  <2>1. Len(D[d]) = 1
    BY <1>5, <1>6
  <2>2. D[c \div 10] # <<>>
    <3>1. PICK e \in Nat : e = c \div 10
      BY <1>4, <1>6
    <3>2. CASE e < 10
      <4>1. D[e] = <<e>>
        BY <1>5, <3>2
      <4> QED BY <3>1, <4>1
    <3>3. CASE ~(e < 10)
      <4>1. D[e \div 10] \in Seq(0 .. 9) /\ Len(D[e]) = Len(D[e \div 10]) + 1
        BY <1>4, <3>3
      <4>2. Len(D[e]) # 0
        BY <4>1
      <4> QED BY <3>1, <4>2
    <3> QED BY <3>2, <3>3
  <2>3. D[c \div 10] \in Seq(0 .. 9) /\ Len(D[c]) = Len(D[c \div 10]) + 1
    BY <1>4, <1>6
  <2>4. Len(D[c \div 10]) # 0 /\ Len(D[c \div 10]) \in Nat
    BY <2>2, <2>3
  <2>5. Len(D[c]) # 1
    BY <2>3, <2>4
  <2> QED BY <2>1, <2>5
<1>7. CASE a < 10 /\ b < 10
  <2>1. <<a>> = <<b>>
    BY <1>2, <1>3, <1>5, <1>7
  <2> QED BY <1>2, <2>1
<1>8. CASE (a < 10) # (b < 10)
  BY <1>2, <1>3, <1>6, <1>8
<1>9. CASE ~(a < 10) /\ ~(b < 10)
  <2> DEFINE x == a \div 10
             y == b \div 10
  <2>1. /\ x \in Nat /\ x < a /\ a % 10 \in 0 .. 9 /\ D[x] \in Seq(0 .. 9)
        /\ a = 10 * x + (a % 10) /\ D[a] = Append(D[x], a % 10)
    BY <1>3, <1>4, <1>9
  <2>2. /\ y \in Nat /\ b % 10 \in 0 .. 9 /\ D[y] \in Seq(0 .. 9)
        /\ b = 10 * y + (b % 10) /\ D[b] = Append(D[y], b % 10)
    BY <1>2, <1>4, <1>9
  <2> HIDE DEF x, y
  <2>6. Append(D[x], a % 10) = Append(D[y], b % 10)
    BY <1>2, <2>1, <2>2
  <2>7. a % 10 \in 0 .. 9 /\ b % 10 \in 0 .. 9
    BY <2>1, <2>2
  <2>3. D[x] = D[y] /\ a % 10 = b % 10
    <3>1. PICK s \in Seq(0 .. 9), t \in Seq(0 .. 9) : s = D[x] /\ t = D[y]
      BY <2>1, <2>2
    <3>2. PICK i \in 0 .. 9, o \in 0 .. 9 : i = a % 10 /\ o = b % 10
      BY <2>7
    <3>3. Append(s, i) = Append(t, o)
      BY <2>6, <3>1, <3>2
    <3>4. s = t /\ i = o
      BY <3>3, Appended
    <3> QED BY <3>1, <3>2, <3>4
  <2>4. x # y
    BY <1>2, <2>1, <2>2, <2>3
  <2>5. x \in S
    BY <2>1, <2>2, <2>3, <2>4
  <2> QED BY <1>1, <1>3, <2>1, <2>5
<1> QED BY <1>7, <1>8, <1>9

LEMMA ConcatCancels ==
  ASSUME NEW S, NEW s \in Seq(S), NEW t \in Seq(S), NEW u \in Seq(S), s \o t = s \o u
  PROVE  t = u
<1> DEFINE a == s \o t
           b == s \o u
<1>1. /\ Len(a) = Len(s) + Len(t) /\ Len(b) = Len(s) + Len(u)
      /\ \A i \in 1 .. Len(t) : a[Len(s) + i] = t[i]
      /\ \A i \in 1 .. Len(u) : b[Len(s) + i] = u[i]
  OBVIOUS
<1>2. a = b
  OBVIOUS
<1> HIDE DEF a, b
<1>3. Len(t) = Len(u)
  BY <1>1, <1>2
<1>4. \A i \in 1 .. Len(t) : t[i] = u[i]
  BY <1>1, <1>2, <1>3
<1> QED BY <1>3, <1>4

\* An id may have any digits at its end.
Ids == {<<b, d>> : b \in {e[1] : e \in Wanted \cup {Default}}, d \in Seq(0 .. 9)}

LEMMA NumberedFacts ==
  ASSUME NEW id \in Ids, NEW k \in Nat, NEW j \in Nat
  PROVE  /\ Naming!Numbered(id, k) \in Ids
         /\ Naming!Numbered(id, k) = Naming!Numbered(id, j) => k = j
<1>1. PICK b \in {e[1] : e \in Wanted \cup {Default}}, d \in Seq(0 .. 9) : id = <<b, d>>
  BY DEF Ids
<1>2. id[1] = b /\ id[2] = d
  BY <1>1
<1>3. Naming!Digits[k] \in Seq(0 .. 9) /\ Naming!Digits[j] \in Seq(0 .. 9)
  BY DigitsFacts
<1>4. d \o Naming!Digits[k] \in Seq(0 .. 9)
  BY <1>3
<1>5. Naming!Numbered(id, k) \in Ids
  <2>1. Naming!Numbered(id, k) = <<b, d \o Naming!Digits[k]>>
    BY <1>2 DEF Naming!Numbered
  <2>2. ASSUME NEW e \in Seq(0 .. 9) PROVE <<b, e>> \in Ids
    BY DEF Ids
  <2> QED BY <1>4, <2>1, <2>2
<1>6. ASSUME Naming!Numbered(id, k) = Naming!Numbered(id, j) PROVE k = j
  <2>1. d \o Naming!Digits[k] = d \o Naming!Digits[j]
    BY <1>2, <1>6 DEF Naming!Numbered
  <2>2. Naming!Digits[k] = Naming!Digits[j]
    BY <1>3, <2>1, ConcatCancels
  <2> QED BY <2>2, DigitsInjective
<1> QED BY <1>5, <1>6

LEMMA SameNaming == ASSUME NEW S PROVE Naming!Cardinality(S) = Cardinality(S)
BY DEF Naming!Cardinality, Cardinality

\* One of the numbers that are tried is free.
LEMMA SomeFree ==
  ASSUME NEW id \in Ids, NEW ids, IsFiniteSet(ids)
  PROVE  {k \in 1 .. Naming!Cardinality(ids) + 1 : Naming!Numbered(id, k) \notin ids} # {}
<1> DEFINE top == Cardinality(ids) + 1
           free == {k \in 1 .. top : Naming!Numbered(id, k) \notin ids}
<1>1. Cardinality(ids) \in Nat /\ top \in Nat
  BY FS_CardinalityType
<1>2. free # {}
  <2> SUFFICES ASSUME free = {} PROVE FALSE
    OBVIOUS
  <2> DEFINE f == [k \in 1 .. top |-> Naming!Numbered(id, k)]
  <2>1. f \in Injection(1 .. top, ids)
    <3>1. \A k \in 1 .. top : f[k] \in ids
      OBVIOUS
    <3>2. \A k, j \in 1 .. top : f[k] = f[j] => k = j
      BY <1>1, NumberedFacts
    <3> QED BY <3>1, <3>2, Fun_IsInj
  <2>2. IsFiniteSet(1 .. top) /\ Cardinality(1 .. top) = top
    BY <1>1, FS_Interval
  <2>3. Cardinality(1 .. top) <= Cardinality(ids)
    BY <2>1, FS_Injection DEF ExistsInjection
  <2> QED BY <1>1, <2>2, <2>3
<1> QED BY <1>2, SameNaming

\* What the registry gives is not an id already.
LEMMA CandidateFacts ==
  ASSUME NEW id \in Ids, NEW ids, IsFiniteSet(ids)
  PROVE  Naming!Candidate(id, ids) \notin ids
<1> DEFINE free == {k \in 1 .. Naming!Cardinality(ids) + 1 : Naming!Numbered(id, k) \notin ids}
<1>1. free \in SUBSET Nat
  BY SameNaming, FS_CardinalityType
<1>2. PICK m \in free : \A k \in free : m <= k
  BY <1>1, SomeFree, Least
<1>3. Naming!MinOf(free) \in free
  BY <1>2 DEF Naming!MinOf
<1>4. Naming!Numbered(id, Naming!MinOf(free)) \notin ids
  BY <1>3
<1> HIDE DEF free
<1> QED BY <1>4 DEF Naming!Candidate, free

\* The equation of the number of some digits, for the numbers of fewer ones.
ValueOf(f, d) == IF d = <<>> THEN 0 ELSE 10 * f[Naming!Front(d)] + Naming!Last(d)

Strings == Seq(0 .. 9)

\* A part of a sequence.
LEMMA PartFacts ==
  ASSUME NEW S, NEW s \in Seq(S), NEW i \in Nat \ {0}, NEW j \in Nat, i <= j + 1, j <= Len(s)
  PROVE  SubSeq(s, i, j) \in Seq(S) /\ Len(SubSeq(s, i, j)) = j - i + 1
OBVIOUS

LEMMA Shortened ==
  ASSUME NEW d \in Strings, d # <<>>
  PROVE  /\ Len(d) \in Nat /\ Len(d) # 0
         /\ Naming!Front(d) \in Strings /\ Len(Naming!Front(d)) = Len(d) - 1
         /\ Naming!Last(d) \in 0 .. 9
<1>1. Len(d) \in Nat /\ Len(d) # 0
  BY DEF Strings
<1>2. d[Len(d)] \in 0 .. 9
  BY <1>1 DEF Strings
<1>3. SubSeq(d, 1, Len(d) - 1) \in Seq(0 .. 9) /\ Len(SubSeq(d, 1, Len(d) - 1)) = Len(d) - 1
  <2>1. PICK j \in Nat : j = Len(d) - 1
    BY <1>1
  <2>2. SubSeq(d, 1, j) \in Seq(0 .. 9) /\ Len(SubSeq(d, 1, j)) = j - 1 + 1
    BY <1>1, <2>1, PartFacts DEF Strings
  <2> QED BY <2>1, <2>2
<1> QED BY <1>1, <1>2, <1>3 DEF Naming!Front, Naming!Last, Strings

\* The numbers of up to m digits.
ValueTo(f, m) ==
  \A d \in Strings : Len(d) <= m => f[d] \in Nat /\ f[d] = ValueOf(f, d)

LEMMA ValueToOne ==
  ASSUME NEW f, NEW m \in Nat, ValueTo(f, m), NEW g, NEW o \in Nat, ValueTo(g, o)
  PROVE  \A d \in Strings : Len(d) <= m /\ Len(d) <= o => f[d] = g[d]
<1> DEFINE Bad(d) == Len(d) <= m /\ Len(d) <= o /\ f[d] # g[d]
           S == {Len(d) : d \in {e \in Strings : Bad(e)}}
<1> SUFFICES ASSUME S # {} PROVE FALSE
  OBVIOUS
<1>1. S \in SUBSET Nat
  BY DEF Strings
<1>2. PICK l \in S : \A k \in S : l <= k
  BY <1>1, Least
<1>3. PICK d \in Strings : Bad(d) /\ l = Len(d)
  BY <1>2
<1>4. f[d] = ValueOf(f, d) /\ g[d] = ValueOf(g, d)
  BY <1>3 DEF ValueTo
<1>5. d # <<>>
  BY <1>3, <1>4 DEF ValueOf
<1> DEFINE e == Naming!Front(d)
<1>6. Len(d) \in Nat /\ e \in Strings /\ Len(e) = Len(d) - 1
  BY <1>5, Shortened
<1> HIDE DEF e
<1>7. Len(e) <= m /\ Len(e) <= o /\ ~(Len(d) <= Len(e))
  BY <1>3, <1>6
<1>8. f[e] = g[e]
  BY <1>2, <1>3, <1>6, <1>7
<1> QED BY <1>3, <1>4, <1>5, <1>8 DEF ValueOf, e

LEMMA ValueToSome == \A m \in Nat : \E f : ValueTo(f, m)
<1> DEFINE S == {m \in Nat : ~\E f : ValueTo(f, m)}
<1> SUFFICES ASSUME S # {} PROVE FALSE
  OBVIOUS
<1>1. PICK m \in S : \A j \in S : m <= j
  BY Least
<1>2. m \in Nat /\ ~\E f : ValueTo(f, m)
  OBVIOUS
<1>3. PICK f : m # 0 => ValueTo(f, m - 1)
  <2>1. CASE m = 0
    BY <2>1
  <2>2. CASE m # 0
    <3>1. m - 1 \in Nat /\ ~(m <= m - 1)
      BY <1>2, <2>2
    <3> QED BY <1>1, <3>1
  <2> QED BY <2>1, <2>2
<1> DEFINE g == [d \in Strings |-> IF Len(d) < m THEN f[d] ELSE ValueOf(f, d)]
<1>4. ASSUME NEW d \in Strings, Len(d) < m
      PROVE  g[d] = f[d] /\ f[d] \in Nat /\ f[d] = ValueOf(f, d)
  <2>1. Len(d) \in Nat /\ Len(d) <= m - 1 /\ m # 0
    BY <1>2, <1>4 DEF Strings
  <2>2. f[d] \in Nat /\ f[d] = ValueOf(f, d)
    BY <1>3, <2>1 DEF ValueTo
  <2>3. g[d] = f[d]
    BY <1>4
  <2> QED BY <2>2, <2>3
<1>5. ASSUME NEW d \in Strings, Len(d) = m PROVE g[d] = ValueOf(f, d)
  <2>1. ~(Len(d) < m)
    BY <1>2, <1>5
  <2> QED BY <2>1
<1> HIDE DEF g
<1>6. ASSUME NEW d \in Strings, Len(d) <= m PROVE g[d] \in Nat /\ g[d] = ValueOf(g, d)
  <2>1. CASE d = <<>>
    <3>1. ValueOf(f, d) = 0 /\ ValueOf(g, d) = 0
      BY <2>1 DEF ValueOf
    <3>2. Len(d) < m \/ Len(d) = m
      BY <1>2, <1>6, <2>1
    <3> QED BY <1>4, <1>5, <3>1, <3>2
  <2>2. CASE d # <<>>
    <3> DEFINE e == Naming!Front(d)
               z == Naming!Last(d)
    <3>1. /\ Len(d) \in Nat /\ e \in Strings /\ Len(e) = Len(d) - 1 /\ z \in 0 .. 9
      BY <2>2, Shortened
    <3>2. ValueOf(f, d) = 10 * f[e] + z /\ ValueOf(g, d) = 10 * g[e] + z
      BY <2>2 DEF ValueOf
    <3> HIDE DEF e, z
    <3>3. Len(e) < m
      BY <1>2, <1>6, <3>1
    <3>4. g[e] = f[e] /\ f[e] \in Nat
      BY <1>4, <3>1, <3>3
    <3>5. Len(d) < m \/ Len(d) = m
      BY <1>2, <1>6, <3>1
    <3>6. g[d] = ValueOf(f, d)
      BY <1>4, <1>5, <3>5
    <3>7. 10 * f[e] + z \in Nat
      BY <3>1, <3>4
    <3> QED BY <3>2, <3>4, <3>6, <3>7
  <2> QED BY <2>1, <2>2
<1>7. ValueTo(g, m)
  BY <1>6 DEF ValueTo
<1> QED BY <1>2, <1>7

\* The number of some digits is well defined, and a number.
LEMMA ValueFacts == \A d \in Seq(0 .. 9) : Naming!Value[d] \in Nat
<1> DEFINE upTo(m) == CHOOSE f : ValueTo(f, m)
           all == [d \in Strings |-> upTo(Len(d))[d]]
<1>1. ASSUME NEW m \in Nat PROVE ValueTo(upTo(m), m)
  BY ValueToSome
<1>2. ASSUME NEW d \in Strings PROVE all[d] = upTo(Len(d))[d]
  OBVIOUS
<1> HIDE DEF upTo, all
<1>3. ASSUME NEW d \in Strings PROVE all[d] \in Nat /\ all[d] = ValueOf(all, d)
  <2>1. Len(d) \in Nat /\ Len(d) <= Len(d)
    BY DEF Strings
  <2>2. all[d] \in Nat /\ all[d] = ValueOf(upTo(Len(d)), d)
    BY <1>1, <1>2, <2>1 DEF ValueTo
  <2>3. CASE d = <<>>
    BY <2>2, <2>3 DEF ValueOf
  <2>4. CASE d # <<>>
    <3> DEFINE e == Naming!Front(d)
    <3>1. e \in Strings /\ Len(e) = Len(d) - 1
      BY <2>4, Shortened
    <3>2. ValueOf(upTo(Len(d)), d) = 10 * upTo(Len(d))[e] + Naming!Last(d)
          /\ ValueOf(all, d) = 10 * all[e] + Naming!Last(d)
      BY <2>4 DEF ValueOf
    <3> HIDE DEF e
    <3>3. Len(e) \in Nat /\ Len(e) <= Len(d) /\ Len(e) <= Len(e)
      BY <2>1, <3>1 DEF Strings
    <3>4. upTo(Len(d))[e] = upTo(Len(e))[e]
      BY <1>1, <2>1, <3>1, <3>3, ValueToOne
    <3>5. all[e] = upTo(Len(d))[e]
      BY <1>2, <3>1, <3>4
    <3> QED BY <2>2, <3>2, <3>5
  <2> QED BY <2>3, <2>4
<1>4. all = [d \in Strings |-> ValueOf(all, d)]
  <2>1. all = [d \in Strings |-> all[d]]
    BY DEF all
  <2>2. [d \in Strings |-> all[d]] = [d \in Strings |-> ValueOf(all, d)]
    BY <1>3
  <2> QED BY <2>1, <2>2
<1>5. Naming!Value = CHOOSE f : f = [d \in Strings |-> ValueOf(f, d)]
  BY DEF Naming!Value, ValueOf, Strings
<1> DEFINE V == Naming!Value
<1>6. V = [d \in Strings |-> ValueOf(V, d)]
  BY <1>4, <1>5
<1> HIDE DEF V
<1>7. ASSUME NEW d \in Strings PROVE V[d] = ValueOf(V, d)
  BY <1>6
<1> DEFINE S == {Len(d) : d \in {e \in Strings : V[e] \notin Nat}}
<1>8. S = {}
  <2> SUFFICES ASSUME S # {} PROVE FALSE
    OBVIOUS
  <2>1. S \in SUBSET Nat
    BY DEF Strings
  <2>2. PICK l \in S : \A k \in S : l <= k
    BY <2>1, Least
  <2>3. PICK d \in Strings : V[d] \notin Nat /\ l = Len(d)
    BY <2>2
  <2>4. CASE d = <<>>
    BY <1>7, <2>3, <2>4 DEF ValueOf
  <2>5. CASE d # <<>>
    <3> DEFINE e == Naming!Front(d)
               z == Naming!Last(d)
    <3>1. Len(d) \in Nat /\ e \in Strings /\ Len(e) = Len(d) - 1 /\ z \in 0 .. 9
      BY <2>5, Shortened
    <3>2. V[d] = 10 * V[e] + z
      BY <1>7, <2>5 DEF ValueOf
    <3> HIDE DEF e, z
    <3>3. ~(Len(d) <= Len(e))
      BY <3>1
    <3>4. V[e] \in Nat
      BY <2>2, <2>3, <3>1, <3>3
    <3>5. 10 * V[e] + z \in Nat
      BY <3>1, <3>4
    <3> QED BY <2>3, <3>2, <3>5
  <2> QED BY <2>4, <2>5
<1> QED BY <1>8 DEF V, Strings

LEMMA MaxFacts ==
  ASSUME NEW S \in SUBSET Nat, S # {}, NEW top \in Nat, \A k \in S : k < top
  PROVE  Naming!MaxOf(S) \in S
<1> DEFINE T == {top - k : k \in S}
<1>0. ASSUME NEW k \in S PROVE top - k \in Nat
  <2>1. k \in Nat /\ k < top
    OBVIOUS
  <2> QED BY <2>1
<1>1. T \in SUBSET Nat /\ T # {}
  BY <1>0
<1>2. PICK l \in T : \A t \in T : l <= t
  BY <1>1, Least
<1>3. PICK m \in S : l = top - m
  BY <1>2
<1>4. \A k \in S : k <= m
  <2> SUFFICES ASSUME NEW k \in S PROVE k <= m
    OBVIOUS
  <2>1. top - k \in T
    OBVIOUS
  <2>2. l <= top - k
    BY <1>2, <2>1
  <2> HIDE DEF T
  <2> QED BY <1>3, <2>2
<1> QED BY <1>4 DEF Naming!MaxOf

\* What the registry gives is an id, and no other streamer's.
LEMMA CandidateIsId ==
  ASSUME NEW id \in Ids, NEW ids \in SUBSET Ids, IsFiniteSet(ids)
  PROVE  Naming!Candidate(id, ids) \in Ids
<1> DEFINE P == Naming!Postfixes(id, ids)
<1>1. P \in SUBSET Nat /\ \A k \in P : k < Largest
  <2> SUFFICES ASSUME NEW k \in P PROVE k \in Nat /\ k < Largest
    OBVIOUS
  <2>1. PICK d \in Naming!Endings(id, ids) : k = Naming!Value[d] /\ k < Largest
    BY DEF Naming!Postfixes
  <2>2. PICK e \in ids : /\ e[1] = id[1] /\ Naming!IsPrefix(id[2], e[2])
                         /\ d = SubSeq(e[2], Len(id[2]) + 1, Len(e[2]))
    BY DEF Naming!Endings
  <2>3. id[2] \in Seq(0 .. 9) /\ e[2] \in Seq(0 .. 9)
    BY DEF Ids
  <2>4. Len(id[2]) \in Nat /\ Len(e[2]) \in Nat /\ Len(id[2]) <= Len(e[2])
    BY <2>2, <2>3 DEF Naming!IsPrefix
  <2>5. SubSeq(e[2], Len(id[2]) + 1, Len(e[2])) \in Seq(0 .. 9)
    <3>1. PICK i \in Nat \ {0}, j \in Nat : i = Len(id[2]) + 1 /\ j = Len(e[2])
      BY <2>4
    <3>2. i <= j + 1 /\ j <= Len(e[2])
      BY <2>4, <3>1
    <3>3. SubSeq(e[2], i, j) \in Seq(0 .. 9)
      BY <2>3, <3>2, PartFacts
    <3> QED BY <3>1, <3>3
  <2> QED BY <2>1, <2>2, <2>5, ValueFacts
<1> HIDE DEF P
<1>2. ASSUME P # {} PROVE Naming!MaxOf(P) \in Nat
  BY <1>1, <1>2, MaxFacts, NameAssumption
<1>3. ASSUME NEW k \in Nat PROVE Naming!Numbered(id, k) \in Ids
  BY NumberedFacts
<1>4. ASSUME P # {} PROVE Naming!Numbered(id, Naming!MaxOf(P) + 1) \in Ids
  <2>1. Naming!MaxOf(P) + 1 \in Nat
    BY <1>2, <1>4
  <2> QED BY <1>3, <2>1
<1> DEFINE free == {k \in 1 .. Naming!Cardinality(ids) + 1 : Naming!Numbered(id, k) \notin ids}
           first == IF P = {} THEN id ELSE Naming!Numbered(id, Naming!MaxOf(P) + 1)
<1>5. first \in Ids
  BY <1>4
<1>6. Naming!Cardinality(ids) \in Nat
  BY SameNaming, FS_CardinalityType
<1>7. free \in SUBSET Nat
  BY <1>6
<1>8. free # {} => Naming!Numbered(id, Naming!MinOf(free)) \in Ids
  <2> HAVE free # {}
  <2> HIDE DEF free
  <2>1. PICK m \in free : \A k \in free : m <= k
    BY <1>7, Least
  <2>2. Naming!MinOf(free) \in free
    BY <2>1 DEF Naming!MinOf
  <2> QED BY <1>3, <1>7, <2>2
<1>9. free # {}
  BY SomeFree
<1>10. Naming!Candidate(id, ids) \in {first, Naming!Numbered(id, Naming!MinOf(free))}
  BY DEF Naming!Candidate, P
<1> HIDE DEF free, first
<1> QED BY <1>5, <1>8, <1>9, <1>10

\* The list has each connection once, and those that it has are connected, with names
\* of their own.
NamingInv ==
  /\ streamers \in Seq(Naming!Connections)
  /\ \A i, j \in DOMAIN streamers : streamers[i] = streamers[j] => i = j
  /\ nameSocket \in [Naming!Connections -> {"none", "open", "closing"}]
  /\ name \in [Naming!Connections -> Ids \cup {Nil}]
  /\ want \in [Programs -> Ids]
  /\ \A i \in DOMAIN streamers :
       nameSocket[streamers[i]] # "none" /\ name[streamers[i]] \in Ids
  /\ Naming!IdsAreUnique

LEMMA WantedFacts == Wanted \cup {Default} \subseteq Ids
<1> SUFFICES ASSUME NEW id \in Wanted \cup {Default} PROVE id \in Ids
  OBVIOUS
<1>1. id = <<id[1], id[2]>> /\ id[2] \in Seq(0 .. 9)
  BY NameAssumption
<1> DEFINE b == id[1]
           d == id[2]
<1>2. b \in {e[1] : e \in Wanted \cup {Default}}
  OBVIOUS
<1> HIDE DEF b, d
<1>3. <<b, d>> \in Ids
  BY <1>1, <1>2 DEF Ids, d
<1> QED BY <1>1, <1>3 DEF b, d

LEMMA ListFacts ==
  ASSUME NamingInv
  PROVE  /\ IsFiniteSet(Naming!ToSet(streamers))
         /\ Naming!ToSet(streamers) = {streamers[i] : i \in DOMAIN streamers}
         /\ Naming!ToSet(streamers) \subseteq Naming!Connections
<1>1. Naming!ToSet(streamers) = {streamers[i] : i \in DOMAIN streamers}
  BY DEF Naming!ToSet
<1>2. streamers \in Seq(Naming!Connections) /\ DOMAIN streamers = 1 .. Len(streamers)
      /\ Len(streamers) \in Nat
  BY DEF NamingInv
<1>3. IsFiniteSet(DOMAIN streamers)
  BY <1>2, FS_Interval
<1>4. IsFiniteSet({streamers[i] : i \in DOMAIN streamers})
  <2> DEFINE f == [i \in DOMAIN streamers |-> streamers[i]]
  <2>1. f \in Surjection(DOMAIN streamers, {streamers[i] : i \in DOMAIN streamers})
    BY DEF Surjection
  <2> QED BY <1>3, <2>1, FS_Surjection
<1> QED BY <1>1, <1>2, <1>4

\* sanitizeStreamerId
LEMMA Sanitized ==
  ASSUME NamingInv, NEW asked \in Ids \cup {Nil}, NEW c
  PROVE  /\ Naming!SanitizeStreamerId(asked, c) \in Ids
         /\ Naming!SanitizeStreamerId(asked, c) \notin Naming!ExistingIds(c)
<1> DEFINE id == IF asked = Nil THEN Default ELSE asked
           ids == Naming!ExistingIds(c)
<1>1. id \in Ids
  BY WantedFacts
<1>2. ids \subseteq Ids
  BY ListFacts DEF NamingInv, Naming!ExistingIds
<1>3. IsFiniteSet(ids)
  <2> DEFINE S == Naming!ToSet(streamers) \ {c}
             f == [x \in S |-> name[x]]
  <2>1. IsFiniteSet(S)
    BY ListFacts, FS_Subset
  <2>2. ids = {name[x] : x \in S}
    BY DEF Naming!ExistingIds
  <2> HIDE DEF S
  <2>3. f \in Surjection(S, {name[x] : x \in S})
    BY DEF Surjection
  <2> QED BY <2>1, <2>2, <2>3, FS_Surjection
<1>4. Naming!Candidate(id, ids) \in Ids /\ Naming!Candidate(id, ids) \notin ids
  BY <1>1, <1>2, <1>3, CandidateIsId, CandidateFacts
<1>5. Naming!SanitizeStreamerId(asked, c) =
        IF c # Nil /\ name[c] = id /\ id \notin ids THEN id ELSE Naming!Candidate(id, ids)
  BY DEF Naming!SanitizeStreamerId
<1> HIDE DEF id, ids
<1> QED BY <1>1, <1>4, <1>5 DEF ids

LEMMA NamingInit == Naming!Init => NamingInv
<1> SUFFICES ASSUME Naming!Init PROVE NamingInv
  OBVIOUS
<1>1. streamers \in Seq(Naming!Connections) /\ DOMAIN streamers = {}
  BY DEF Naming!Init
<1>2. Naming!IdsAreUnique
  BY <1>1 DEF Naming!IdsAreUnique, Naming!ToSet
<1>3. want \in [Programs -> Ids]
  BY WantedFacts DEF Naming!Init
<1>4. /\ nameSocket \in [Naming!Connections -> {"none", "open", "closing"}]
      /\ name \in [Naming!Connections -> Ids \cup {Nil}]
  BY DEF Naming!Init
<1> QED BY <1>1, <1>2, <1>3, <1>4 DEF NamingInv

\* Removing a connection that is in the list.
LEMMA SpliceFacts ==
  ASSUME NEW S, NEW s \in Seq(S), NEW i \in DOMAIN s,
         \A j, k \in DOMAIN s : s[j] = s[k] => j = k
  PROVE  /\ Naming!RemoveAt(s, i) \in Seq(S)
         /\ \A j, k \in DOMAIN Naming!RemoveAt(s, i) :
              Naming!RemoveAt(s, i)[j] = Naming!RemoveAt(s, i)[k] => j = k
         /\ \A j \in DOMAIN Naming!RemoveAt(s, i) :
              /\ Naming!RemoveAt(s, i)[j] # s[i]
              /\ \E k \in DOMAIN s : s[k] = Naming!RemoveAt(s, i)[j]
<1> DEFINE q == Naming!RemoveAt(s, i)
<1>1. q = Ice!RemoveAt(s, i)
  BY DEF Naming!RemoveAt, Ice!RemoveAt
<1>2. /\ q \in Seq(S) /\ Len(q) = Len(s) - 1
      /\ \A k \in 1 .. Len(s) - 1 : q[k] = IF k < i THEN s[k] ELSE s[k + 1]
  BY <1>1, Removed
<1> HIDE DEF q
<1>3. DOMAIN q = 1 .. Len(s) - 1 /\ DOMAIN s = 1 .. Len(s) /\ Len(s) \in Nat
  BY <1>2
<1> DEFINE at(k) == IF k < i THEN k ELSE k + 1
<1>4. ASSUME NEW k \in DOMAIN q PROVE at(k) \in DOMAIN s /\ q[k] = s[at(k)] /\ at(k) # i
  BY <1>2, <1>3
<1>5. \A j, k \in DOMAIN q : at(j) = at(k) => j = k
  BY <1>3
<1> HIDE DEF at
<1> QED BY <1>2, <1>4, <1>5 DEF q

\* The list without a connection.
LEMMA WithoutFacts ==
  ASSUME NamingInv, NEW c \in Naming!Connections
  PROVE  /\ Naming!Without(c) \in Seq(Naming!Connections)
         /\ \A j, k \in DOMAIN Naming!Without(c) :
              Naming!Without(c)[j] = Naming!Without(c)[k] => j = k
         /\ \A j \in DOMAIN Naming!Without(c) :
              /\ Naming!Without(c)[j] # c
              /\ \E k \in DOMAIN streamers : streamers[k] = Naming!Without(c)[j]
<1>1. CASE c \notin Naming!ToSet(streamers)
  <2>1. Naming!Without(c) = streamers
    BY <1>1 DEF Naming!Without
  <2> QED BY <1>1, <2>1, ListFacts DEF NamingInv
<1>2. CASE c \in Naming!ToSet(streamers)
  <2> DEFINE at == CHOOSE i \in DOMAIN streamers : streamers[i] = c
  <2>1. at \in DOMAIN streamers /\ streamers[at] = c
    BY <1>2, ListFacts
  <2>2. Naming!Without(c) = Naming!RemoveAt(streamers, at)
    BY <1>2 DEF Naming!Without
  <2> HIDE DEF at
  <2> QED BY <2>1, <2>2, SpliceFacts DEF NamingInv
<1> QED BY <1>1, <1>2

\* A step that leaves the others as they are, and of c makes a connection with a name of
\* its own, or none that is in the list.
LEMMA Renamed ==
  ASSUME NamingInv, NEW c \in Naming!Connections, NEW st \in {"none", "open", "closing"},
         NEW id \in Ids \cup {Nil},
         nameSocket' = [nameSocket EXCEPT ![c] = st],
         name' = [name EXCEPT ![c] = id],
         streamers' \in Seq(Naming!Connections),
         \A j, k \in DOMAIN streamers' : streamers'[j] = streamers'[k] => j = k,
         \A j \in DOMAIN streamers' :
           streamers'[j] = c \/ \E k \in DOMAIN streamers : streamers[k] = streamers'[j],
         (\E j \in DOMAIN streamers' : streamers'[j] = c) =>
           id \in Ids /\ st # "none" /\ id \notin Naming!ExistingIds(c),
         want' \in [Programs -> Ids]
  PROVE  NamingInv'
<1> DEFINE C == Naming!Connections
<1>1. /\ nameSocket' \in [C -> {"none", "open", "closing"}]
      /\ name' \in [C -> Ids \cup {Nil}]
  BY DEF NamingInv
<1>2. name'[c] = id /\ nameSocket'[c] = st
      /\ \A d \in C \ {c} : name'[d] = name[d] /\ nameSocket'[d] = nameSocket[d]
  BY DEF NamingInv
<1>3. \A j \in DOMAIN streamers' : streamers'[j] \in C
  OBVIOUS
<1>4. ASSUME NEW j \in DOMAIN streamers'
      PROVE  nameSocket'[streamers'[j]] # "none" /\ name'[streamers'[j]] \in Ids
  <2>1. CASE streamers'[j] = c
    BY <1>2, <2>1
  <2>2. CASE streamers'[j] # c
    BY <1>2, <1>3, <2>2 DEF NamingInv
  <2> QED BY <2>1, <2>2
<1>5. Naming!IdsAreUnique'
  <2> SUFFICES ASSUME NEW a \in Naming!ToSet(streamers'), NEW b \in Naming!ToSet(streamers'),
                      name'[a] = name'[b]
               PROVE  a = b
    BY DEF Naming!IdsAreUnique
  <2>0. \A x \in Naming!ToSet(streamers') : x \in C /\ (x = c \/ x \in Naming!ToSet(streamers))
    BY <1>3 DEF Naming!ToSet
  <2>00. c \in Naming!ToSet(streamers') => \E j \in DOMAIN streamers' : streamers'[j] = c
    BY DEF Naming!ToSet
  <2>1. CASE a # c /\ b # c
    BY <1>2, <2>0, <2>1 DEF NamingInv, Naming!IdsAreUnique
  <2>2. ASSUME NEW x \in Naming!ToSet(streamers'), x # c, c \in Naming!ToSet(streamers')
        PROVE  name'[x] # name'[c]
    <3>1. name[x] \in Naming!ExistingIds(c)
      BY <2>0, <2>2 DEF Naming!ExistingIds
    <3> QED BY <1>2, <2>0, <2>00, <2>2, <3>1
  <2> QED BY <2>1, <2>2
<1> QED BY <1>1, <1>4, <1>5 DEF NamingInv

\* add
LEMMA Added ==
  ASSUME NamingInv, NEW c \in Naming!Connections, nameSocket[c] = "none",
         NEW id \in Ids \cup {Nil}, Naming!Add(c, id),
         nameSocket' = [nameSocket EXCEPT ![c] = "open"], UNCHANGED want
  PROVE  NamingInv'
<1> DEFINE found == Naming!SanitizeStreamerId(id, Nil)
<1>1. found \in Ids
  BY Sanitized
<1> HIDE DEF found
<1>2. /\ name' = [name EXCEPT ![c] = found]
      /\ streamers' = IF Naming!Find(found) = {} THEN Append(streamers, c) ELSE streamers
  BY DEF Naming!Add, found
<1>3. \A k \in DOMAIN streamers : streamers[k] # c
  BY DEF NamingInv
<1>4. want' \in [Programs -> Ids] /\ streamers \in Seq(Naming!Connections)
      /\ \A j, k \in DOMAIN streamers : streamers[j] = streamers[k] => j = k
  BY DEF NamingInv
<1>5. CASE Naming!Find(found) = {}
  <2> DEFINE q == Append(streamers, c)
  <2>1. /\ q \in Seq(Naming!Connections) /\ DOMAIN q = 1 .. Len(streamers) + 1
        /\ Len(streamers) \in Nat /\ DOMAIN streamers = 1 .. Len(streamers)
        /\ q[Len(streamers) + 1] = c
        /\ \A k \in 1 .. Len(streamers) : q[k] = streamers[k]
    BY <1>4
  <2> HIDE DEF q
  <2>2. \A j, k \in DOMAIN q : q[j] = q[k] => j = k
    BY <1>3, <1>4, <2>1
  <2>3. \A j \in DOMAIN q : q[j] = c \/ \E k \in DOMAIN streamers : streamers[k] = q[j]
    BY <2>1
  <2>4. found \notin Naming!ExistingIds(c)
    BY <1>5 DEF Naming!Find, Naming!ExistingIds
  <2>5. streamers' = q
    BY <1>2, <1>5 DEF q
  <2>6. /\ streamers' \in Seq(Naming!Connections)
        /\ \A j, k \in DOMAIN streamers' : streamers'[j] = streamers'[k] => j = k
        /\ \A j \in DOMAIN streamers' :
             streamers'[j] = c \/ \E k \in DOMAIN streamers : streamers[k] = streamers'[j]
    BY <2>1, <2>2, <2>3, <2>5
  <2> QED BY <1>1, <1>2, <1>4, <2>4, <2>6, Renamed
<1>6. CASE Naming!Find(found) # {}
  <2>1. streamers' = streamers
    BY <1>2, <1>6
  <2> QED BY <1>1, <1>2, <1>3, <1>4, <2>1, Renamed
<1> QED BY <1>5, <1>6

LEMMA Away ==
  ASSUME NamingInv, NEW c \in Naming!Connections, NEW st \in {"none", "closing"},
         NEW id \in Ids \cup {Nil},
         streamers' = Naming!Without(c),
         nameSocket' = [nameSocket EXCEPT ![c] = st],
         name' = [name EXCEPT ![c] = id], UNCHANGED want
  PROVE  NamingInv'
<1>1. want' \in [Programs -> Ids]
  BY DEF NamingInv
<1> QED BY <1>1, WithoutFacts, Renamed

LEMMA Asked ==
  ASSUME NamingInv, NEW c \in Naming!Connections, NEW asked \in Ids \cup {Nil},
         Naming!OnEndpointId(c, asked)
  PROVE  NamingInv'
<1> DEFINE found == Naming!SanitizeStreamerId(asked, c)
<1>1. found \in Ids /\ found \notin Naming!ExistingIds(c)
  BY Sanitized
<1> HIDE DEF found
<1>2. PICK committed \in Naming!Decisions(found) :
        IF Naming!Refused(c, committed) THEN Naming!TurnedAway(c)
        ELSE /\ name' = [name EXCEPT ![c] = committed]
             /\ want' = IF nameSocket[c] = "open"
                        THEN [want EXCEPT ![Naming!ProgramOf(c)] = committed] ELSE want
             /\ UNCHANGED <<streamers, nameSocket>>
  BY DEF Naming!OnEndpointId, found
<1>3. name[c] \in Ids \cup {Nil} /\ name = [name EXCEPT ![c] = name[c]]
      /\ nameSocket = [nameSocket EXCEPT ![c] = nameSocket[c]]
  BY DEF NamingInv
<1>4. CASE Naming!Refused(c, committed)
  <2>1. /\ streamers' = Naming!Without(c) /\ nameSocket' = [nameSocket EXCEPT ![c] = "closing"]
        /\ name' = [name EXCEPT ![c] = name[c]] /\ UNCHANGED want
    BY <1>2, <1>3, <1>4 DEF Naming!TurnedAway
  <2> QED BY <1>3, <2>1, Away
<1>5. CASE ~Naming!Refused(c, committed)
  <2>1. committed \in Ids /\ committed \notin Naming!ExistingIds(c)
    <3>1. CASE authorizes
      <4>1. committed # Nil /\ Naming!Find(committed) \ {c} = {}
        BY <1>5, <3>1 DEF Naming!Refused
      <4>2. committed \in Ids
        BY <1>1, <4>1, WantedFacts DEF Naming!Decisions
      <4> QED BY <4>1, <4>2 DEF Naming!Find, Naming!ExistingIds
    <3>2. CASE ~authorizes
      BY <1>1, <3>2 DEF Naming!Decisions
    <3> QED BY <3>1, <3>2
  <2>2. want' \in [Programs -> Ids]
    BY <1>2, <1>5, <2>1 DEF NamingInv, Naming!ProgramOf, Naming!Connections
  <2>3. /\ name' = [name EXCEPT ![c] = committed] /\ streamers' = streamers
        /\ nameSocket' = [nameSocket EXCEPT ![c] = nameSocket[c]]
    BY <1>2, <1>3, <1>5
  <2>4. nameSocket[c] \in {"none", "open", "closing"} /\ nameSocket[c] # "none"
    BY DEF Naming!OnEndpointId, NamingInv
  <2>5. streamers \in Seq(Naming!Connections)
        /\ \A j, k \in DOMAIN streamers : streamers[j] = streamers[k] => j = k
    BY DEF NamingInv
  <2> QED BY <2>1, <2>2, <2>3, <2>4, <2>5, Renamed
<1> QED BY <1>4, <1>5

LEMMA NamingStep ==
  ASSUME NamingInv, [Naming!Next]_namingVars
  PROVE  NamingInv'
<1>1. CASE UNCHANGED namingVars
  BY <1>1 DEF namingVars, NamingInv, Naming!IdsAreUnique
<1>2. ASSUME NEW c \in Naming!Connections, Naming!OnStreamerConnected(c) PROVE NamingInv'
  <2>1. Naming!SanitizeStreamerId(Nil, Nil) \in Ids
    BY Sanitized
  <2>2. /\ nameSocket[c] = "none" /\ Naming!Add(c, Naming!SanitizeStreamerId(Nil, Nil))
        /\ nameSocket' = [nameSocket EXCEPT ![c] = "open"] /\ UNCHANGED want
    BY <1>2 DEF Naming!OnStreamerConnected
  <2> QED BY <2>1, <2>2, Added
<1>3. ASSUME NEW c \in Naming!Connections, Naming!OnSFUConnected(c) PROVE NamingInv'
  <2>1. /\ nameSocket[c] = "none" /\ Naming!Add(c, Nil)
        /\ nameSocket' = [nameSocket EXCEPT ![c] = "open"] /\ UNCHANGED want
    BY <1>3 DEF Naming!OnSFUConnected
  <2> QED BY <2>1, Added
<1>4. ASSUME NEW c \in Naming!Connections, Naming!AskAgain(c) PROVE NamingInv'
  <2>1. want[Naming!ProgramOf(c)] \in Ids
    BY DEF NamingInv, Naming!ProgramOf, Naming!Connections
  <2> QED BY <1>4, <2>1, Asked DEF Naming!AskAgain
<1>5. ASSUME NEW c \in Naming!Connections, Naming!AskOther(c) PROVE NamingInv'
  BY <1>5, Asked, WantedFacts DEF Naming!AskOther
<1>6. ASSUME NEW c \in Naming!Connections, Naming!BadEndpointId(c) PROVE NamingInv'
  <2>1. /\ streamers' = Naming!Without(c) /\ nameSocket' = [nameSocket EXCEPT ![c] = "closing"]
        /\ UNCHANGED <<name, want>>
    BY <1>6 DEF Naming!BadEndpointId, Naming!TurnedAway
  <2>2. name[c] \in Ids \cup {Nil} /\ name' = [name EXCEPT ![c] = name[c]]
    BY <2>1 DEF NamingInv
  <2> QED BY <2>1, <2>2, Away
<1>7. ASSUME NEW c \in Naming!Connections, Naming!Close(c) PROVE NamingInv'
  <2>1. /\ streamers' = Naming!Without(c) /\ nameSocket' = [nameSocket EXCEPT ![c] = "none"]
        /\ name' = [name EXCEPT ![c] = Nil] /\ UNCHANGED want
    BY <1>7 DEF Naming!Close
  <2> QED BY <2>1, Away
<1> QED BY <1>1, <1>2, <1>3, <1>4, <1>5, <1>6, <1>7 DEF Naming!Next

-----------------------------------------------------------------------------
(* Admission: the customers' evidence, from the proofs of its module.      *)

AdmitP == INSTANCE AdmissionProofs WITH
  Requests <- Customers, viewer <- admissionViewer

\* The module the proofs extend says the same as the server's instance of it.
LEMMA SameAdmissionInit == Admit!Init => AdmitP!Init
BY DEF Admit!Init, AdmitP!Init, Admit!ValidateSettings, AdmitP!ValidateSettings, Admit!None,
       AdmitP!None, Admit!Empty, AdmitP!Empty, Admit!NobodyConnected, AdmitP!NobodyConnected,
       Admit!Nobody, AdmitP!Nobody

LEMMA SameTickets == Admit!Tickets = AdmitP!Tickets
BY DEF Admit!Tickets, AdmitP!Tickets, Admit!Claims, AdmitP!Claims, Admit!None, AdmitP!None,
       Admit!ToSet, AdmitP!ToSet

LEMMA SameValidate ==
  ASSUME NEW t, NEW j, NEW w
  PROVE  Admit!ValidateToken(t, j, w) = AdmitP!ValidateToken(t, j, w)
BY DEF Admit!ValidateToken, AdmitP!ValidateToken, Admit!Claims, AdmitP!Claims, Admit!None,
       AdmitP!None, Admit!ToSet, AdmitP!ToSet, Admit!Fail, AdmitP!Fail, Admit!Identity,
       AdmitP!Identity, Admit!RecordManagedViewerAdmission,
       AdmitP!RecordManagedViewerAdmission, Admit!BeforeGate, AdmitP!BeforeGate,
       Admit!Refuses, AdmitP!Refuses, Admit!Owner, AdmitP!Owner, Admit!Recorded,
       AdmitP!Recorded, Admit!Conflicts, AdmitP!Conflicts, Admit!Evidence, AdmitP!Evidence,
       Admit!Forced, AdmitP!Forced, Admit!Nobody, AdmitP!Nobody

LEMMA SameVerify ==
  ASSUME NEW s, NEW t, NEW j, NEW w, NEW b, NEW e
  PROVE  Admit!VerifyClient(s, t, j, w, b, e) = AdmitP!VerifyClient(s, t, j, w, b, e)
<1> USE SameValidate
<1> QED
  BY DEF Admit!VerifyClient, AdmitP!VerifyClient, Admit!Connected, AdmitP!Connected,
    Admit!Admitted, AdmitP!Admitted, Admit!None, AdmitP!None, Admit!Fail, AdmitP!Fail,
    Admit!Nobody, AdmitP!Nobody

LEMMA SameUpgrade ==
  ASSUME NEW s, NEW t
  PROVE  Admit!Upgrade(s, t) => AdmitP!Upgrade(s, t)
BY SameVerify DEF Admit!Upgrade, AdmitP!Upgrade, Admit!None, AdmitP!None

LEMMA SameGateSteps ==
  Admit!StartTeardown \/ Admit!Replaced \/ Admit!Restart
    => AdmitP!StartTeardown \/ AdmitP!Replaced \/ AdmitP!Restart
BY DEF Admit!StartTeardown, AdmitP!StartTeardown, Admit!Replaced, AdmitP!Replaced,
       Admit!Restart, AdmitP!Restart, Admit!Empty, AdmitP!Empty, Admit!None, AdmitP!None,
       Admit!NobodyConnected, AdmitP!NobodyConnected, Admit!Nobody, AdmitP!Nobody

LEMMA SameClose ==
  ASSUME NEW s
  PROVE  Admit!Close(s) => AdmitP!Close(s)
BY DEF Admit!Close, AdmitP!Close, Admit!None, AdmitP!None, Admit!Nobody, AdmitP!Nobody

LEMMA SameAdmissionNext == Admit!Next => AdmitP!Next
BY SameTickets, SameUpgrade, SameGateSteps, SameClose DEF Admit!Next, AdmitP!Next

-----------------------------------------------------------------------------
(* Signalling: the registries, from the proofs of its module.              *)

SignalsP == INSTANCE SignallingProofs WITH
  NoPlayer <- Nil, NoStreamer <- Nil, NoPolicy <- Nil, NoOffer <- Nil, NoDeal <- Nil,
  NoCodec <- Nil

\* The module the proofs extend says the same as the server's instance of it.
LEMMA SameWithout ==
  ASSUME NEW S
  PROVE  /\ Signals!SubscribersWithout(S) = SignalsP!SubscribersWithout(S)
         /\ Signals!PeersWithout(S) = SignalsP!PeersWithout(S)
BY DEF Signals!SubscribersWithout, SignalsP!SubscribersWithout, Signals!PeersWithout,
       SignalsP!PeersWithout, Signals!Players, SignalsP!Players, Signals!Generations,
       SignalsP!Generations, Signals!Registered, SignalsP!Registered, Signals!Online,
       SignalsP!Online, Signals!Elements, SignalsP!Elements, Signals!Live, SignalsP!Live,
       Signals!Governed, SignalsP!Governed, Signals!IsShadow, SignalsP!IsShadow, Signals!Id,
       SignalsP!Id, Signals!PeerOf, SignalsP!PeerOf, Signals!Peer, SignalsP!Peer

LEMMA SameOrphans ==
  ASSUME NEW p
  PROVE  Signals!OrphansOf(p) = SignalsP!OrphansOf(p)
BY DEF Signals!OrphansOf, SignalsP!OrphansOf, Signals!Watchable, SignalsP!Watchable,
       Signals!Players, SignalsP!Players, Signals!Generations, SignalsP!Generations,
       Signals!Registered, SignalsP!Registered, Signals!Online, SignalsP!Online,
       Signals!Elements, SignalsP!Elements, Signals!Live, SignalsP!Live, Signals!Governed,
       SignalsP!Governed, Signals!IsShadow, SignalsP!IsShadow, Signals!Id, SignalsP!Id,
       Signals!PeerOf, SignalsP!PeerOf, Signals!Peer, SignalsP!Peer

LEMMA SameSource ==
  ASSUME NEW k
  PROVE  /\ Signals!SourceCodec(k) = SignalsP!SourceCodec(k)
         /\ Signals!Source(k) = SignalsP!Source(k)
BY DEF Signals!SourceCodec, SignalsP!SourceCodec, Signals!Source, SignalsP!Source,
       Signals!Watchable, SignalsP!Watchable, Signals!Players, SignalsP!Players,
       Signals!Generations, SignalsP!Generations, Signals!Registered, SignalsP!Registered,
       Signals!Online, SignalsP!Online, Signals!Elements, SignalsP!Elements, Signals!Live,
       SignalsP!Live, Signals!Governed, SignalsP!Governed, Signals!IsShadow,
       SignalsP!IsShadow, Signals!Id, SignalsP!Id, Signals!PeerOf, SignalsP!PeerOf,
       Signals!Peer, SignalsP!Peer

LEMMA SameForms ==
  ASSUME NEW c, NEW u
  PROVE  /\ Signals!Joined(c, u) = SignalsP!Joined(c, u)
         /\ Signals!Failed(c) = SignalsP!Failed(c)
         /\ Signals!Disconnected(c) = SignalsP!Disconnected(c)
         /\ Signals!Unsubscribed(c) = SignalsP!Unsubscribed(c)
BY DEF Signals!Unsubscribed, SignalsP!Unsubscribed, Signals!Disconnected,
       SignalsP!Disconnected, Signals!Failed, SignalsP!Failed, Signals!Restarted,
       SignalsP!Restarted, Signals!Joined, SignalsP!Joined, Signals!Idle, SignalsP!Idle

LEMMA SameBecome ==
  ASSUME NEW p, NEW c
  PROVE  Signals!Become(p, c) <=> SignalsP!Become(p, c)
BY DEF Signals!Become, SignalsP!Become

LEMMA SameLeave ==
  ASSUME NEW p, NEW c
  PROVE  Signals!Leave(p, c) <=> SignalsP!Leave(p, c)
BY SameWithout DEF Signals!Leave, SignalsP!Leave

LEMMA SameJoin ==
  ASSUME NEW p, NEW u, NEW c
  PROVE  Signals!Join(p, u, c) <=> SignalsP!Join(p, u, c)
BY SameWithout
DEF Signals!Join, SignalsP!Join, Signals!PeerOf, SignalsP!PeerOf, Signals!Id, SignalsP!Id,
    Signals!Players, SignalsP!Players, Signals!Generations, SignalsP!Generations,
    Signals!Registered, SignalsP!Registered, Signals!Online, SignalsP!Online,
    Signals!Elements, SignalsP!Elements, Signals!Live, SignalsP!Live, Signals!Governed,
    SignalsP!Governed, Signals!IsShadow, SignalsP!IsShadow, Signals!Id, SignalsP!Id,
    Signals!PeerOf, SignalsP!PeerOf, Signals!Peer, SignalsP!Peer, Signals!Unsubscribed,
    SignalsP!Unsubscribed, Signals!Disconnected, SignalsP!Disconnected, Signals!Failed,
    SignalsP!Failed, Signals!Restarted, SignalsP!Restarted, Signals!Joined, SignalsP!Joined,
    Signals!Idle, SignalsP!Idle

LEMMA SameCardinality ==
  ASSUME NEW S
  PROVE  Signals!Cardinality(S) = SignalsP!Cardinality(S)
BY DEF Signals!Cardinality, SignalsP!Cardinality

LEMMA SameMismatched ==
  ASSUME NEW p, NEW u
  PROVE  Signals!Mismatched(p, u) <=> SignalsP!Mismatched(p, u)
BY SameSource
DEF Signals!Mismatched, SignalsP!Mismatched, Signals!Online, SignalsP!Online,
    Signals!Elements, SignalsP!Elements, Signals!IsShadow, SignalsP!IsShadow,
    Signals!Governed, SignalsP!Governed

LEMMA SameExclusive ==
  ASSUME NEW p, NEW u
  PROVE  Signals!Exclusive(p, u) <=> SignalsP!Exclusive(p, u)
BY DEF Signals!Exclusive, SignalsP!Exclusive, Signals!Registered, SignalsP!Registered,
       Signals!Elements, SignalsP!Elements, Signals!Governed, SignalsP!Governed

LEMMA SameFull ==
  ASSUME NEW p, NEW u
  PROVE  Signals!Full(p, u) <=> SignalsP!Full(p, u)
<1>1. Signals!SubscribersWithout({p})[u] = SignalsP!SubscribersWithout({p})[u]
  BY SameWithout
<1> QED BY <1>1, SameCardinality DEF Signals!Full, SignalsP!Full

LEMMA SameSubscribe ==
  ASSUME NEW p, NEW c, NEW u, NEW d
  PROVE  Signals!Subscribe(p, c, u, d) <=> SignalsP!Subscribe(p, c, u, d)
BY SameMismatched, SameExclusive, SameFull, SameLeave, SameJoin, SameBecome, SameForms
DEF Signals!Subscribe, SignalsP!Subscribe, Signals!Online, SignalsP!Online,
    Signals!Elements, SignalsP!Elements

LEMMA SameFirst ==
  ASSUME NEW p, NEW c
  PROVE  Signals!SubscribeFirst(p, c) <=> SignalsP!SubscribeFirst(p, c)
BY SameSubscribe, SameLeave, SameForms DEF Signals!SubscribeFirst, SignalsP!SubscribeFirst

LEMMA SameConnect ==
  ASSUME NEW p
  PROVE  /\ (Signals!ConnectUnmanaged(p) <=> SignalsP!ConnectUnmanaged(p))
         /\ (Signals!ConnectUnjournaled(p) <=> SignalsP!ConnectUnjournaled(p))
BY SameBecome
DEF Signals!ConnectUnmanaged, SignalsP!ConnectUnmanaged, Signals!ConnectUnjournaled,
    SignalsP!ConnectUnjournaled, Signals!Register, SignalsP!Register, Signals!Reject,
    SignalsP!Reject, Signals!Idle, SignalsP!Idle

LEMMA SameReject ==
  ASSUME NEW p, NEW c
  PROVE  /\ (Signals!Reject(p, c) <=> SignalsP!Reject(p, c))
         /\ (Signals!Register(p, c) <=> SignalsP!Register(p, c))
BY SameBecome DEF Signals!Register, SignalsP!Register, Signals!Reject, SignalsP!Reject

LEMMA SameOwner ==
  ASSUME NEW p, NEW k, NEW on
  PROVE  Signals!ConnectOwner(p, k, on) <=> SignalsP!ConnectOwner(p, k, on)
BY SameReject DEF Signals!ConnectOwner, SignalsP!ConnectOwner, Signals!Idle, SignalsP!Idle

LEMMA SameShadow ==
  ASSUME NEW p, NEW k, NEW on
  PROVE  Signals!ConnectShadow(p, k, on) <=> SignalsP!ConnectShadow(p, k, on)
BY SameReject, SameSource
DEF Signals!ConnectShadow, SignalsP!ConnectShadow, Signals!Idle, SignalsP!Idle

LEMMA SameCapabilities ==
  ASSUME NEW p, NEW s, NEW on
  PROVE  Signals!Capabilities(p, s, on) <=> SignalsP!Capabilities(p, s, on)
BY SameLeave, SameBecome, SameForms
DEF Signals!Capabilities, SignalsP!Capabilities, Signals!Common, SignalsP!Common,
    Signals!Selection, SignalsP!Selection, Signals!Preferred, SignalsP!Preferred,
    Signals!Live, SignalsP!Live, Signals!Governed, SignalsP!Governed, Signals!IsShadow,
    SignalsP!IsShadow

LEMMA SameRequests ==
  ASSUME NEW p, NEW u
  PROVE  /\ (Signals!SubscribeRequest(p, u) <=> SignalsP!SubscribeRequest(p, u))
         /\ (Signals!MalformedSubscribe(p) <=> SignalsP!MalformedSubscribe(p))
         /\ (Signals!UnsubscribeRequest(p) <=> SignalsP!UnsubscribeRequest(p))
         /\ (Signals!ImplicitSubscribe(p) <=> SignalsP!ImplicitSubscribe(p))
BY SameSubscribe, SameFirst, SameLeave, SameForms
DEF Signals!SubscribeRequest, SignalsP!SubscribeRequest, Signals!MalformedSubscribe,
    SignalsP!MalformedSubscribe, Signals!UnsubscribeRequest, SignalsP!UnsubscribeRequest,
    Signals!ImplicitSubscribe, SignalsP!ImplicitSubscribe, Signals!Live, SignalsP!Live,
    Signals!Governed, SignalsP!Governed

LEMMA SameNegotiating ==
  ASSUME NEW p, NEW f, NEW g
  PROVE  /\ (Signals!Negotiating(p, f, g) <=> SignalsP!Negotiating(p, f, g))
         /\ (Signals!InStep(p) <=> SignalsP!InStep(p))
BY SameSource
DEF Signals!Negotiating, SignalsP!Negotiating, Signals!InStep, SignalsP!InStep,
    Signals!Current, SignalsP!Current, Signals!Players, SignalsP!Players,
    Signals!Generations, SignalsP!Generations, Signals!Registered, SignalsP!Registered,
    Signals!Online, SignalsP!Online, Signals!Elements, SignalsP!Elements, Signals!Live,
    SignalsP!Live, Signals!Governed, SignalsP!Governed, Signals!IsShadow, SignalsP!IsShadow,
    Signals!Id, SignalsP!Id, Signals!PeerOf, SignalsP!PeerOf, Signals!Peer, SignalsP!Peer

LEMMA SameDescriptions ==
  ASSUME NEW p, NEW f, NEW g, NEW ok
  PROVE  /\ (Signals!BadDescription(p, f, g) <=> SignalsP!BadDescription(p, f, g))
         /\ (Signals!Offer(p, f, g) <=> SignalsP!Offer(p, f, g))
         /\ (Signals!FirstOffer(p, ok) <=> SignalsP!FirstOffer(p, ok))
         /\ (Signals!Answer(p, f, g) <=> SignalsP!Answer(p, f, g))
         /\ (Signals!Contradict(p, g) <=> SignalsP!Contradict(p, g))
         /\ (Signals!DeadlineFires(p) <=> SignalsP!DeadlineFires(p))
BY SameNegotiating, SameFirst, SameLeave, SameBecome, SameForms
DEF Signals!BadDescription, SignalsP!BadDescription, Signals!Offer, SignalsP!Offer,
    Signals!FirstOffer, SignalsP!FirstOffer, Signals!Answer, SignalsP!Answer,
    Signals!Contradict, SignalsP!Contradict, Signals!DeadlineFires, SignalsP!DeadlineFires,
    Signals!Offered, SignalsP!Offered, Signals!Agreed, SignalsP!Agreed, Signals!Live,
    SignalsP!Live, Signals!Governed, SignalsP!Governed

LEMMA SameDisconnect ==
  ASSUME NEW S, NEW p
  PROVE  Signals!DisconnectAll(S, p) <=> SignalsP!DisconnectAll(S, p)
BY SameWithout
DEF Signals!DisconnectAll, SignalsP!DisconnectAll, Signals!Closed, SignalsP!Closed,
    Signals!Idle, SignalsP!Idle, Signals!Players, SignalsP!Players, Signals!Disconnected,
    SignalsP!Disconnected, Signals!Unsubscribed, SignalsP!Unsubscribed

LEMMA SameSockets ==
  ASSUME NEW p, NEW u
  PROVE  /\ (Signals!CloseSocket(p) <=> SignalsP!CloseSocket(p))
         /\ (Signals!TransportClose(p) <=> SignalsP!TransportClose(p))
         /\ (Signals!StreamerConnect(u) <=> SignalsP!StreamerConnect(u))
         /\ (Signals!StreamerClose(u) <=> SignalsP!StreamerClose(u))
BY SameDisconnect, SameOrphans, SameBecome
DEF Signals!CloseSocket, SignalsP!CloseSocket, Signals!TransportClose,
    SignalsP!TransportClose, Signals!StreamerConnect, SignalsP!StreamerConnect,
    Signals!StreamerClose, SignalsP!StreamerClose, Signals!Live, SignalsP!Live,
    Signals!Registered, SignalsP!Registered, Signals!Elements, SignalsP!Elements,
    Signals!Without, SignalsP!Without, Signals!Online, SignalsP!Online, Signals!Players,
    SignalsP!Players

LEMMA SameSignallingInit == Signals!Init => SignalsP!Init
BY DEF Signals!Init, SignalsP!Init, Signals!Players, SignalsP!Players, Signals!Idle,
       SignalsP!Idle

LEMMA SameSignallingNext == Signals!Next => SignalsP!Next
<1> USE DEF SignalsP!Next
<1>0. Signals!Players = SignalsP!Players /\ Signals!Generations = SignalsP!Generations
  BY DEF Signals!Players, SignalsP!Players, Signals!Generations, SignalsP!Generations
<1>1. ASSUME NEW p \in Signals!Players,
             Signals!ConnectUnmanaged(p)
      PROVE  SignalsP!Next
  BY <1>0, <1>1, SameConnect
<1>2. ASSUME NEW p \in Signals!Players,
             Signals!ConnectUnjournaled(p)
      PROVE  SignalsP!Next
  BY <1>0, <1>2, SameConnect
<1>3. ASSUME NEW p \in Signals!Players, NEW k \in Policies, NEW on \in BOOLEAN,
             Signals!ConnectOwner(p, k, on)
      PROVE  SignalsP!Next
  BY <1>0, <1>3, SameOwner
<1>4. ASSUME NEW p \in Signals!Players, NEW k \in Policies, NEW on \in BOOLEAN,
             Signals!ConnectShadow(p, k, on)
      PROVE  SignalsP!Next
  BY <1>0, <1>4, SameShadow
<1>5. ASSUME NEW p \in Signals!Players, NEW has \in SUBSET Codecs, NEW on \in BOOLEAN,
             Signals!Capabilities(p, has, on)
      PROVE  SignalsP!Next
  BY <1>0, <1>5, SameCapabilities
<1>6. ASSUME NEW p \in Signals!Players, NEW u \in Streamers \cup {Nil},
             Signals!SubscribeRequest(p, u)
      PROVE  SignalsP!Next
  BY <1>0, <1>6, SameRequests
<1>7. ASSUME NEW p \in Signals!Players,
             Signals!MalformedSubscribe(p)
      PROVE  SignalsP!Next
  BY <1>0, <1>7, SameRequests
<1>8. ASSUME NEW p \in Signals!Players,
             Signals!UnsubscribeRequest(p)
      PROVE  SignalsP!Next
  BY <1>0, <1>8, SameRequests
<1>9. ASSUME NEW p \in Signals!Players,
             Signals!ImplicitSubscribe(p)
      PROVE  SignalsP!Next
  BY <1>0, <1>9, SameRequests
<1>10. ASSUME NEW p \in Signals!Players, NEW ok \in BOOLEAN,
             Signals!FirstOffer(p, ok)
      PROVE  SignalsP!Next
  BY <1>0, <1>10, SameDescriptions
<1>11. ASSUME NEW p \in Signals!Players, NEW from \in {"player", "streamer"},
             NEW g \in Signals!Generations,
             Signals!BadDescription(p, from, g)
      PROVE  SignalsP!Next
  BY <1>0, <1>11, SameDescriptions
<1>12. ASSUME NEW p \in Signals!Players, NEW from \in {"player", "streamer"},
             NEW g \in Signals!Generations,
             Signals!Offer(p, from, g)
      PROVE  SignalsP!Next
  BY <1>0, <1>12, SameDescriptions
<1>13. ASSUME NEW p \in Signals!Players, NEW from \in {"player", "streamer"},
             NEW g \in Signals!Generations,
             Signals!Answer(p, from, g)
      PROVE  SignalsP!Next
  BY <1>0, <1>13, SameDescriptions
<1>14. ASSUME NEW p \in Signals!Players, NEW g \in Signals!Generations,
             Signals!Contradict(p, g)
      PROVE  SignalsP!Next
  BY <1>0, <1>14, SameDescriptions
<1>15. ASSUME NEW p \in Signals!Players,
             Signals!DeadlineFires(p)
      PROVE  SignalsP!Next
  BY <1>0, <1>15, SameDescriptions
<1>16. ASSUME NEW p \in Signals!Players,
             Signals!CloseSocket(p)
      PROVE  SignalsP!Next
  BY <1>0, <1>16, SameSockets
<1>17. ASSUME NEW p \in Signals!Players,
             Signals!TransportClose(p)
      PROVE  SignalsP!Next
  BY <1>0, <1>17, SameSockets
<1>18. ASSUME NEW u \in Streamers, Signals!StreamerConnect(u) \/ Signals!StreamerClose(u)
      PROVE  SignalsP!Next
  BY <1>18, SameSockets
<1> HIDE DEF SignalsP!Next
<1> QED
  BY <1>1, <1>2, <1>3, <1>4, <1>5, <1>6, <1>7, <1>8, <1>9, <1>10,
     <1>11, <1>12, <1>13, <1>14, <1>15, <1>16, <1>17, <1>18
  DEF Signals!Next

LEMMA SameAgree == (Signals!RegistriesAgree <=> SignalsP!RegistriesAgree)
BY DEF Signals!RegistriesAgree, SignalsP!RegistriesAgree, Signals!PeersAreSubscriptions,
       SignalsP!PeersAreSubscriptions, Signals!SubscriptionsAreCounted,
       SignalsP!SubscriptionsAreCounted, Signals!Cardinality, SignalsP!Cardinality,
       Signals!Players, SignalsP!Players, Signals!Generations, SignalsP!Generations,
       Signals!Registered, SignalsP!Registered, Signals!Online, SignalsP!Online,
       Signals!Elements, SignalsP!Elements, Signals!Live, SignalsP!Live, Signals!Governed,
       SignalsP!Governed, Signals!IsShadow, SignalsP!IsShadow, Signals!Id, SignalsP!Id,
       Signals!PeerOf, SignalsP!PeerOf, Signals!Peer, SignalsP!Peer

-----------------------------------------------------------------------------
(* The server: every component's invariant, whichever component runs.      *)

ServerInv ==
  AliveInv /\ TurnInv /\ IceInv /\ StatusInv /\ NegotiationInv /\ RelayInv /\ NamingInv

LEMMA ServerInit == Init => ServerInv
BY AliveInit, TurnInit, IceInit, StatusInit, NegotiationInit, RelayInit, NamingInit
   DEF Init, ServerInv

\* A step of the server is a step of each component, or none of its variables change.
LEMMA StepOfEach ==
  [Next]_vars =>
    /\ [Alive!Next]_keepaliveVars /\ [Turn!Next]_turnVars /\ [Ice!Next]_iceVars
    /\ [Status!Next]_statusVars /\ [Negotiation!Next]_negotiationVars
    /\ [Sfu!Next]_relayVars /\ [Naming!Next]_namingVars
    /\ [Admit!Next]_admissionVars /\ [Signals!Next]_signallingVars
<1>1. CASE UNCHANGED vars
  BY <1>1 DEF vars
<1>2. CASE Next
  <2>1. (component # "keepalive" => UNCHANGED keepaliveVars)
        /\ (component # "turn" => UNCHANGED turnVars)
        /\ (component # "ice" => UNCHANGED iceVars)
        /\ (component # "status" => UNCHANGED statusVars)
        /\ (component # "negotiation" => UNCHANGED negotiationVars)
        /\ (component # "relay" => UNCHANGED relayVars)
        /\ (component # "naming" => UNCHANGED namingVars)
        /\ (component # "admission" => UNCHANGED admissionVars)
        /\ (component # "signalling" => UNCHANGED signallingVars)
    BY <1>2 DEF Next, Rest
  <2>2. (component = "keepalive" => Alive!Next) /\ (component = "turn" => Turn!Next)
        /\ (component = "ice" => Ice!Next) /\ (component = "status" => Status!Next)
        /\ (component = "negotiation" => Negotiation!Next)
        /\ (component = "relay" => Sfu!Next) /\ (component = "naming" => Naming!Next)
        /\ (component = "admission" => Admit!Next)
        /\ (component = "signalling" => Signals!Next)
    BY <1>2 DEF Next
  <2> QED BY <2>1, <2>2
<1> QED BY <1>1, <1>2

LEMMA ServerHolds == Spec => []ServerInv
<1>1. ServerInv /\ [Next]_vars => ServerInv'
  BY StepOfEach, AliveStep, TurnStep, IceStep, StatusStep, NegotiationStep, RelayStep,
     NamingStep
  DEF ServerInv
<1> QED BY <1>1, ServerInit, PTL DEF Spec

\* A failed negotiation is reported only after its sockets waited the full time together,
\* and Ready only after the whole soak (negotiation-recovery.ts:47, runtime-status.ts).
THEOREM StatusEarned == Spec => []StatusIsEarned
<1>1. ServerInv => StatusIsEarned
  BY NegotiationSound, StatusSoundReady DEF ServerInv, StatusIsEarned
<1> QED BY <1>1, ServerHolds, PTL

\* Every unsaid ICE record has its timer and no other runs, a dead socket is given up
\* within its limit of missed pongs, and the SFU never searches twice at once
\* (IceCandidateMonitor.ts:318, KeepaliveMonitor.ts:58, sfu_server.js:153).
THEOREM TimersSound == Spec => []TimersAreSound
<1>1. ServerInv => TimersAreSound
  BY IceSound, AliveSound, RelaySound DEF ServerInv, TimersAreSound
<1> QED BY <1>1, ServerHolds, PTL

\* A streamer's TURN credential outlives every use of it, and a peer that was sent a bare
\* TURN server was warned of at the start (turnCredentials.ts:117, index.ts:853).
THEOREM RelayUsable == Spec => []RelayStaysUsable
<1>1. ServerInv => RelayStaysUsable
  BY TurnSound DEF ServerInv, RelayStaysUsable
<1> QED BY <1>1, ServerHolds, PTL

\* The runtime and its evidence are a customer's only after a right ticket of that
\* customer, and cover every viewer; the registries of players and streamers agree; and no
\* two streamers have one name (ConnectTicketAuth.ts:279, StreamerRegistry.ts:244).
THEOREM OwnershipEarned == Spec => []OwnershipIsEarned
<1>1. Spec => []Admit!OwnershipIsEarned /\ []Admit!ViewersAreEvident
  <2>1. Init => AdmitP!Init
    BY SameAdmissionInit DEF Init
  <2>2. [Next]_vars => [AdmitP!Next]_(AdmitP!vars)
    BY StepOfEach, SameAdmissionNext DEF admissionVars, AdmitP!vars
  <2>3. Spec => AdmitP!Spec
    BY <2>1, <2>2, PTL DEF Spec, AdmitP!Spec
  <2>4. AdmitP!OwnershipIsEarned => Admit!OwnershipIsEarned
    BY DEF AdmitP!OwnershipIsEarned, Admit!OwnershipIsEarned, AdmitP!None, Admit!None
  <2>5. AdmitP!ViewersAreEvident => Admit!ViewersAreEvident
    BY DEF AdmitP!ViewersAreEvident, Admit!ViewersAreEvident, AdmitP!None, Admit!None
  <2> QED BY <2>3, <2>4, <2>5, AdmitP!OwnershipHolds, AdmitP!EvidenceHolds, PTL
<1>2. Spec => []Signals!RegistriesAgree
  <2>1. Init => SignalsP!Init
    BY SameSignallingInit DEF Init
  <2>2. [Next]_vars => [SignalsP!Next]_(SignalsP!vars)
    BY StepOfEach, SameSignallingNext DEF signallingVars, SignalsP!vars
  <2>3. Spec => SignalsP!Spec
    BY <2>1, <2>2, PTL DEF Spec, SignalsP!Spec
  <2>4. SignalsP!Spec => []SignalsP!RegistriesAgree
    <3> USE SignallingAssumption
        DEF Signals!Players, Signals!Offers, Signals!Deals, Signals!Generations,
            SignalsP!Players, SignalsP!Offers, SignalsP!Deals, SignalsP!Generations
    <3> QED BY SignalsP!RegistriesHold
  <2> QED BY <2>3, <2>4, SameAgree, PTL
<1>3. ServerInv => Naming!IdsAreUnique
  BY DEF ServerInv, NamingInv
<1> QED BY <1>1, <1>2, <1>3, ServerHolds, PTL DEF OwnershipIsEarned

=============================================================================
