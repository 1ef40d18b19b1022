----------------------------- MODULE Signalling -----------------------------
(***************************************************************************)
(* The signalling server between viewers and Unreal runtimes: the player   *)
(* and streamer registries, subscription, and the codec-governed SDP       *)
(* negotiation of managed viewers (PlayerConnection.ts, StreamerConnection *)
(* .ts, SignallingServer.ts and the two registries).                       *)
(*                                                                         *)
(* A player of the model is one WebSocket connection; a viewer that        *)
(* reconnects is another player.  Each message handler, timer and close    *)
(* event is one action: the server is single-threaded.  A socket the       *)
(* server closes stays "closing" until the handshake ends, and messages    *)
(* already in flight are handled meanwhile.                                *)
(***************************************************************************)
EXTENDS Integers, Sequences, FiniteSets

CONSTANTS
  Owners,         \* connections with a managed session ticket
  Shadows,        \* connections with an admin shadow ticket for that session
  Unmanaged,      \* connections without a ticket
  Streamers,      \* Unreal runtimes, by streamer id
  NoPlayer, NoStreamer, NoPolicy, NoOffer, NoDeal, NoCodec,
  Codecs,         \* the codecs a policy may allow
  Policies,       \* ticket policies; equal records have equal hashes
  MaxSubscribers, \* per streamer; 0 is no limit
  MaxGeneration,  \* bound: subscriptions of one connection, less one
  ControlTypes    \* BOOLEAN: viewers also send dataChannelRequest,
                  \* peerDataChannelsReady or layerPreference

Players == Owners \cup Shadows \cup Unmanaged

ASSUME PlayerAssumption ==
  /\ Owners \cap Shadows = {}
  /\ Unmanaged \cap (Owners \cup Shadows) = {}
  /\ NoPlayer \notin Players
  /\ NoStreamer \notin Streamers
ASSUME PolicyAssumption ==
  /\ {"VP9", "H264"} \subseteq Codecs
  /\ NoCodec \notin Codecs
  /\ NoPolicy \notin Policies
  /\ \A k \in Policies : k.allowed \subseteq Codecs /\ k.default \in k.allowed
ASSUME BoundAssumption ==
  /\ MaxSubscribers \in Nat
  /\ MaxGeneration \in Nat \ {0}
  /\ ControlTypes \in BOOLEAN

\* A definition whose comment says "Mutant" is a faulty variant of the one below it,
\* never used by it: each breaks one of the properties at the end.

VARIABLES
  conn,         \* the PlayerConnection of each player
  registry,     \* the player registry, in order of registration
  online,       \* the registered streamers, in order of registration
  subscribers,  \* the subscriber ids of each streamer
  peers         \* history: the media peers Unreal was told of and not told off

vars == <<conn, registry, online, subscribers, peers>>

Generations == 0..MaxGeneration

Offers == [from: {"player", "streamer"}, gen: Generations]
Deals == Generations \X Generations

ASSUME AbsenceAssumption == NoOffer \notin Offers /\ NoDeal \notin Deals

\* agreed is codecNegotiated with the generations of its offer and answer, and
\* paused is history: a viewer that had subscribed asked to unsubscribe, and not
\* to subscribe since.
Connection ==
  [sock: {"none", "open", "closing", "closed"},
   policy: Policies \cup {NoPolicy}, codec: Codecs \cup {NoCodec},
   finalized: BOOLEAN, failed: BOOLEAN, hasSub: BOOLEAN, gen: Generations,
   offer: Offers \cup {NoOffer}, agreed: Deals \cup {NoDeal},
   timer: BOOLEAN, sub: Streamers \cup {NoStreamer}, paused: BOOLEAN]

Idle ==
  [sock |-> "none", policy |-> NoPolicy, codec |-> NoCodec, finalized |-> FALSE,
   failed |-> FALSE, hasSub |-> FALSE, gen |-> 0, offer |-> NoOffer,
   agreed |-> NoDeal, timer |-> FALSE, sub |-> NoStreamer, paused |-> FALSE]

Elements(seq) == {seq[i] : i \in DOMAIN seq}

\* A Map without one of its keys: the others keep their order.
Without(seq, x) ==
  LET i == CHOOSE n \in DOMAIN seq : seq[n] = x
  IN  IF x \notin Elements(seq) THEN seq
      ELSE [n \in 1..(Len(seq) - 1) |-> IF n < i THEN seq[n] ELSE seq[n + 1]]

Registered == Elements(registry)
Online == Elements(online)

\* Handlers run until the transport has closed, even on a rejected connection.
Live(p) == conn[p].sock \in {"open", "closing"}

Governed(p) == conn[p].policy # NoPolicy
IsShadow(p) == p \in Shadows /\ Governed(p)

\* A connection that is not registered has the empty player id.
Id(p) == IF p \in Registered THEN p ELSE NoPlayer

\* streamerPlayerId: a governed connection is a new peer in every generation.
PeerOf(p, c) == IF c.policy = NoPolicy THEN <<Id(p), 0>> ELSE <<p, c.gen>>
Peer(p) == PeerOf(p, conn[p])

-----------------------------------------------------------------------------
(* The owner a shadow of policy k watches: shadowSource.                   *)

Watchable(k, q) ==
  /\ q \in Owners
  /\ conn[q].policy = k
  /\ conn[q].agreed # NoDeal
  /\ conn[q].sub # NoStreamer

Source(k) ==
  LET found == {i \in DOMAIN registry : Watchable(k, registry[i])}
  IN  IF found = {} THEN NoPlayer
      ELSE registry[CHOOSE i \in found : \A j \in found : i <= j]

SourceCodec(k) == IF Source(k) = NoPlayer THEN NoCodec ELSE conn[Source(k)].codec

\* Mutant: a shadow stays as long as its socket does.
NoOrphans(p) == {}

\* Shadows that lose their source when player p leaves: closeOrphanedShadow.
OrphansOf(p) ==
  {q \in Registered \ {p} :
     /\ IsShadow(q)
     /\ \A r \in Registered \ {p} : ~Watchable(conn[q].policy, r)}

-----------------------------------------------------------------------------
(* What the handlers do to a connection.                                   *)

Unsubscribed(c) ==
  [c EXCEPT !.offer = NoOffer, !.agreed = NoDeal, !.sub = NoStreamer]

Disconnected(c) ==
  [Unsubscribed(c) EXCEPT !.timer = FALSE, !.sock = "closing"]

\* failCodecNegotiation
Failed(c) == [Disconnected(c) EXCEPT !.failed = TRUE]

\* Mutant: a new subscription goes on in the media generation of the last one.
RestartedInPlace(c) == [c EXCEPT !.offer = NoOffer, !.agreed = NoDeal]

\* A later subscription of a governed viewer starts a new media generation; the
\* first keeps the offer that may have caused it.
Restarted(c) ==
  IF c.hasSub THEN [c EXCEPT !.gen = @ + 1, !.offer = NoOffer, !.agreed = NoDeal]
  ELSE [c EXCEPT !.hasSub = TRUE]

\* Mutant: the deadline starts with the connection only.
JoinedUntimed(c, u) ==
  IF c.policy = NoPolicy THEN [c EXCEPT !.sub = u]
  ELSE [Restarted(c) EXCEPT !.sub = u]

\* A deadline that is running goes on.
Joined(c, u) ==
  IF c.policy = NoPolicy THEN [c EXCEPT !.sub = u]
  ELSE [Restarted(c) EXCEPT !.sub = u, !.timer = TRUE]

SubscribersWithout(D) ==
  [u \in Streamers |->
     subscribers[u] \ {Id(p) : p \in {q \in D : conn[q].sub = u}}]

PeersWithout(D) ==
  [u \in Streamers |->
     peers[u] \ {Peer(p) : p \in {q \in D : conn[q].sub = u}}]

\* Player p becomes c: as it is, without its subscription, or with one to u.
Become(p, c) ==
  /\ conn' = [conn EXCEPT ![p] = c]
  /\ UNCHANGED <<registry, online, subscribers, peers>>

Leave(p, c) ==
  /\ conn' = [conn EXCEPT ![p] = c]
  /\ subscribers' = SubscribersWithout({p})
  /\ peers' = PeersWithout({p})
  /\ UNCHANGED <<registry, online>>

\* Mutant: a subscription is replaced without telling Unreal of the old peer.
JoinAgain(p, u, c) ==
  /\ conn' = [conn EXCEPT ![p] = Joined(c, u)]
  /\ subscribers' = [subscribers EXCEPT ![u] = @ \cup {Id(p)}]
  /\ peers' = [peers EXCEPT ![u] = @ \cup {PeerOf(p, Joined(c, u))}]
  /\ UNCHANGED <<registry, online>>

Join(p, u, c) ==
  LET joined == Joined(IF c.sub = NoStreamer THEN c ELSE Unsubscribed(c), u)
  IN  /\ conn' = [conn EXCEPT ![p] = joined]
      /\ subscribers' = [SubscribersWithout({p}) EXCEPT ![u] = @ \cup {Id(p)}]
      /\ peers' = [PeersWithout({p}) EXCEPT ![u] = @ \cup {PeerOf(p, joined)}]
      /\ UNCHANGED <<registry, online>>

-----------------------------------------------------------------------------
(* Connecting: onPlayerConnected and initializeCodecPolicy.                *)

Register(p, c) ==
  /\ conn' = [conn EXCEPT ![p] = c]
  /\ registry' = Append(registry, p)
  /\ UNCHANGED <<online, subscribers, peers>>

Reject(p, c) == Become(p, [c EXCEPT !.sock = "closing"])

ConnectUnmanaged(p) ==
  /\ p \in Unmanaged
  /\ conn[p].sock = "none"
  /\ Register(p, [Idle EXCEPT !.sock = "open"])

\* The evidence journal is not ready: no policy is set.
ConnectUnjournaled(p) ==
  /\ p \in Owners \cup Shadows
  /\ conn[p].sock = "none"
  /\ Reject(p, Idle)

\* recorded: the journal took the connection_opened event.
ConnectOwner(p, k, recorded) ==
  LET c == [Idle EXCEPT !.policy = k, !.codec = k.default]
  IN  /\ p \in Owners
      /\ conn[p].sock = "none"
      /\ IF recorded THEN Register(p, [c EXCEPT !.sock = "open", !.timer = TRUE])
                     ELSE Reject(p, c)

\* A shadow needs an owner that plays something else than H264, and takes its
\* codec (which the common policy allows).
ConnectShadow(p, k, recorded) ==
  LET c == [Idle EXCEPT !.policy = k, !.codec = k.default]
      d == [c EXCEPT !.codec = SourceCodec(k)]
  IN  /\ p \in Shadows
      /\ conn[p].sock = "none"
      /\ IF d.codec \in {NoCodec, "H264"} THEN Reject(p, c)
         ELSE IF recorded THEN Register(p, [d EXCEPT !.sock = "open", !.timer = TRUE])
         ELSE Reject(p, d)

-----------------------------------------------------------------------------
(* Codec selection and subscription.                                       *)

\* The codecs both sides can use; what the browser supports may be unknown.
Common(p, supported) ==
  IF IsShadow(p) THEN {conn[p].codec} \cap supported
  ELSE {conn[p].policy.default, "VP9", "H264"} \cap conn[p].policy.allowed
         \cap supported

Preferred(p) == IF IsShadow(p) THEN conn[p].codec ELSE conn[p].policy.default

\* The preferred codec, else VP9, else H264.
Selection(p, supported) ==
  IF Preferred(p) \in supported THEN Preferred(p)
  ELSE IF "VP9" \in Common(p, supported) THEN "VP9" ELSE "H264"

\* supported = Codecs is also what an unknown capability list comes to.
Capabilities(p, supported, recorded) ==
  LET c == [conn[p] EXCEPT !.finalized = TRUE]
  IN  /\ Live(p)
      /\ Governed(p)
      /\ ~c.hasSub /\ c.offer = NoOffer /\ ~conn[p].finalized
      /\ IF Common(p, supported) # {} /\ recorded
         THEN Become(p, [c EXCEPT !.codec = Selection(p, supported)])
         ELSE Leave(p, Failed(c))

\* A shadow may only watch what its owner watches; an unknown id is NoStreamer.
Mismatched(p, u) ==
  /\ IsShadow(p)
  /\ IF Source(conn[p].policy) = NoPlayer THEN u \in Online
     ELSE conn[Source(conn[p].policy)].sub # u

\* Mutant: only the newcomer's codec counts.
ExclusiveNewcomer(p, u) ==
  /\ Governed(p)
  /\ conn[p].codec = "H264"
  /\ \E q \in Registered \ {p} : conn[q].sub = u

\* H264 has one viewer.
Exclusive(p, u) ==
  /\ Governed(p)
  /\ \E q \in Registered \ {p} :
       conn[q].sub = u /\ "H264" \in {conn[p].codec, conn[q].codec}

\* Mutant: the limit is passed by one.
Overfull(p, u) ==
  /\ MaxSubscribers > 0
  /\ Cardinality(SubscribersWithout({p})[u]) > MaxSubscribers

Full(p, u) ==
  /\ MaxSubscribers > 0
  /\ Cardinality(SubscribersWithout({p})[u]) >= MaxSubscribers

\* subscribe() for a connection that the handler has made c. declined is what
\* it becomes when there is no place for it.
Subscribe(p, c, u, declined) ==
  LET d == [c EXCEPT !.finalized = TRUE]
  IN  \/ /\ Mismatched(p, u)
         /\ Leave(p, Disconnected(d))
      \/ /\ ~Mismatched(p, u)
         /\ IF u \notin Online THEN Become(p, d)
            ELSE IF Exclusive(p, u) THEN Leave(p, Failed(d))
            ELSE IF Full(p, u) THEN Leave(p, declined)
            ELSE d.gen < MaxGeneration /\ Join(p, u, d)

SubscribeRequest(p, u) ==
  LET c == [conn[p] EXCEPT !.paused = FALSE]
  IN  /\ Live(p)
      /\ ~c.failed
      /\ Subscribe(p, c, u, Unsubscribed([c EXCEPT !.finalized = TRUE]))

\* The streamer id is not a string.
MalformedSubscribe(p) ==
  /\ Live(p)
  /\ ~conn[p].failed
  /\ Leave(p, Disconnected([conn[p] EXCEPT !.finalized = TRUE]))

UnsubscribeRequest(p) ==
  /\ Live(p)
  /\ Leave(p, [Unsubscribed(conn[p]) EXCEPT !.paused = @ \/ conn[p].hasSub])

\* A message of a viewer without a subscription subscribes it to the first
\* streamer, and disconnects it when that is not possible.
SubscribeFirst(p, c) ==
  IF online = <<>> \/ c.failed THEN Leave(p, Disconnected(c))
  ELSE Subscribe(p, c, Head(online), Disconnected([c EXCEPT !.finalized = TRUE]))

\* Any message but SDP and ICE, and all of them from an ungoverned viewer.
ImplicitSubscribe(p) ==
  /\ Live(p)
  /\ conn[p].sub = NoStreamer
  /\ Governed(p) => ControlTypes
  /\ SubscribeFirst(p, conn[p])

-----------------------------------------------------------------------------
(* Negotiation: sendToStreamer and forwardMessage with filterCodecMessage. *)

\* A governed shadow negotiates only what its owner plays.
InStep(p) ==
  IsShadow(p) => SourceCodec(conn[p].policy) = conn[p].codec

\* Mutant: a message of an earlier media generation is taken for a current one.
AnyGeneration(p, from, g) ==
  IF from = "player" THEN conn[p].sub # NoStreamer
  ELSE p \in Registered /\ \E u \in Online : p \in subscribers[u]

\* The message names the current generation: the viewer's does so itself, the
\* streamer's by the peer id, and only a subscriber of that streamer is heard.
Current(p, from, g) ==
  /\ g = conn[p].gen
  /\ IF from = "player" THEN conn[p].sub # NoStreamer
     ELSE p \in Registered /\ \E u \in Online : p \in subscribers[u]

Negotiating(p, from, g) ==
  /\ Live(p)
  /\ Governed(p)
  /\ Current(p, from, g)
  /\ ~conn[p].failed

\* A description that is malformed, against the policy, or not recorded.
BadDescription(p, from, g) ==
  /\ Negotiating(p, from, g)
  /\ Leave(p, IF InStep(p) THEN Failed([conn[p] EXCEPT !.finalized = TRUE])
              ELSE Disconnected(conn[p]))

\* Mutant: the deadline is not started again when negotiation is.
OfferedUntimed(c, from, g) ==
  [c EXCEPT !.finalized = TRUE, !.offer = [from |-> from, gen |-> g],
            !.agreed = NoDeal]

Offered(c, from, g) ==
  [c EXCEPT !.finalized = TRUE, !.offer = [from |-> from, gen |-> g],
            !.agreed = NoDeal, !.timer = TRUE]

Offer(p, from, g) ==
  /\ Negotiating(p, from, g)
  /\ IF InStep(p) THEN Become(p, Offered(conn[p], from, g))
     ELSE Leave(p, Disconnected(conn[p]))

\* Before the first subscription an offer of the viewer brings it about; ok: it
\* passes the policy.
FirstOffer(p, ok) ==
  /\ Live(p)
  /\ Governed(p)
  /\ conn[p].sub = NoStreamer
  /\ ~conn[p].hasSub
  /\ ~conn[p].failed
  /\ IF ~InStep(p) THEN Leave(p, Disconnected(conn[p]))
     ELSE IF ok THEN SubscribeFirst(p, Offered(conn[p], "player", 0))
     ELSE Leave(p, Failed([conn[p] EXCEPT !.finalized = TRUE]))

Agreed(c, g) ==
  [c EXCEPT !.finalized = TRUE, !.offer = NoOffer,
            !.agreed = <<c.offer.gen, g>>, !.timer = FALSE]

\* An answer to the current offer, from the other side, that was recorded.
Answer(p, from, g) ==
  /\ Negotiating(p, from, g)
  /\ InStep(p)
  /\ conn[p].offer # NoOffer
  /\ conn[p].offer.from # from
  /\ Become(p, Agreed(conn[p], g))

\* The browser decodes another codec than the one agreed on.
Contradict(p, g) ==
  /\ Negotiating(p, "player", g)
  /\ conn[p].agreed # NoDeal
  /\ Leave(p, Failed(conn[p]))

\* startNegotiationTimer: 60 seconds without an agreement.
DeadlineFires(p) ==
  /\ conn[p].timer
  /\ Leave(p, Failed(conn[p]))

-----------------------------------------------------------------------------
(* Sockets.                                                                *)

\* The streamer, or the idle-stop module, closes the viewer's socket.
CloseSocket(p) ==
  /\ p \in Registered
  /\ conn[p].sock = "open"
  /\ Become(p, [conn[p] EXCEPT !.sock = "closing"])

\* A closed connection is garbage; only the peer ids it used are remembered.
Closed(c) ==
  [Idle EXCEPT !.sock = "closed", !.hasSub = c.hasSub, !.gen = c.gen]

\* Everyone in D loses its subscription and its socket, p's is closed already.
DisconnectAll(D, p) ==
  /\ conn' = [q \in Players |->
               IF q = p THEN Closed(conn[q])
               ELSE IF q \in D THEN Disconnected(conn[q]) ELSE conn[q]]
  /\ subscribers' = SubscribersWithout(D)
  /\ peers' = PeersWithout(D)

\* Mutant: the player stays registered.
TransportCloseOnly(p) ==
  /\ Live(p)
  /\ DisconnectAll({p}, p)
  /\ UNCHANGED <<registry, online>>

\* The socket is closed, by its viewer, by the network or by the server. Only
\* a registered player's close looks for orphaned shadows.
TransportClose(p) ==
  /\ Live(p)
  /\ DisconnectAll({p} \cup (IF p \in Registered THEN OrphansOf(p) ELSE {}), p)
  /\ registry' = Without(registry, p)
  /\ UNCHANGED online

StreamerConnect(u) ==
  /\ u \notin Online
  /\ online' = Append(online, u)
  /\ UNCHANGED <<conn, registry, subscribers, peers>>

\* The close event reaches the subscribed players before the registry.
StreamerClose(u) ==
  /\ u \in Online
  /\ DisconnectAll({p \in Players : conn[p].sub = u}, NoPlayer)
  /\ online' = Without(online, u)
  /\ UNCHANGED registry

-----------------------------------------------------------------------------
Init ==
  /\ conn = [p \in Players |-> Idle]
  /\ registry = <<>>
  /\ online = <<>>
  /\ subscribers = [u \in Streamers |-> {}]
  /\ peers = [u \in Streamers |-> {}]

Next ==
  \/ \E p \in Players :
       \/ ConnectUnmanaged(p)
       \/ ConnectUnjournaled(p)
       \/ \E k \in Policies, recorded \in BOOLEAN :
            ConnectOwner(p, k, recorded) \/ ConnectShadow(p, k, recorded)
       \/ \E supported \in SUBSET Codecs, recorded \in BOOLEAN :
            Capabilities(p, supported, recorded)
       \/ \E u \in Streamers \cup {NoStreamer} : SubscribeRequest(p, u)
       \/ MalformedSubscribe(p)
       \/ UnsubscribeRequest(p)
       \/ ImplicitSubscribe(p)
       \/ \E ok \in BOOLEAN : FirstOffer(p, ok)
       \/ \E from \in {"player", "streamer"}, g \in Generations :
            BadDescription(p, from, g) \/ Offer(p, from, g) \/ Answer(p, from, g)
       \/ \E g \in Generations : Contradict(p, g)
       \/ DeadlineFires(p)
       \/ CloseSocket(p)
       \/ TransportClose(p)
  \/ \E u \in Streamers : StreamerConnect(u) \/ StreamerClose(u)

Spec == Init /\ [][Next]_vars

\* Timers fire, and a socket the server closes is closed within the close
\* timeout of its WebSocket.
Fairness ==
  \A p \in Players :
    /\ WF_vars(DeadlineFires(p))
    /\ WF_vars(conn[p].sock = "closing" /\ TransportClose(p))

FairSpec == Spec /\ Fairness

-----------------------------------------------------------------------------
(* Properties.                                                             *)

\* Every variable has its type, and the registries hold each player, while its
\* transport lasts, and each streamer once.
TypeOK ==
  /\ conn \in [Players -> Connection]
  /\ registry \in Seq(Players)
  /\ \A i, j \in DOMAIN registry : registry[i] = registry[j] => i = j
  /\ \A p \in Registered : Live(p)
  /\ online \in Seq(Streamers)
  /\ \A i, j \in DOMAIN online : online[i] = online[j] => i = j
  /\ subscribers \in [Streamers -> SUBSET (Players \cup {NoPlayer})]
  /\ peers \in [Streamers ->
               SUBSET ((Players \cup {NoPlayer}) \X Generations)]

\* Unreal has exactly the peers of the current subscriptions: no viewer is
\* without its peer, and no peer outlives its subscription, its generation or
\* its viewer (subscribe, unsubscribe, disconnect).
PeersAreSubscriptions ==
  \A u \in Streamers :
    /\ peers[u] \subseteq {Peer(p) : p \in {q \in Players : conn[q].sub = u}}
    /\ \A p \in Registered : conn[p].sub = u => Peer(p) \in peers[u]

\* A streamer's subscriber set names exactly the registered viewers subscribed
\* to it, all of a registered streamer, and not more than it may have.
SubscriptionsAreCounted ==
  \A u \in Streamers :
    LET viewers == {p \in Registered : conn[p].sub = u}
    IN  /\ subscribers[u] \ {NoPlayer} = viewers
        /\ viewers # {} => u \in Online
        /\ MaxSubscribers > 0 => Cardinality(viewers) <= MaxSubscribers

\* The registries agree with one another, and with Unreal.
RegistriesAgree == PeersAreSubscriptions /\ SubscriptionsAreCounted

\* Two governed viewers share a streamer only if neither plays H264
\* (PlayerConnection.ts:700).
H264ViewersAreAlone ==
  \A p, q \in Registered :
    p # q /\ Governed(p) /\ Governed(q)
      /\ conn[p].sub # NoStreamer /\ conn[p].sub = conn[q].sub
      => "H264" \notin {conn[p].codec, conn[q].codec}

\* A registered shadow that is connected or subscribed never outlives the last
\* owner of its policy (SignallingServer.ts:481).
NoOrphanedShadow ==
  \A p \in Registered :
    IsShadow(p) /\ (conn[p].sock = "open" \/ conn[p].sub # NoStreamer)
      => \E q \in Registered \cap Owners : conn[q].policy = conn[p].policy

\* What was negotiated is an offer and an answer of the current generation,
\* whatever late messages of earlier generations arrive.
DealIsCurrent ==
  \A p \in Players :
    conn[p].agreed # NoDeal => conn[p].agreed = <<conn[p].gen, conn[p].gen>>

\* A governed viewer that waits for its stream has a deadline running.
PendingHasDeadline ==
  \A p \in Players :
    Governed(p) /\ conn[p].sub # NoStreamer /\ conn[p].agreed = NoDeal
      => conn[p].timer

\* Peer ids are never reused: the server implements UnrealPeers.
Governable == Owners \cup Shadows
UsedPeers ==
  {x \in Governable \X Generations : conn[x[1]].hasSub /\ x[2] <= conn[x[1]].gen}
GovernedPeers == [u \in Streamers |-> peers[u] \cap (Governable \X Generations)]
Unreal ==
  INSTANCE UnrealPeers WITH Peers <- Governable \X Generations,
                            connected <- GovernedPeers, seen <- UsedPeers
PeersAreFresh == Unreal!Spec

\* A governed viewer that waits for its stream gets it, or is disconnected:
\* retries on the same socket do not extend the deadline (PlayerConnection.ts:68).
PendingSettles ==
  \A p \in Owners \cup Shadows :
    (Governed(p) /\ conn[p].sub # NoStreamer /\ conn[p].agreed = NoDeal)
      ~> (conn[p].agreed # NoDeal \/ conn[p].sock = "closed")

\* "Late ICE or answers must not revive a paused/unsubscribed managed media
\* generation" (PlayerConnection.ts:637): a viewer that unsubscribed is
\* subscribed again only when it asks.
PausedStaysPaused ==
  \A p \in Players :
    Governed(p) /\ conn[p].paused => conn[p].sub = NoStreamer

=============================================================================
