------------------------------- MODULE Relay -------------------------------
(***************************************************************************)
(* The SFU between an Unreal streamer and its viewers: the SFU process     *)
(* (SFU/sfu_server.js), which looks for a streamer, subscribes to it and   *)
(* offers its media on, and the signalling server's side of it             *)
(* (SFUConnection, StreamerConnection, StreamerRegistry and the parts of   *)
(* SignallingServer and PlayerConnection that concern it).                 *)
(*                                                                         *)
(* The SFU's message handlers are async functions that nobody awaits, so   *)
(* every await is a step of its own and what it returns to may have        *)
(* changed; a rejection in one of them ends the process.                   *)
(***************************************************************************)
EXTENDS Integers, Sequences, FiniteSets, SequencesExt

CONSTANTS
  Streamers,   \* Unreal runtimes, by streamer id
  Players,     \* ungoverned viewers' sockets
  MaxLosses,   \* bound: lost streamers and SFU sockets
  MaxMoves     \* bound: subscriptions and departures of viewers

\* A definition whose comment says "Mutant" is a faulty variant of the one below it.

VARIABLES
  srv,   \* the signalling server
  sfu,   \* the SFU process
  down,  \* messages from the server to the SFU, in order
  up,    \* messages from the SFU to the server, in order
  left   \* what the environment may still do

vars == <<srv, sfu, down, up, left>>

NoOne == "none"
Relay == "sfu"

Server ==
  [streamers: SUBSET Streamers,  \* registered
   on: BOOLEAN,                  \* the SFU's connection is registered
   streaming: BOOLEAN,           \* its flag `streaming`
   source: Streamers \cup {NoOne},
   offers: BOOLEAN,              \* the source has yet to offer
   missed: BOOLEAN,              \* it subscribed to a streamer that was gone
   watches: [Players -> Streamers \cup {Relay, NoOne, "gone"}]]

\* `streamer`: nothing, answered, or connected (ICE completed); `fresh`: its
\* offer belongs to the present subscription.
Process ==
  [sock: {"connecting", "open", "closing", "closed"}, search: BOOLEAN,
   streamer: {NoOne, "answered", "connected"}, fresh: BOOLEAN,
   offers: Seq(BOOLEAN), peers: SUBSET Players,
   joins: SUBSET [player: Players, at: {"transport", "consume"}],
   setups: SUBSET Players, dead: BOOLEAN]

Msg(type) == [type |-> type]

Spend(what) ==
  /\ left[what] > 0
  /\ left' = [left EXCEPT ![what] = @ - 1]

-----------------------------------------------------------------------------
(* The signalling server.                                                  *)

Send(msgs) == down' = down \o msgs

\* Subscribers of a streamer's 'disconnect': each viewer disconnects.
Dropped(s, of) ==
  [s EXCEPT !.watches = [p \in Players |-> IF @[p] = of THEN "gone" ELSE @[p]]]

\* What the SFU hears of its viewers as they are dropped.
Farewells ==
  LET all == SetToSeq({p \in Players : srv.watches[p] = Relay})
  IN  [i \in DOMAIN all |-> [type |-> "playerDisconnected", player |-> all[i]]]

\* SFUConnection.unsubscribe
SourceLeft(s) == [s EXCEPT !.source = NoOne, !.offers = FALSE]

\* SFUConnection.onStreamerDisconnected; its own 'disconnect' reaches its viewers.
SourceLost(s) ==
  [Dropped(SourceLeft(s), Relay) EXCEPT !.streaming = FALSE]

\* StreamerRegistry.add and the endpointId that makes it streaming.
StreamerArrives(u) ==
  /\ Spend("loss")
  /\ u \notin srv.streamers
  /\ srv' = [srv EXCEPT !.streamers = @ \cup {u}]
  /\ UNCHANGED <<sfu, down, up>>

\* The transport closes: 'disconnect', and then the registry forgets it.
StreamerLeaves(u) ==
  /\ u \in srv.streamers
  /\ LET s == Dropped([srv EXCEPT !.streamers = @ \ {u}], u)
         relayed == srv.source = u
     IN  /\ srv' = IF relayed THEN SourceLost(s) ELSE s
         /\ Send(IF relayed
                 THEN <<Msg("streamerDisconnected")>> \o Farewells ELSE <<>>)
  /\ UNCHANGED <<sfu, up, left>>

\* Unreal offers to its new subscriber; forwardMessage.
StreamerOffers ==
  /\ srv.offers
  /\ srv' = [srv EXCEPT !.offers = FALSE]
  /\ Send(<<Msg("offer")>>)
  /\ UNCHANGED <<sfu, up, left>>

\* SFUConnection.subscribe
Subscribe(u) ==
  IF u \notin srv.streamers THEN srv' = [srv EXCEPT !.missed = TRUE]
  ELSE srv' = [srv EXCEPT !.source = u, !.offers = TRUE]

\* The handlers of SFUConnection.
ServerReceives ==
  /\ up # <<>>
  /\ up' = Tail(up)
  /\ LET m == Head(up)
     IN  \/ /\ m.type \in {"endpointId", "startStreaming"}
            /\ srv' = [srv EXCEPT !.streaming = TRUE]
            /\ Send(<<>>)
         \/ /\ m.type = "stopStreaming"
            /\ srv' = [Dropped(srv, Relay) EXCEPT !.streaming = FALSE]
            /\ Send(Farewells)
         \/ /\ m.type = "listStreamers"
            /\ Send(<<[type |-> "streamerList", ids |-> srv.streamers]>>)
            /\ UNCHANGED srv
         \/ m.type = "subscribe" /\ Subscribe(m.id) /\ Send(<<>>)
  /\ UNCHANGED <<sfu, left>>

\* PlayerConnection.subscribe, which does not ask whether the SFU is streaming.
PlayerSubscribes(p, x) ==
  /\ Spend("move")
  /\ srv.watches[p] = NoOne
  /\ x \in srv.streamers \cup (IF srv.on THEN {Relay} ELSE {})
  /\ srv' = [srv EXCEPT !.watches[p] = x]
  /\ Send(IF x = Relay THEN <<[type |-> "playerConnected", player |-> p]>>
          ELSE <<>>)
  /\ UNCHANGED <<sfu, up>>

PlayerUnsubscribes(p) ==
  /\ Spend("move")
  /\ srv.watches[p] \notin {NoOne, "gone"}
  /\ srv' = [srv EXCEPT !.watches[p] = NoOne]
  /\ Send(IF srv.watches[p] = Relay
          THEN <<[type |-> "playerDisconnected", player |-> p]>> ELSE <<>>)
  /\ UNCHANGED <<sfu, up>>

\* A viewer that was offered media asks for data channels.
PlayerRequestsData(p) ==
  /\ Spend("move")
  /\ srv.watches[p] = Relay
  /\ p \in sfu.peers
  /\ Send(<<[type |-> "dataChannelRequest", player |-> p]>>)
  /\ UNCHANGED <<srv, sfu, up>>

-----------------------------------------------------------------------------
(* The SFU process.                                                        *)

\* Mutant: a search that is pending is not cancelled.
SearchAgain(f) == f

\* cancelStreamerSearch
SearchCancelled(f) == [f EXCEPT !.search = FALSE]

\* teardownStreamer
TornDown(f) ==
  [f EXCEPT !.streamer = NoOne, !.fresh = FALSE, !.peers = {}]

\* ws drops what is sent on a closed socket, and throws while it connects.
Sends(f, msgs) ==
  /\ sfu' = IF f.sock = "connecting" THEN [f EXCEPT !.dead = TRUE] ELSE f
  /\ up' = IF f.sock = "open" THEN up \o msgs ELSE up

Quiet(f) == sfu' = f /\ UNCHANGED up

\* onStreamerList
OnStreamerList(f, ids) ==
  \/ ids = {} /\ Quiet([f EXCEPT !.search = TRUE])
  \/ \E u \in ids : Sends(f, <<[type |-> "subscribe", id |-> u]>>)

\* onStreamerOffer, up to its first await.
OnStreamerOffer(f) ==
  IF f.streamer # NoOne THEN Quiet([f EXCEPT !.sock = "closing"])
  ELSE Quiet([f EXCEPT !.offers = Append(@, TRUE)])

\* Mutant: it searches only if there was a streamer to tear down.
SearchAfterTeardown(f) == f.streamer # NoOne

SearchAfter(f) == TRUE

\* onStreamerDisconnected; an offer that is being answered is not current now.
OnStreamerDisconnected(f) ==
  LET g == [TornDown(f) EXCEPT !.search = SearchAfter(f),
                               !.offers = [i \in DOMAIN @ |-> FALSE]]
  IN  IF f.streamer # NoOne /\ f.sock = "open"
      THEN Sends(g, <<Msg("stopStreaming")>>) ELSE Quiet(g)

\* onPeerConnected, up to its first await.
OnPeerConnected(f, p) ==
  Quiet(IF f.streamer = NoOne THEN f ELSE
        [f EXCEPT !.joins = @ \cup {[player |-> p, at |-> "transport"]}])

\* setupPeerDataChannels, up to its first await.
OnDataChannelRequest(f, p) ==
  Quiet(IF p \in f.peers THEN [f EXCEPT !.setups = @ \cup {p}] ELSE f)

\* onSignallingMessage
SfuReceives ==
  /\ ~sfu.dead
  /\ down # <<>>
  /\ down' = Tail(down)
  /\ LET m == Head(down)
     IN  \/ /\ m.type = "identify"
            /\ Sends(sfu, <<Msg("endpointId"), Msg("listStreamers")>>)
         \/ m.type = "streamerList" /\ OnStreamerList(sfu, m.ids)
         \/ m.type = "offer" /\ OnStreamerOffer(sfu)
         \/ m.type = "streamerDisconnected" /\ OnStreamerDisconnected(sfu)
         \/ m.type = "playerConnected" /\ OnPeerConnected(sfu, m.player)
         \/ m.type = "playerDisconnected"
            /\ Quiet([sfu EXCEPT !.peers = @ \ {m.player}])
         \/ m.type = "dataChannelRequest"
            /\ OnDataChannelRequest(sfu, m.player)
  /\ UNCHANGED <<srv, left>>

\* streamerSearchTimer
SearchTimer ==
  /\ ~sfu.dead
  /\ sfu.search
  /\ LET f == [sfu EXCEPT !.search = FALSE]
     IN  IF f.sock = "open" THEN Sends(f, <<Msg("listStreamers")>>) ELSE Quiet(f)
  /\ UNCHANGED <<srv, down, left>>

\* onStreamerOffer after its awaits: the answer goes out, the streamer is set
\* without another look at what happened meanwhile.
OfferAnswered ==
  /\ ~sfu.dead
  /\ sfu.offers # <<>>
  /\ Sends([sfu EXCEPT !.offers = Tail(@), !.streamer = "answered",
                       !.fresh = Head(sfu.offers)], <<>>)
  /\ UNCHANGED <<srv, down, left>>

\* onICEStateChange: media flows from a streamer that is still there.
IceCompleted ==
  /\ ~sfu.dead
  /\ sfu.streamer = "answered"
  /\ sfu.fresh
  /\ srv.source # NoOne
  /\ Sends([sfu EXCEPT !.streamer = "connected"], <<Msg("startStreaming")>>)
  /\ UNCHANGED <<srv, down, left>>

\* onPeerConnected after its transport: the loop over the streamer's producers
\* is inside a try.
JoinTransport(j) ==
  /\ ~sfu.dead
  /\ j \in sfu.joins
  /\ j.at = "transport"
  /\ LET others == sfu.joins \ {j}
     IN  Quiet([sfu EXCEPT !.joins =
                  IF sfu.streamer = NoOne THEN others
                  ELSE others \cup {[j EXCEPT !.at = "consume"]}])
  /\ UNCHANGED <<srv, down, left>>

\* ... and after its consumers: the peer is offered to and kept, also when it
\* has left; a last consumer that came in although its streamer was closed
\* runs into the streamer that is no more.
JoinConsumed(j) ==
  /\ ~sfu.dead
  /\ j \in sfu.joins
  /\ j.at = "consume"
  /\ LET f == [sfu EXCEPT !.joins = @ \ {j}]
     IN  \/ sfu.streamer # NoOne
            /\ Sends([f EXCEPT !.peers = @ \cup {j.player}], <<>>)
         \/ sfu.streamer = NoOne /\ Quiet(f)
         \/ sfu.streamer = NoOne /\ Quiet([f EXCEPT !.dead = TRUE])
  /\ UNCHANGED <<srv, down, left>>

\* setupPeerDataChannels after its awaits: they fail when the peer's or the
\* streamer's transport was closed meanwhile.
DataChannelsSetUp(p) ==
  /\ ~sfu.dead
  /\ p \in sfu.setups
  /\ LET f == [sfu EXCEPT !.setups = @ \ {p}]
     IN  Quiet([f EXCEPT !.dead = p \notin f.peers])
  /\ UNCHANGED <<srv, down, left>>

-----------------------------------------------------------------------------
(* The connection between them.                                            *)

\* Both ends see the socket close: SFUConnection.disconnect and the registries
\* on one side, the close listener of connectSignalling on the other.
Closed ==
  /\ ~sfu.dead
  /\ \/ sfu.sock = "open" /\ Spend("loss")
     \/ sfu.sock = "closing" /\ UNCHANGED left
  /\ sfu' = [TornDown(SearchCancelled(sfu)) EXCEPT
               !.sock = "closed", !.offers = [i \in DOMAIN @ |-> FALSE]]
  /\ srv' = [Dropped(SourceLeft(srv), Relay) EXCEPT
               !.on = FALSE, !.streaming = FALSE, !.missed = FALSE]
  /\ down' = <<>>
  /\ up' = <<>>

Reconnect ==
  /\ ~sfu.dead
  /\ sfu.sock = "closed"
  /\ sfu' = [sfu EXCEPT !.sock = "connecting"]
  /\ UNCHANGED <<srv, down, up, left>>

\* onSFUConnected: the registries add it, and ask who it is.
Opened ==
  /\ ~sfu.dead
  /\ sfu.sock = "connecting"
  /\ sfu' = [sfu EXCEPT !.sock = "open"]
  /\ srv' = [srv EXCEPT !.on = TRUE]
  /\ Send(<<Msg("identify")>>)
  /\ UNCHANGED <<up, left>>

-----------------------------------------------------------------------------
Init ==
  /\ srv = [streamers |-> {}, on |-> FALSE, streaming |-> FALSE,
            source |-> NoOne, offers |-> FALSE, missed |-> FALSE,
            watches |-> [p \in Players |-> NoOne]]
  /\ sfu = [sock |-> "connecting", search |-> FALSE, streamer |-> NoOne,
            fresh |-> FALSE, offers |-> <<>>, peers |-> {}, joins |-> {},
            setups |-> {}, dead |-> FALSE]
  /\ down = <<>>
  /\ up = <<>>
  /\ left = [loss |-> MaxLosses, move |-> MaxMoves]

ServerSteps ==
  \/ \E u \in Streamers : StreamerArrives(u) \/ StreamerLeaves(u)
  \/ StreamerOffers \/ ServerReceives
  \/ \E p \in Players :
       \/ \E x \in Streamers \cup {Relay} : PlayerSubscribes(p, x)
       \/ PlayerUnsubscribes(p) \/ PlayerRequestsData(p)

SfuSteps ==
  \/ SfuReceives \/ SearchTimer \/ OfferAnswered \/ IceCompleted
  \/ \E j \in sfu.joins : JoinTransport(j) \/ JoinConsumed(j)
  \/ \E p \in Players : DataChannelsSetUp(p)
  \/ Closed \/ Reconnect \/ Opened

Next == ServerSteps \/ SfuSteps

Spec == Init /\ [][Next]_vars

\* Messages arrive, timers fire, awaits return, and Unreal offers and connects.
Fairness ==
  /\ WF_vars(StreamerOffers)
  /\ WF_vars(ServerReceives)
  /\ WF_vars(SfuReceives)
  /\ WF_vars(SearchTimer)
  /\ WF_vars(OfferAnswered)
  /\ WF_vars(IceCompleted)
  /\ WF_vars(sfu.sock = "closing" /\ Closed)
  /\ WF_vars(Reconnect)
  /\ WF_vars(Opened)

FairSpec == Spec /\ Fairness

-----------------------------------------------------------------------------
(* Properties.                                                             *)

\* The searches under way: each is a message, the timer or the subscription.
Searches ==
  {<<"down", i>> : i \in {k \in DOMAIN down :
                          down[k].type \in {"identify", "streamerList", "streamerDisconnected"}}}
    \cup {<<"up", i>> : i \in {k \in DOMAIN up : up[k].type \in {"listStreamers", "subscribe"}}}
    \cup (IF sfu.search THEN {<<"timer", 0>>} ELSE {})
    \cup (IF srv.source # NoOne THEN {<<"source", 0>>} ELSE {})

\* At every moment at most one search is under way, from the timer through the
\* list to the subscription and until it has ended: reconnects and repeated
\* losses never make the SFU subscribe twice.
SearchIsSingle == \A s, t \in Searches : s = t

\* While a streamer stays, the SFU ends up relaying it, whatever was lost on
\* the way; except that it waits for ever when the streamer it subscribed to
\* was gone by then, and that some rejections end the process.
RelayResumes ==
  <>[](\/ srv.streaming /\ srv.source # NoOne /\ sfu.streamer = "connected"
       \/ srv.streamers = {}
       \/ srv.missed
       \/ sfu.dead)

\* SFUConnection.ts says of `streaming`: "True when this SFU is subscribed to
\* another streamer and is ready to be subscribed to itself."
StreamingIsSubscribed == srv.streaming => srv.source # NoOne
=============================================================================
