---------------------------- MODULE TurnCredentials ----------------------------
(***************************************************************************)
(* Which ICE servers a peer may use, and how long: the peer options the    *)
(* operator configures, the time-limited TURN credentials made from a      *)
(* shared secret for each connection (turnCredentials.ts, index.ts), the   *)
(* config message (SignallingServer.ts), and the peer connections that the *)
(* page and the streamer make with it, sometimes long after.               *)
(***************************************************************************)
EXTENDS Integers, FiniteSets

CONSTANTS
  None,          \* not configured; no credential
  Static,        \* the credential an operator wrote
  TtlSeconds,    \* turn_ttl
  ConfiguredOnce,\* CONFIGURED_ONCE_TTL_SECONDS: outlives any uptime
  MaxTime        \* bound: uptime

\* A definition whose comment says "Mutant" is a faulty variant of the one below it.

VARIABLES
  now,
  options,  \* peer_options, and those of players and of streamers: ICE entries, or None
  secret,   \* turn_secret is configured
  forced,   \* the page's ForceTURN flag
  warned,   \* the server warned at its start
  config,   \* peerConnectionOptions each peer was sent on its connection, or None
  made,     \* the last peer connection of each: [at, entries], or None
  refused   \* the page closed its connection for want of a TURN server

vars == <<now, options, secret, forced, warned, config, made, refused>>

PeerTypes == {"player", "streamer", "sfu"}

\* An entry: does it name a TURN server, in a list of urls or a single one; and until when
\* its credential may be used.
Entries == [turn: BOOLEAN, list: BOOLEAN, until: {None, Static}]

Stun == [turn |-> FALSE, list |-> TRUE, until |-> None]

\* An operator writes no options, a STUN entry, or a STUN and a TURN entry.
Configurable == {None, {Stun}} \cup {{Stun, e} : e \in {d \in Entries : d.turn}}

-----------------------------------------------------------------------------
(* The server.                                                             *)

IsTurnServerEntry(e) == e.turn

HasCredentiallessTurnServer(entries) ==
  entries # None /\ \E e \in entries : IsTurnServerEntry(e) /\ e.until = None

\* Mutant: the operator's lifetime for every peer.
TtlForAll(type) == TtlSeconds

\* ttlSecondsFor: a peer that is configured once is given a credential that lasts.
TtlSecondsFor(type) == IF type = "player" THEN TtlSeconds ELSE ConfiguredOnce

\* createTurnCredentials
Expiry(type) == now + TtlSecondsFor(type)

\* createTurnCredentialsProvider: one credential for all TURN entries of a copy.
Provided(entries, type) ==
  {IF IsTurnServerEntry(e) THEN [e EXCEPT !.until = Expiry(type)] ELSE e : e \in entries}

Or(a, b) == IF a = None THEN b ELSE a

\* The options of the constructor, and the providers of index.ts.
Configured(type) ==
  CASE type = "player" -> Or(options.player, Or(options.shared, {}))
    [] type = "streamer" -> Or(options.streamer, Or(options.shared, {}))
    [] type = "sfu" -> Or(options.shared, {})

\* getPeerOptions; the providers of index.ts do not throw, for a start with a lifetime
\* that is no number of seconds ends there.
GetPeerOptions(type) ==
  IF secret THEN Provided(Configured(type), type) ELSE Configured(type)

\* Mutant: only the options that all peers share are looked at.
SharedLacks == HasCredentiallessTurnServer(options.shared)

\* The server's start: without a secret, an entry that nothing will fill in is told.
Lacks ==
  \E entries \in {options.shared, options.player, options.streamer} :
    HasCredentiallessTurnServer(entries)

\* sendConfigMessage, to each peer once, as it connects.
SendConfigMessage(type) == config' = [config EXCEPT ![type] = GetPeerOptions(type)]

-----------------------------------------------------------------------------
(* The peers.                                                              *)

\* checkTurnServerAvailability: it goes through the letters of a single url.
CheckTurnServerAvailability(entries) == \E e \in entries : e.turn /\ e.list

MakePeer(type, entries) ==
  made' = [made EXCEPT ![type] = [at |-> now, entries |-> entries]]

\* onPlayerConnected and, on the page, startSession.
PlayerConnects ==
  /\ SendConfigMessage("player")
  /\ IF forced /\ ~CheckTurnServerAvailability(GetPeerOptions("player"))
     THEN refused' = TRUE /\ UNCHANGED made
     ELSE refused' = FALSE /\ MakePeer("player", GetPeerOptions("player"))
  /\ UNCHANGED <<now, options, secret, forced, warned>>

\* onStreamerConnected, and handleConfigMessage of the streamer.
StreamerConnects ==
  /\ SendConfigMessage("streamer")
  /\ UNCHANGED <<now, options, secret, forced, warned, made, refused>>

SfuConnects ==
  /\ SendConfigMessage("sfu")
  /\ UNCHANGED <<now, options, secret, forced, warned, made, refused>>

\* handlePlayerConnectedMessage: the streamer makes a peer connection for each player.
HandlePlayerConnectedMessage ==
  /\ config["streamer"] # None
  /\ MakePeer("streamer", config["streamer"])
  /\ UNCHANGED <<now, options, secret, forced, warned, config, refused>>

\* replacePeerConnectionController, on a connection that stays: another codec, another
\* streamer, or the same one again.
PageMakesAnother ==
  /\ config["player"] # None /\ ~refused
  /\ MakePeer("player", config["player"])
  /\ UNCHANGED <<now, options, secret, forced, warned, config, refused>>

TimePasses ==
  /\ now < MaxTime
  /\ now' = now + 1
  /\ UNCHANGED <<options, secret, forced, warned, config, made, refused>>

Init ==
  /\ now = 0
  /\ options \in [shared: Configurable, player: Configurable, streamer: Configurable]
  /\ secret \in BOOLEAN /\ forced \in BOOLEAN
  /\ warned = (~secret /\ Lacks)
  /\ config = [t \in PeerTypes |-> None]
  /\ made = [t \in PeerTypes |-> None]
  /\ refused = FALSE

Next ==
  \/ PlayerConnects
  \/ StreamerConnects
  \/ SfuConnects
  \/ HandlePlayerConnectedMessage
  \/ PageMakesAnother
  \/ TimePasses

Spec == Init /\ [][Next]_vars

-----------------------------------------------------------------------------
(* Properties.                                                             *)

\* The TURN server accepts what the last peer connection of a peer was made with.
Usable(type) ==
  made[type] # None => \A e \in made[type].entries :
    e.turn => e.until = Static \/ (e.until # None /\ e.until >= made[type].at)

\* A streamer can relay to every player that comes, however long it has been connected
\* since its only configuration (turnCredentials.ts:117).
RelayStaysUsable == secret => Usable("streamer")

\* A peer that was sent a TURN server it cannot use was warned of when the server started
\* (index.ts:853).
BareRelayIsWarned ==
  \A t \in PeerTypes : config[t] # None /\ HasCredentiallessTurnServer(config[t]) => warned

\* turnCredentials.ts:17-19: the lifetime of a player's credential "does not have to be
\* longer than a call".
CallsOutliveCredentials == secret => Usable("player")

\* WebRtcPlayerController.ts:1365: "close and error if turn is forced and there is no turn
\* server".
RefusedWithoutTurn == refused => \A e \in config["player"] : ~e.turn
=============================================================================
