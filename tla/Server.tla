-------------------------------- MODULE Server --------------------------------
(***************************************************************************)
(* The parts of the signalling process that share no state, side by side:  *)
(* in a behaviour one of them runs, and the others rest.                   *)
(***************************************************************************)
EXTENDS Integers, Sequences, FiniteSets

CONSTANTS
  Nil,          \* null, in every component that has one
  Streamers,    \* Unreal runtimes, by streamer id
  Places,       \* players' sockets, where negotiations and candidates are counted
  \* TicketGate
  Sessions, Tokens, Untokened, NoMarker, Shutdown, MaxTokens, Skew, GateTime, Outcomes,
  Faults,
  \* Signalling
  Owners, Shadows, Unmanaged, Codecs, Policies, MaxSubscribers, MaxGeneration, ControlTypes,
  \* RuntimeStatus
  ReadySoak, MaxStreamer, MaxIdle, MaxGate, MaxFails, MaxQueue,
  \* Relay
  SfuPlayers, MaxLosses, MaxMoves,
  \* NegotiationRecovery
  Requests, Request, FaultAfter, PruneAfter, NegotiationTime,
  \* IceMonitor
  Types, MaxTracked, MaxMedia,
  \* Admission
  Customers, Actives, Wrong, Sockets, MaxFaults,
  \* Keepalive
  MaxMissedPongs, Latency,
  \* TurnCredentials
  Static, TtlSeconds, ConfiguredOnce, TurnTime,
  \* StreamerRegistry
  Programs, Wanted, Default, Largest, MaxSockets, MaxAsks

\* What the components ask of their values: limits and lifetimes are numbers, and a
\* credential that is configured once outlives the uptime.
ASSUME KeepaliveAssumption == MaxMissedPongs \in Nat
ASSUME TurnAssumption ==
  /\ TurnTime \in Nat /\ TtlSeconds \in Nat
  /\ ConfiguredOnce \in Nat /\ ConfiguredOnce >= TurnTime
  /\ Nil \notin Int
ASSUME IceAssumption == MaxTracked \in Nat \ {0}
ASSUME StatusAssumption == ReadySoak \in Nat
ASSUME NegotiationAssumption ==
  /\ FaultAfter \in Nat /\ PruneAfter \in Nat /\ NegotiationTime \in Nat
  /\ Request \in [Places -> Requests]
ASSUME NameAssumption ==
  /\ \A id \in Wanted \cup {Default} : id = <<id[1], id[2]>> /\ id[2] \in Seq(0 .. 9)
  /\ Largest \in Nat
ASSUME RelayAssumption == IsFiniteSet(SfuPlayers) /\ "none" \notin Streamers

VARIABLES
  component, \* the one that runs in this behaviour
  disk, stable, gateUp, failed, owner, admittedHere, hostBoot, requests, marker,
  proven, helper, pending, gateNow, occupants, latched, fence,
  conn, registry, online, subscribers, peers,
  r, tag, streak, statusLeft,
  srv, sfu, down, relayUp, relayLeft,
  n, negotiationNow, due, waited,
  iceViewer, records, order, timers,
  settings, gate, evidence, admissionViewer, right, faults,
  socket, missed, pings, silent, ended,
  turnNow, options, secret, forced, warned, config, made, refused,
  streamers, nameSocket, name, told, asks, want, authorizes

Gate == INSTANCE TicketGate WITH
  NoSession <- Nil, MaxTime <- GateTime, up <- gateUp, now <- gateNow

Signals == INSTANCE Signalling WITH
  NoPlayer <- Nil, NoStreamer <- Nil, NoPolicy <- Nil, NoOffer <- Nil, NoDeal <- Nil,
  NoCodec <- Nil

Status == INSTANCE RuntimeStatus WITH left <- statusLeft

Sfu == INSTANCE Relay WITH Players <- SfuPlayers, up <- relayUp, left <- relayLeft

Negotiation == INSTANCE NegotiationRecovery WITH
  Players <- Places, MaxTime <- NegotiationTime, now <- negotiationNow

Ice == INSTANCE IceMonitor WITH Players <- Places, viewer <- iceViewer

Admit == INSTANCE Admission WITH Requests <- Customers, viewer <- admissionViewer

Alive == INSTANCE Keepalive

Turn == INSTANCE TurnCredentials WITH None <- Nil, MaxTime <- TurnTime, now <- turnNow

Naming == INSTANCE StreamerRegistry WITH None <- Nil, socket <- nameSocket

\* What Signalling assumes of its parameters.
ASSUME SignallingAssumption ==
  /\ Owners \cap Shadows = {}
  /\ Unmanaged \cap (Owners \cup Shadows) = {}
  /\ Nil \notin Signals!Players /\ Nil \notin Streamers
  /\ {"VP9", "H264"} \subseteq Codecs
  /\ \A k \in Policies : k.allowed \subseteq Codecs /\ k.default \in k.allowed
  /\ MaxSubscribers \in Nat /\ MaxGeneration \in Nat \ {0} /\ ControlTypes \in BOOLEAN
  /\ Nil \notin Codecs /\ Nil \notin Policies
  /\ Nil \notin Signals!Offers /\ Nil \notin Signals!Deals

-----------------------------------------------------------------------------
gateVars ==
  <<disk, stable, gateUp, failed, owner, admittedHere, hostBoot, requests, marker,
    proven, helper, pending, gateNow, occupants, latched, fence>>
signallingVars == <<conn, registry, online, subscribers, peers>>
statusVars == <<r, tag, streak, statusLeft>>
relayVars == <<srv, sfu, down, relayUp, relayLeft>>
negotiationVars == <<n, negotiationNow, due, waited>>
iceVars == <<iceViewer, records, order, timers>>
admissionVars == <<settings, gate, evidence, admissionViewer, right, faults>>
keepaliveVars == <<socket, missed, pings, silent, ended>>
turnVars == <<turnNow, options, secret, forced, warned, config, made, refused>>
namingVars == <<streamers, nameSocket, name, told, asks, want, authorizes>>

vars ==
  <<component,
    gateVars, signallingVars, statusVars, relayVars, negotiationVars, iceVars,
    admissionVars, keepaliveVars, turnVars, namingVars>>

\* The components other than c rest.
Rest(c) ==
  /\ IF c # "gate" THEN UNCHANGED gateVars ELSE TRUE
  /\ IF c # "signalling" THEN UNCHANGED signallingVars ELSE TRUE
  /\ IF c # "status" THEN UNCHANGED statusVars ELSE TRUE
  /\ IF c # "relay" THEN UNCHANGED relayVars ELSE TRUE
  /\ IF c # "negotiation" THEN UNCHANGED negotiationVars ELSE TRUE
  /\ IF c # "ice" THEN UNCHANGED iceVars ELSE TRUE
  /\ IF c # "admission" THEN UNCHANGED admissionVars ELSE TRUE
  /\ IF c # "keepalive" THEN UNCHANGED keepaliveVars ELSE TRUE
  /\ IF c # "turn" THEN UNCHANGED turnVars ELSE TRUE
  /\ IF c # "naming" THEN UNCHANGED namingVars ELSE TRUE

Init ==
  /\ component \in
      {"gate", "signalling", "status", "relay", "negotiation", "ice", "admission",
       "keepalive", "turn", "naming"}
  /\ Gate!Init
  /\ Signals!Init
  /\ IF component # "status"
     THEN r = Status!Started([required |-> FALSE, margin |-> -1,
                          journal |-> FALSE, proof |-> FALSE])
     ELSE TRUE
  /\ Status!Init
  /\ Sfu!Init
  /\ Negotiation!Init
  /\ Ice!Init
  /\ IF component # "admission"
     THEN settings = [mode |-> "off", complete |-> FALSE]
     ELSE TRUE
  /\ Admit!Init
  /\ Alive!Init
  /\ IF component # "turn"
     THEN options = [shared |-> Nil, player |-> Nil, streamer |-> Nil]
          /\ secret = FALSE /\ forced = FALSE
     ELSE TRUE
  /\ Turn!Init
  /\ IF component # "naming"
     THEN authorizes = FALSE /\ want = [p \in Programs |-> CHOOSE id \in Wanted : TRUE]
     ELSE TRUE
  /\ Naming!Init

Next ==
  /\ UNCHANGED component /\ Rest(component)
  /\ \/ component = "gate" /\ Gate!Next
     \/ component = "signalling" /\ Signals!Next
     \/ component = "status" /\ Status!Next
     \/ component = "relay" /\ Sfu!Next
     \/ component = "negotiation" /\ Negotiation!Next
     \/ component = "ice" /\ Ice!Next
     \/ component = "admission" /\ Admit!Next
     \/ component = "keepalive" /\ Alive!Next
     \/ component = "turn" /\ Turn!Next
     \/ component = "naming" /\ Naming!Next

\* The fairness each module states, of the component that runs.
Fairness ==
  /\ WF_gateVars(component = "gate" /\ Gate!Tick)
  /\ WF_gateVars(component = "gate" /\ Gate!Startup("durable"))
  /\ WF_gateVars(component = "gate" /\ Gate!Ready("durable"))
  /\ \A p \in Owners :
       WF_signallingVars(component = "signalling" /\ Signals!DeadlineFires(p))
  /\ \A p \in Owners \cup Shadows \cup Unmanaged :
       WF_signallingVars(component = "signalling" /\ conn[p].sock = "closing"
         /\ Signals!TransportClose(p))
  /\ WF_statusVars(component = "status" /\ Status!SoakTimer)
  /\ WF_statusVars(component = "status" /\ Status!WireHeartbeat)
  /\ WF_statusVars(component = "status" /\ Status!IdleHeartbeat)
  /\ WF_statusVars(component = "status" /\ Status!ReleaseTimer)
  /\ WF_statusVars(component = "status" /\ Status!Tick)
  /\ WF_statusVars(component = "status" /\ Status!StartTask)
  /\ WF_statusVars(component = "status" /\ Status!EndTask)
  /\ WF_relayVars(component = "relay" /\ Sfu!StreamerOffers)
  /\ WF_relayVars(component = "relay" /\ Sfu!ServerReceives)
  /\ WF_relayVars(component = "relay" /\ Sfu!SfuReceives)
  /\ WF_relayVars(component = "relay" /\ Sfu!SearchTimer)
  /\ WF_relayVars(component = "relay" /\ Sfu!OfferAnswered)
  /\ WF_relayVars(component = "relay" /\ Sfu!IceCompleted)
  /\ WF_relayVars(component = "relay" /\ sfu.sock = "closing" /\ Sfu!Closed)
  /\ WF_relayVars(component = "relay" /\ Sfu!Reconnect)
  /\ WF_relayVars(component = "relay" /\ Sfu!Opened)

Spec == Init /\ [][Next]_vars /\ Fairness

-----------------------------------------------------------------------------
(* Properties.  What each says of its component is stated in its module.   *)

\* What the control plane is told of a runtime has been earned: a customer's negotiation
\* is reported as failed only after its sockets, gaps left out and overlaps counted once,
\* have waited the full time together (negotiation-recovery.ts:47), and the instance is
\* Ready only after a streamer was visible for the whole soak (runtime-status.ts).
StatusIsEarned == Negotiation!ReportsAreEarned /\ Status!ReadyIsSoaked

\* No timer is lost and none is doubled: every unsaid ICE record keeps its timer and no
\* other runs, a socket that died is given up within its limit of missed pongs, and the
\* SFU has one search for a streamer under way at most, whatever reconnects and losses
\* cross (IceCandidateMonitor.ts:318, KeepaliveMonitor.ts:58, sfu_server.js:153).
TimersAreSound ==
  /\ Ice!UnsaidIsTimed /\ Alive!SilentGoes
  /\ Sfu!SearchIsSingle

\* The process and its durable evidence belong to a session only after a ticket of that
\* session that was right in every claim, and every connected viewer of a managed session
\* is in that evidence, whichever of the two writes failed (ConnectTicketAuth.ts:279); the
\* subscribers of a streamer, no more than it may have, are the viewers subscribed to it;
\* and no two streamers have one name (StreamerRegistry.ts:244).
OwnershipIsEarned ==
  /\ Admit!OwnershipIsEarned /\ Admit!ViewersAreEvident
  /\ Signals!RegistriesAgree
  /\ Naming!IdsAreUnique

\* A streamer's TURN credential, sent once when it connects, does not end while it may be
\* asked to relay; and a peer that was sent a TURN server it cannot use was warned of at
\* the start (turnCredentials.ts:117, index.ts:853).
RelayStaysUsable == Turn!RelayStaysUsable /\ Turn!BareRelayIsWarned

\* A required recovery whose replacement is proven reopens admission, when no write is
\* left half done (instance-agent.ts and connect-ticket-runtime-state.ts, "Ready").
RecoveryCompletes == Gate!RecoveryCompletes

\* A governed viewer that waits for its stream gets it or is disconnected: retries on the
\* same socket do not extend its deadline (PlayerConnection.ts:68).
PendingSettles == Signals!PendingSettles

\* Whatever announcements, recoveries, failed writes and restarts crossed, the status tag
\* ends up saying what was announced last, and "resetting" for as long as the gate blocks
\* a Ready (commercial-runtime-status.ts:50).
TagSettles == component = "status" => Status!TagSettles

\* While a streamer stays, the SFU ends up relaying it, whatever message or connection was
\* lost on the way, but for the two ends README.md names (sfu_server.js:153, 252).
RelayResumes == Sfu!RelayResumes

=============================================================================
